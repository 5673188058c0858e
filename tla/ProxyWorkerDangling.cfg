\* Tasks that outlive the object they name.
SPECIFICATION Spec
SYMMETRY Symmetry
CONSTANTS
    Frontend = {f1, f2}
    Backend = {b1, b2}
    Fd = {n1, n2, n3, n4}
    ListenFd = listen
    TimerFd = timer
    None = None
    Envs = {{"single_port"}}
    MaxReady = 3
    MaxBacklog = 2
INVARIANTS
    NoDanglingTask
