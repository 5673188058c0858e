\* One client after the other, two backends: what must happen in the end.
SPECIFICATION FairSpec
CONSTANTS
    Frontend = {f1}
    Backend = {b1, b2}
    Fd = {n1, n2, n3}
    ListenFd = listen
    TimerFd = timer
    None = None
    Envs = {{"single_port", "host_port"},
            {"single_port", "sync_connect", "slow_server"},
            {"host_port", "slow_client", "bad_request"}}
    MaxReady = 3
    MaxBacklog = 2
PROPERTIES
    LeftBehindCloses
    ConnectEnds
