\* Two connections on reused addresses and descriptors, in seven environments.
SPECIFICATION Spec
SYMMETRY Symmetry
CONSTANTS
    Frontend = {f1, f2}
    Backend = {b1, b2}
    Fd = {n1, n2, n3, n4}
    ListenFd = listen
    TimerFd = timer
    None = None
    Envs = {{"single_port", "host_port"},
            {"single_port", "sync_connect", "epoll_full"},
            {"host_port", "sync_connect"},
            {"host_port", "slow_client", "slow_server", "bad_request"},
            {"single_port", "slow_client", "slow_server", "one_client"},
            {"single_port", "slow_server"},
            {"single_port", "slow_client"}}
    MaxReady = 3
    MaxBacklog = 2
INVARIANTS
    TypeOK
    LinkSymmetry
    PollerOwnsLive
    ActiveCountExact
    NoOrphan
    ReadsOnlyWhenConnected
    Backpressure
    PausedCanResume
PROPERTIES
    ResumeContinues
    OneBackendPerClient
