\* Up to four worker processes in turn, in six sets of events.
\* The master may end, and then nothing happens any more: no deadlock check.
SPECIFICATION FairSpec
CHECK_DEADLOCK FALSE
CONSTANTS
    Pid = {p1, p2, p3, p4}
    None = None
    Failed = Failed
    EventSets = {{"reload", "early_reload", "bad_conf", "admin_stop", "stop"},
            {"reload", "bad_conf", "stop"},
            {"reload", "early_reload", "fork_fails", "stop"},
            {"bad_conf", "fork_fails", "admin_stop", "stop"},
            {"crash", "bad_conf", "fork_fails", "admin_stop", "stop"},
            {"reload", "early_reload", "crash", "bad_conf", "fork_fails", "admin_stop", "stop"}}
INVARIANTS
    TypeOK
    ReloadIsBounded
    EveryWorkerKnown
PROPERTIES
    CarefulReloadServes
    ReloadEnds
    StopStopsAll
