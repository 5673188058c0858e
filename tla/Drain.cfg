\* A leader's thread with an acceptor, the main thread with the admin's, two apps.
\* The process may end: no deadlock check.
SPECIFICATION FairSpec
CHECK_DEADLOCK FALSE
CONSTANTS
    Leader = {l1}
    Main = main
    Listen = {port}
    AdminListen = admin_port
    App = {a1, a2}
    Conn = {c1, c2}
    NoApp = NoApp
    MaxSignals = 1
    Envs <- MCEnvs
INVARIANTS
    EstablishedNotCut
PROPERTIES
    AcceptorsClose
    DrainedExits
    PausedComesBack
