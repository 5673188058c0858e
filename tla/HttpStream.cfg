\* Two requests of every kind, cut anywhere.  The stream of the client ends: no deadlock
\* check.
SPECIFICATION Spec
CHECK_DEADLOCK FALSE
CONSTANTS
    Bodies = {0, 1, 2}
    MaxRequests = 2
    MaxReqLen = 5
    Env = {"split", "multi_app", "long", "no_host", "chunked"}
INVARIANTS
    TypeOK
    
    
    
