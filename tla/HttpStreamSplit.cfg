\* A head cut by a segment.
SPECIFICATION Spec
CHECK_DEADLOCK FALSE
CONSTANTS
    Bodies = {0, 2}
    MaxRequests = 2
    MaxReqLen = 8
    Env = {"split"}
INVARIANTS
    InOrder
