\* A reload while a worker has not said yet that it runs.
SPECIFICATION Spec
SYMMETRY Symmetry
CHECK_DEADLOCK FALSE
CONSTANTS
    Pid = {p1, p2, p3}
    None = None
    Failed = Failed
    EventSets = {{"reload", "early_reload"}}
PROPERTIES
    NoServiceGap
