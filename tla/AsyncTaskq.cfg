\* Four pushes against batches of two.  With all pushed and run nothing happens any
\* more: no deadlock check.
SPECIFICATION FairSpec
CHECK_DEADLOCK FALSE
CONSTANTS
    Task = {t1, t2, t3, t4}
    Batch = 2
INVARIANTS
    TypeOK
    NotifyOwned
PROPERTIES
    Fifo
    WokenTasksRun
