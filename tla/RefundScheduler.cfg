SPECIFICATION Spec
CONSTANTS
    c1 = c1
    c2 = c2
    c3 = c3
    j1 = j1
    j2 = j2
    None = None
    Callers <- MCCallers
    Jobs <- MCJobs
INVARIANTS
    TypeOK
    QuietWhenStopped
    WorksWithOpenCollector
    OneEntry
    DeadlocksInStopOnly
PROPERTIES
    EveryStopReturns
    ImplementsSchedulerLife
CHECK_DEADLOCK FALSE
