SPECIFICATION Spec
CONSTANTS
    c1 = c1
    c2 = c2
    gateway = gateway
    host = host
    token = token
    archive = archive
    unknown = unknown
    None = None
    Callers <- MCCallers
    NodeCount = 4
    Names <- MCNames
    Name <- MCName
    Enabled = {1, 2, 3}
    Every = {1, 2}
    MaxCalls = 4
INVARIANTS
    TypeOK
    StoppedIsQuiet
    OneSchedulerPerNode
PROPERTIES
    CallsReturn
    SchedulersLiveOnce
CHECK_DEADLOCK FALSE
