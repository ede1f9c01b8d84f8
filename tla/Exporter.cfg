SPECIFICATION ProcessSpec
CONSTANTS
    starter = starter
    main = main
    gateway = gateway
    host = host
    token = token
    None = None
    Callers <- MCCallers
    NodeCount = 3
    Names <- MCNames
    Name <- MCName
    Enabled = {1, 3}
    Every = {1}
    MaxCalls = 2
INVARIANTS
    GracefulExit
    RefundsReadOpen
PROPERTY
    ShutdownCompletes
CHECK_DEADLOCK FALSE
