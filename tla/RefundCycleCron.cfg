SPECIFICATION Spec
CONSTANTS
    a1 = a1
    a2 = a2
    x1 = x1
    x2 = x2
    Accounts <- MCAccounts
    Addresses <- MCAddresses
    AddressOf <- MCAddressOf
    Threshold <- MCThresholdAbove
    Target <- MCTargetBelow
    InitialBalance <- MCInitialBetween
    MAX_WORKER_GOROUTINES = 1
    CYCLE_SAFETY_MARGIN = 3
    MinimumTimeout = 4
    ConfigTimeout = 2
    Every = FALSE
    Period = 0
    Gaps = {5, 7}
    Skew = 1
    Lag = 1
    PromptFaucet = TRUE
    MaxCycles = 2
    MaxWithdrawals = 1
    MaxCrashes = 1
INVARIANTS
    TypeOK
    NoOverlap
PROPERTIES
    NeverOverTarget
    CallsFollowContract
    CycleEnds
CHECK_DEADLOCK FALSE
