SPECIFICATION Spec
CONSTANTS
    a1 = a1
    a2 = a2
    x1 = x1
    x2 = x2
    Accounts <- MCAccounts
    Addresses <- MCAddresses
    AddressOf <- MCAddressOf
    Threshold <- MCThreshold
    Target <- MCTarget
    InitialBalance <- MCInitialBalance
    MAX_WORKER_GOROUTINES = 2
    CYCLE_SAFETY_MARGIN = 3
    MinimumTimeout = 4
    ConfigTimeout = 2
    Every = TRUE
    Period = 5
    Gaps = {5}
    Skew = 1
    Lag = 1
    PromptFaucet = FALSE
    MaxCycles = 2
    MaxWithdrawals = 1
    MaxCrashes = 0
PROPERTY
    NeverOverTarget
CHECK_DEADLOCK FALSE
