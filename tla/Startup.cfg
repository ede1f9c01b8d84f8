SPECIFICATION Spec
CONSTANTS
    Nil = Nil
    UnitNames <- MCUnitNames
    Lower <- MCLower
    Trim <- MCTrim
    Token <- MCToken
    ChecksumAddresses <- MCChecksumAddresses
    WasmAddresses <- MCWasmAddresses
    Configs <- MCConfigs
INVARIANTS
    TypeOK
    RoundTrip
    BalancesConvert
    EveryAccountHasItsSeries
    SchedulersReadTheirNode
    BudgetKept
    PollsBeforeTimeout
PROPERTY
    SoundConfigStarts
CHECK_DEADLOCK FALSE
