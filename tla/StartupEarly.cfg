SPECIFICATION Spec
CONSTANTS
    Nil = Nil
    UnitNames <- MCUnitNames
    Lower <- MCLower
    Trim <- MCTrim
    Token <- MCToken
    ChecksumAddresses <- MCChecksumAddresses
    WasmAddresses <- MCWasmAddresses
    Configs <- MCEarlyConfigs
INVARIANT
    ConfigErrorsAreCaughtEarly
CHECK_DEADLOCK FALSE
