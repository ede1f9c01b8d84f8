SPECIFICATION Spec
CONSTANT MaxRetries = 0
INVARIANTS
    TypeOK
    NoDuplicateFunding
    SuccessIsPaid
    FailureIsFinal
PROPERTIES
    CallReturns
    ImplementsFundingCall
