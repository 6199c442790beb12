SPECIFICATION FairSpec
CONSTANTS
    Capabilities = {execute, describe}
    MaxAttempts = 30
    InitialBackoff = 1
    MaxBackoff = 30
INVARIANTS
    ReleasesAll
    ConsumesOnOwnConnection
    OnlyTransportLoses
PROPERTIES
    UnsubscribeFirst
    CancelReturns
CHECK_DEADLOCK FALSE
