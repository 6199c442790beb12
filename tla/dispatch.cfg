SPECIFICATION FairSpec
CONSTANTS
    Calls = {c1, c2}
    Configs <- MCConfigs
    Requests = {q1}
    Envelopes <- MCEnvelopes
    None = None
    Waiting = Waiting
    Unsupported = Unsupported
INVARIANT VerbRespected
PROPERTIES
    AtomicRegistration
    CustomStays
    RegistrationReturns
CHECK_DEADLOCK FALSE
