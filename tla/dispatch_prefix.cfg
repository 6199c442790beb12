SPECIFICATION Spec
CONSTANTS
    Calls = {c1}
    Configs <- PrefixConfigs
    Requests = {q1}
    Envelopes <- PrefixEnvelopes
    None = None
    Waiting = Waiting
    Unsupported = Unsupported
INVARIANT
    VerbRespected
CHECK_DEADLOCK FALSE
