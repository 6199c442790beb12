SPECIFICATION Spec
CONSTANTS
    Calls = {c1}
    Configs <- ProviderConfigs
    Requests = {q1}
    Envelopes <- MCEnvelopes
    None = None
    Waiting = Waiting
    Unsupported = Unsupported
INVARIANT
    ProviderDefaults
CHECK_DEADLOCK FALSE
