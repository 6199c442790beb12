SPECIFICATION Spec
CONSTANTS
    Calls = {c1}
    Configs <- CaseConfigs
    Requests = {q1}
    Envelopes <- CaseEnvelopes
    None = None
    Waiting = Waiting
    Unsupported = Unsupported
PROPERTY
    DeclaredAccepted
CHECK_DEADLOCK FALSE
