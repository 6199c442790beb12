SPECIFICATION Spec
CONSTANTS
    Calls = {c1, c2}
    Configs <- AliasConfigs
    Requests = {q1}
    Envelopes <- MCEnvelopes
    None = None
    Waiting = Waiting
    Unsupported = Unsupported
INVARIANT
    AliasFollows
CHECK_DEADLOCK FALSE
