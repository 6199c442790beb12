SPECIFICATION FairSpec
CONSTANTS
    Msgs = {m1}
    Rpc = {}
    Deliveries = {d1, d2}
    Concurrency = 1
    NoMsg = NoMsg
    MaxLosses = 0
PROPERTY FireAndForgetCompletes
CHECK_DEADLOCK FALSE
