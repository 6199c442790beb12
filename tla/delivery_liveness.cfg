SPECIFICATION FairSpec
CONSTANTS
    Msgs = {m1, m2}
    Rpc = {m1, m2}
    Deliveries = {d1, d2}
    Concurrency = 1
    NoMsg = NoMsg
    MaxLosses = 1
PROPERTY RequestsComplete
CHECK_DEADLOCK FALSE
