SPECIFICATION Spec
CONSTANTS
    Msgs = {m1}
    Rpc = {m1}
    Deliveries = {d1}
    Concurrency = 1
    NoMsg = NoMsg
    MaxLosses = 0
INVARIANT CloseDrains
CHECK_DEADLOCK FALSE
