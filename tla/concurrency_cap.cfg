SPECIFICATION Spec
CONSTANTS
    Msgs = {m1, m2}
    Rpc = {m1, m2}
    Deliveries = {d1, d2}
    Concurrency = 1
    NoMsg = NoMsg
    MaxLosses = 1
INVARIANT ConcurrencyCap
CHECK_DEADLOCK FALSE
