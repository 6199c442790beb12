SPECIFICATION TransportSpec
CONSTANTS
    Msgs = {m1}
    Rpc = {m1}
    Deliveries = {d1, d2}
    Concurrency = 1
    NoMsg = NoMsg
    MaxLosses = 0
PROPERTY TimeoutSettles
CHECK_DEADLOCK FALSE
