SPECIFICATION Spec
CONSTANTS
    Msgs = {m1, m2}
    Rpc = {m1}
    Deliveries = {d1, d2, d3}
    Concurrency = 2
    NoMsg = NoMsg
    MaxLosses = 1
SYMMETRY Symmetry
INVARIANT SettledOnce
INVARIANT RunsBounded
INVARIANT NoOrphan
PROPERTY KeepsPromise
CHECK_DEADLOCK FALSE
