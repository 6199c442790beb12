SPECIFICATION FairSpec
CONSTANTS
    Events <- MCEvents
    Regs <- MCRegs
    Posts = {p1, p2}
    ConfigMaxBodyBytes = 0
    DefaultMaxBodyBytes = 3
    None = None
INVARIANTS
    AdmittedByItsRoute
    NilMeansDrained
PROPERTIES
    AckedWhenProcessed
    CancelReturns
CHECK_DEADLOCK FALSE
