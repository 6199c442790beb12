SPECIFICATION FairSpec
CONSTANTS
    Subs = {}
    Publishers = {p1}
    Requesters = {}
    WD = WD
    Closer = Closer
    None = None
    MaxFaults = 1
    MaxResets = 0
PROPERTY PublishReturns
CHECK_DEADLOCK FALSE
