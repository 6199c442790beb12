SPECIFICATION FairSpec
CONSTANTS
    Subs = {s1}
    Publishers = {p1}
    Requesters = {}
    WD = WD
    Closer = Closer
    None = None
    MaxFaults = 1
    MaxResets = 1
PROPERTY Rebinds
PROPERTY CloseReturns
PROPERTY GhostEndsWithItsChannel
CHECK_DEADLOCK FALSE
