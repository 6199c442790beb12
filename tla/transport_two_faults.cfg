SPECIFICATION FairSpec
CONSTANTS
    Subs = {s1}
    Publishers = {}
    Requesters = {}
    WD = WD
    Closer = Closer
    None = None
    MaxFaults = 2
    MaxResets = 1
PROPERTY Rebinds
PROPERTY CloseReturns
PROPERTY GhostEndsWithItsChannel
CHECK_DEADLOCK FALSE
