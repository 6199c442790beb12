SPECIFICATION FairSpec
CONSTANTS
    Subs = {s1}
    Publishers = {}
    Requesters = {}
    WD = WD
    Closer = Closer
    None = None
    MaxFaults = 0
    MaxResets = 1
PROPERTY SubCloseStops
CHECK_DEADLOCK FALSE
