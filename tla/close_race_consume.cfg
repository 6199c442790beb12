SPECIFICATION FairSpec
CONSTANTS
    Subs = {s1}
    Publishers = {}
    Requesters = {}
    WD = WD
    Closer = Closer
    None = None
    MaxFaults = 0
    MaxResets = 0
PROPERTY CloseStopsSubscriptions
CHECK_DEADLOCK FALSE
