SPECIFICATION FairSpec
CONSTANTS
    Subs = {}
    Publishers = {}
    Requesters = {}
    WD = WD
    Closer = Closer
    None = None
    MaxFaults = 1
    MaxResets = 0
PROPERTY CloseReleases
CHECK_DEADLOCK FALSE
