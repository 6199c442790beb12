SPECIFICATION Spec
CONSTANTS
    Subs = {s1}
    Publishers = {p1}
    Requesters = {r1}
    WD = WD
    Closer = Closer
    None = None
    MaxFaults = 2
    MaxResets = 0
INVARIANT OneSocket
INVARIANT DialsBounded
INVARIANT NoNilConnection
INVARIANT PubChFresh
PROPERTY NoDialAfterClose
CHECK_DEADLOCK FALSE
