SPECIFICATION IdSpec
CONSTANTS
    Contents = {"absent", "text"}
INVARIANTS
    MirrorsPrecedence
CHECK_DEADLOCK FALSE
