\* Statements of the documentation that the code does not keep.  TLC stops at
\* the first it refutes; leave one of the lines to see the others.
SPECIFICATION Spec
CONSTANTS
    Events <- MCEvents
    Regs <- MCRegs
    Posts = {p1}
    ConfigMaxBodyBytes = 0
    DefaultMaxBodyBytes = 3
    None = None
INVARIANT LateRoutesServed
INVARIANT ListenErrorReturned
INVARIANT NilIsGraceful
CHECK_DEADLOCK FALSE
