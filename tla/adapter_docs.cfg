\* Statements of the documentation that the code does not keep.  TLC stops at
\* the first it refutes; leave one of the lines to see the others.
SPECIFICATION Spec
CONSTANTS
    Capabilities = {execute}
    MaxAttempts = 30
    InitialBackoff = 1
    MaxBackoff = 30
INVARIANT LastCallWins
INVARIANT BindErrorSurfaces
INVARIANT DialBudget
CHECK_DEADLOCK FALSE
