\* Statements of the documentation that the code does not keep.  TLC stops at
\* the first it refutes; leave one of the lines to see the others.
SPECIFICATION Spec
CONSTANTS
    Reqs = {q1}
    Concurrency = 1
    Wrapped = {q1}
PROPERTY NoStartAfterClose
INVARIANT ClosedNotServed
INVARIANT NackVisible
INVARIANT DeadlineReported
CHECK_DEADLOCK FALSE
