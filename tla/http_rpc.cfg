SPECIFICATION FairSpec
CONSTANTS
    Reqs = {q1, q2}
    Concurrency = 1
    Wrapped = {q1}
INVARIANT HandlersBounded
INVARIANT OneResponse
INVARIANT RefusedNotRun
PROPERTY CallsAtMostOnce
PROPERTY SlotsComeBack
CHECK_DEADLOCK FALSE
