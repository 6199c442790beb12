SPECIFICATION Spec
CONSTANTS
    Runs = {r1}
    Reqs = {keyed, bare, nameless, silent, watch, odd}
    Known = {keyed, bare, nameless, silent, watch}
    Observes = {watch}
    Ensures = {keyed, nameless}
    Keyed = {keyed, silent}
    Nameless = {nameless}
    WithEmitter = {keyed, bare, nameless, watch}
    MaxRetries = 2
INVARIANTS
    LatencyIndependent
CHECK_DEADLOCK FALSE
