SPECIFICATION Spec
CONSTANTS
    NumCounters = 2
    Writers = {w1}
    Remover = remover
    RawValues = {0, 1}
    MaxHandlers = 2
INVARIANTS UnbindingFrees
CHECK_DEADLOCK FALSE
