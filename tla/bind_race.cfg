SPECIFICATION Spec
CONSTANTS
    NumCounters = 2
    Writers = {w1, w2}
    Remover = remover
    RawValues = {}
    MaxHandlers = 2
INVARIANTS RaisedOnlyIfHandled
CHECK_DEADLOCK FALSE
