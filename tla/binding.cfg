SPECIFICATION FairSpec
CONSTANTS
    NumCounters = 2
    Writers = {w1}
    Remover = remover
    RawValues = {0, 1}
    MaxHandlers = 2
INVARIANTS TypeOK HandlerCanBeFreed RegistersMapped  ExitUndoesAll
PROPERTIES KeepsOrder CallsEnd
CHECK_DEADLOCK FALSE
