SPECIFICATION Spec
CONSTANTS
    Trees <- MCTrees
    MaxFailures = 2
INVARIANTS TypeOK EntriesAreRanges  FilesMeetIoctls ReservationsMeetFiles LayoutsFit FilesAreRegisters DispatchHitsElement
CHECK_DEADLOCK FALSE
