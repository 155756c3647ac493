SPECIFICATION Spec
CONSTANTS
    NumCounters = 1
    Events = {1, 2}
    Users = {u1}
    Isr = isr
    Free = free
    Width = 2
    EpuSize = 4096
    Ctcc <- MCCtcc
    Epctrgcr <- MCEpctrgcr
    OtherWords <- MCNoWords
    UserValues = {}
    MaxDue = 1
INVARIANTS OnlyPendingCounted
