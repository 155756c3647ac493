SPECIFICATION Spec
CONSTANTS
    NumCounters = 1
    Events = {1, 2}
    Users = {u1}
    Isr = isr
    Free = free
    Width = 3
    EpuSize = 0
    Ctcc <- MCCtcc
    Epctrgcr <- MCEpctrgcr
    OtherWords <- MCOtherWords
    UserValues = {}
    MaxDue = 2
INVARIANTS IdleHoldsNoLock
