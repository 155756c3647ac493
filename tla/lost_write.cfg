SPECIFICATION Spec
CONSTANTS
    NumCounters = 1
    Events = {1, 2}
    Users = {}
    Isr = isr
    Free = free
    Width = 3
    EpuSize = 4096
    Ctcc <- MCCtcc
    Epctrgcr <- MCEpctrgcr
    OtherWords <- MCOtherWords
    UserValues = {3}
    MaxDue = 2
INVARIANTS IncrementProtected
