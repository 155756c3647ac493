SPECIFICATION Spec
CONSTANTS
    NumCounters = 1
    Events = {1, 2}
    Users = {u1}
    Isr = isr
    Free = free
    Width = 3
    EpuSize = 4096
    Ctcc <- MCCtcc
    Epctrgcr <- MCEpctrgcr
    OtherWords <- MCNoWords
    UserValues = {}
    MaxDue = 2
INVARIANTS OverflowStatusAsserted
