SPECIFICATION Spec
CONSTANTS
    NumCounters = 1
    Events = {1, 2}
    Users = {u1, u2}
    Isr = isr
    Free = free
    Width = 3
    EpuSize = 4096
    Ctcc <- MCCtcc
    Epctrgcr <- MCEpctrgcr
    OtherWords <- MCOtherWords
    UserValues = {3, 4}
    MaxDue = 2
INVARIANTS TypeOK LockDiscipline NoLostOverflow CaptureCoversStrobe
PROPERTIES CapturesGrow
