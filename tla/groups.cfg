SPECIFICATION FairSpec
CONSTANTS
    NumCounters = 2
    Events = {1, 2}
    Users = {u1}
    Isr = isr
    Free = free
    Width = 2
    EpuSize = 4096
    Ctcc <- MCCtcc
    Epctrgcr <- MCEpctrgcr
    OtherWords <- MCNoWords
    UserValues = {}
    MaxDue = 1
INVARIANTS NoLostOverflow CaptureCoversStrobe
PROPERTIES EventuallyCounted CallsReturn
