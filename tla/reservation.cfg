SPECIFICATION FairSpec
CONSTANTS
    Clients = {c1, c2}
    Free = free
    Groups <- MCGroups
    Size <- MCSize
    Offset <- MCOffset
    Requests <- MCRequests
    NoRequest = noreq
INVARIANTS TypeOK OneOwner BitsHaveOwners
PROPERTIES ActsAsSemaphores
