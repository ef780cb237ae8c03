SPECIFICATION FairSpec
CONSTANTS
    Requests <- MCRequests
    Worker = "worker"
    LegalCalls = {"a", "b"}
    Prices = {1, 2}
    MaxSent = 2
    PageSize = 1
    Delay = 1
    Expiration = 2
    Passes = {p1}
    FaultKinds = {"node", "explorer", "refuse", "broadcast", "restart"}
    MaxFaults = 1
INVARIANTS  OnlyOffencesArePenalized
 
CHECK_DEADLOCK FALSE
