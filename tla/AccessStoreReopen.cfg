SPECIFICATION Spec
CONSTANTS
    t1 = t1
    t2 = t2
    q1 = q1
    q2 = q2
    TokenIds <- MCTokens
    Requests <- TwoRequests
    TokenLimit = 2
    ReceiptLimit = 2
    TombstoneLimit = 1
    OutboxLimit = 2
    HistoryLimit = 1
    ReceiptTime = 0
    TombstoneTime = 0
    MaxRevision = 6
    MaxClock = 2
    Generations = 2
    InitialStores <- Bootstrapped
SYMMETRY Symmetry
INVARIANT AuthoritativeIsDurable
