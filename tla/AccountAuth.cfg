SPECIFICATION MCSpec
CHECK_DEADLOCK FALSE
CONSTANTS
    p1 = p1
    p2 = p2
    nOld = nOld
    nNew = nNew
    None = None
    c1 = c1
    c2 = c2
    Conns <- MCConns
    Passwords <- MCPasswords
    Names <- MCNames
    InitialFiles <- OldFile
    Kinds <- AllKinds
    AccessRequired = TRUE
    Capacity = 2
    MaxFails = 2
    MaxRequest = 2
    Lives <- MCLives
    Burst = 2
    Refill = 2
    Costs = {1, 2}
    MaxTime = 7
    MaxForward = 7
    MaxBacks = 2
INVARIANTS
    RequestsAgree
    RateLimited
PROPERTIES
    SessionsAreAuthentic
    PasswordsChangeByRight
    EveryRequestEnds
