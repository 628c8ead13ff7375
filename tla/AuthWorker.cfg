SPECIFICATION FairSpec
CONSTANTS
    NThreads = 2
    Queue = 2
    MaxRequest = 3
    p1 = p1
    p2 = p2
    None = None
    Passwords <- MCPasswords
    Jobs <- MCJobs
INVARIANTS
    SlotOwnership
    AnswersTheQuestion
    SecretsContained
PROPERTIES
    ImplementsService
    QueuedIsServed
    StopReturns
