SPECIFICATION MCSpec
CHECK_DEADLOCK FALSE
CONSTANTS
    MaxPlayers = 1
    MaxLate = 1
    PublishTokens = 1
    Public = TRUE
    Protected = FALSE
    Tickets = {t1, t2}
    JobsMax = 2
    PunchMax = 1
    Addresses = 2
    ControlTokens = 1
    MaxGen = 4
    MaxSeq = 7
    Capacity = 2
    Refill = 3
    Stable = 2
    Control = TRUE
    MaxTime = 9
INVARIANTS
    PublisherSound
    ControlSound
    SequenceSound
    BudgetSound
PROPERTIES
    CatchesUp
