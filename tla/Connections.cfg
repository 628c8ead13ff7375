SPECIFICATION MCSpec
CONSTANTS
    MaxSent = 4
    Batch = 2
    Epochs = {1, 2}
    QueueMax = 6
    CompactMin = 3
    PassMax = 2
    Accounts = {a1, a2}
    Chars = {c1, c2}
    Conns = {n1, n2}
    RosterLimit = 1
    MaxVersion = 2
INVARIANTS
    QueueSound
    RosterSound
PROPERTIES
    ImplementsStream
    CommandsEnd
    NoRollback
