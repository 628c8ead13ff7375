SPECIFICATION MCSpec
CONSTANTS
    Faces = {x1, x2, x3, x4}
    Generics = {g}
    ActiveMax = 1
    BatchMax = 2
    PendingMax = 4
    Users <- GenericsShared
    None = None
    Tokens = {x1, x2, x3, x4}
    OutstandingMax = 3
    BackgroundMax = 1
    NoToken = NoToken
    Connections = {c1, c2, c3}
    TickBytes = 2
    TickWork = 8
    PassBytes = 1
    PassWork = 3
    Rounds = 1
    StreamsMax = 1
    AcceptMax = 1
    MaxUnits = 1
    Offers = {"batch"}
    MaxOffered = 1
    NoConn = NoConn
SYMMETRY Interchangeable
INVARIANTS
    RequestsKept
    LoadsKept
    RotationFair
PROPERTIES
    StreamsByRight
