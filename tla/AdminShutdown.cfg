SPECIFICATION FairSpec
CONSTANTS
    Ids = {a, b}
    Secs = {2}
    None = None
INVARIANTS
    ReceiptsKept
PROPERTIES
    SavedIsTrue
    RequestsEnd
