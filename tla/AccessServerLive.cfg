SPECIFICATION MCSpec
CONSTANTS
    c1 = c1
    NoConn = NoConn
    Conns <- OneConn
    NTokens = 2
    Issued <- TwoTokens
    Mortal <- FirstToken
    Codes <- FirstToken
    NSlots = 1
    Kinds <- None
    RootKinds <- RevokeOnly
PROPERTIES
    RevokedSessionsEnd
    EveryRowIsTried
