SPECIFICATION Spec
CONSTANTS
    c1 = c1
    NoConn = NoConn
    Conns <- OneConn
    NTokens = 2
    Issued <- FirstToken
    Mortal <- FirstToken
    Codes <- FirstToken
    NSlots = 1
    Kinds <- IssueOnly
    RootKinds <- RevokeOnly
INVARIANTS
    JobsAgree
PROPERTIES
    AdmissionsAreCurrent
    CodesStayWithAsker
