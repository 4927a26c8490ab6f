CONSTANTS
    a1 = a1
    a2 = a2
    a3 = a3
    s1 = s1
    c1 = c1
    c2 = c2
    Address    <- MCAddress
    Source     <- MCSource
    Configured <- MCConfigured
    Conn       <- MCConn
    SourceOf   <- MCSourceOf
    Alive      = {a3}
    NoRule     = NoRule
    RequestedRatio = {1}
    RuleRatio  = {}
    Removable  = {}
    CountModulus = 1
SPECIFICATION TSpec
INVARIANTS
    HandlersTypeOK
    GivesUpHonestly
PROPERTIES
    EventuallySettled
    RetriesDifferent
