CONSTANTS
    a1 = a1
    a2 = a2
    a3 = a3
    s1 = s1
    Address    <- MCAddress
    Source     <- MCSource
    Configured <- MCConfigured
    NoRule     = NoRule
    RequestedRatio = {1}
    RuleRatio  = {2}
    Removable  = {}
    CountModulus = 1
    Quota      = 2
SPECIFICATION FSpec
INVARIANTS
    TurnsInRange
    FairInv
PROPERTY
    FairlyDispatched
