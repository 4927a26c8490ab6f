CONSTANTS
    a1 = a1
    a2 = a2
    s1 = s1
    s2 = s2
    Address    <- MCAddress
    Source     <- MCSource
    Configured <- MCConfigured
    NoRule     = NoRule
    RequestedRatio = {0, 2}
    RuleRatio  = {0}
    Removable  = {a2}
    CountModulus = 2
SYMMETRY MCSymmetry
SPECIFICATION Spec
INVARIANT
    NoCrash
