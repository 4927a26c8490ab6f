CONSTANTS
    r1 = r1
    r2 = r2
    s1 = s1
    a1 = a1
    a2 = a2
    Request <- MCRequest
    Session <- MCSession
    Address <- MCAddress
    Value   <- MCValue
    Mixes   <- MCMixes
    Default = "default"
    Flag    = "flag"
    NoRow = NoRow
    NoChange = NoChange
    Nobody = Nobody
SPECIFICATION Spec
INVARIANTS
    TypeOK
    ListedIsStored
    BalancersDurable
    SettingsSaved
    LogoutHolds
PROPERTIES
    KeepsBalancers
    EveryRequestAnswered
