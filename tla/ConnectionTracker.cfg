CONSTANTS
    c1 = c1
    c2 = c2
    c3 = c3
    Conn      <- MCConn
    Mode      = {"tunnel", "socks", "transparent"}
    Dashboard = Dashboard
    Nobody    = Nobody
    max_connections = 2
    max_goroutines  = 4
    MaxWrites = 2
    MaxBalancers = 2
SYMMETRY MCSymmetry
SPECIFICATION Spec
INVARIANTS
    TypeOK
    OnlyUnlimitedModesFill
    ArchivedOnce
    
