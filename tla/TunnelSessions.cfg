CONSTANTS
    c1 = c1
    c2 = c2
    c3 = c3
    Conn      = {c1, c2}
    Mode      = {"tunnel"}
    Dashboard = Dashboard
    Nobody    = Nobody
    max_connections = 2
    max_goroutines  = 4
    MaxWrites = 2
    MaxBalancers = 2
SPECIFICATION Spec
PROPERTY
    TunnelsComeAndGo
