SPECIFICATION Spec
CONSTANTS
    u1 = u1  u2 = u2  m1 = m1  m2 = m2  k1 = k1  k2 = k2  c1 = c1  c2 = c2  c3 = c3
    NoConn = NoConn
    Nobody = Nobody
    Users <- TwoUsers
    Monitors <- TwoMonitors
    Keys <- TwoKeys
    MayAsk <- OwnKey
    Conns <- ThreeConns
    MaxConnections = 1
SYMMETRY ConnSymmetry
INVARIANTS
    TypeOK
    NoneForgotten
PROPERTIES
    HeldIsKept
