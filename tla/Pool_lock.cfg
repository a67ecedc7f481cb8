SPECIFICATION Spec
CONSTANTS
    u1 = u1  u2 = u2  m1 = m1  m2 = m2  k1 = k1  k2 = k2  c1 = c1  c2 = c2  c3 = c3
    NoConn = NoConn
    Nobody = Nobody
    Users <- TwoUsers
    Monitors <- OneMonitorThread
    Keys <- OneKey
    MayAsk <- SameKey
    Conns <- TwoConns
    MaxConnections = 1

PROPERTIES
    LockWaitsOnlyForCommands
