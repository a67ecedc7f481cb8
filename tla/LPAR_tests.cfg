SPECIFICATION Spec
CHECK_DEADLOCK FALSE
CONSTANTS
    home = home  away = away
    Home <- home
    Away <- away
    Kinds <- AllKinds
    Last = 3
    WaitLimit = 2
    ErrorLimit = 2
    booting_watermark = 1
    kill_cord = 2
INVARIANTS
    TypeOK
    OffIsOff
    MisnamedIsReported
    PassedLeavesAsFound
PROPERTIES
    TestsEnd
