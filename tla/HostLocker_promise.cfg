SPECIFICATION Spec
CHECK_DEADLOCK FALSE
CONSTANTS
    r1 = r1  r2 = r2
    NoRun = NoRun
    Runs <- TwoRuns
    UserOf <- OwnUser
    KeepLock <- OneKeeps
    Codes <- AllCodes
    LockerWait = 1
INVARIANTS
    LeftBehindIsReported
PROPERTIES
    KeepsPromise
    WaitEnds
