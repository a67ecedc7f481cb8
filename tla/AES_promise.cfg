SPECIFICATION Spec
CHECK_DEADLOCK FALSE
CONSTANTS
    r1 = r1  r2 = r2  e1 = e1  e2 = e2
    NoRun = NoRun
    Runs <- TwoRuns
    Envs <- TwoEnvs
    UserOf <- OwnUser
    Searched <- OneOrAny
    Priors <- OneOrNone
    KeepLock <- Nobody
    Adding <- Second
    Endless <- First
    LockerWait = 1
INVARIANT
    LeftBehindIsReported
PROPERTY
    KeepsPromise
