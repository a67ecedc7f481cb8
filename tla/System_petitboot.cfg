SPECIFICATION Spec
CONSTANTS
    Targets <- EveryTarget
    InitialWatermark = 1
    KillCord = 3
    InitialStates <- DetectOrOff
    MachineCrashes = TRUE
    TestsMoveMachine = FALSE
INVARIANTS
    ReIPLBound
    DetectionReboots
PROPERTIES
    GotoTerminates
