SPECIFICATION Spec
CONSTANTS
    Targets <- ShellAndOS
    InitialWatermark = 1
    KillCord = 2
    InitialStates <- DetectOrOff
    MachineCrashes = TRUE
    TestsMoveMachine = TRUE
INVARIANTS
    TypeOK
    StateAgrees
    NoStalePrompt
    ConsoleGate
PROPERTIES
    StoppedNeverPowers
    PowerOnTakes
