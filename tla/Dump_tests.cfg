SPECIFICATION DumpSpec
CHECK_DEADLOCK FALSE
CONSTANTS
    DumpLast = 2
    CrashTypes <- AllCrashTypes
    Retries = 3
INVARIANTS
    OwnDump
    OnlyFailuresForget
PROPERTIES
    DumpTestsEnd
