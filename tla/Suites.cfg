SPECIFICATION AllSpec
CHECK_DEADLOCK FALSE
CONSTANTS
    v0 = v0  v1 = v1  v2 = v2
    Old <- v0
    Versions <- ThreeVersions
    Kinds <- Both
    Last = 2
    Attempts = 2
    Polls = 2
    a = a  m0 = m0  m1 = m1
    Settings <- TwoSettings
    Commits = 4
    Iterations = 2
    KernelsLast = 2
    PlatformLast = 2
    Followers <- AfterAnother
INVARIANTS
    AllTypeOK
PROPERTIES
    PassedIsFlashed
    PassedIsTrue
    PassedPutsBack
    AllTestsEnd
