SPECIFICATION Spec
CONSTANTS
    c1 = c1  c2 = c2  c3 = c3
    Nobody = Nobody
    Calls <- ThreeCalls
    Checked <- TwoChecked
    Retry = 1
INVARIANTS
    TypeOK
PROPERTIES
    KeepsPromise
    NobodyCutsOff
    CallsEnd
