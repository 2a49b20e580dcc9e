SPECIFICATION Spec
CONSTANTS
    Tasks = {t1, t2}
    Files = {1, 2}
    ND = 1
    NI = 2
    s_nzones = 6
    MapBits = 7
    WordBits = 8
    Calls <- MCCalls
    MaxSize = 1
    MaxCalls = 3
    ClearTells = TRUE
    CountSets = FALSE
CONSTRAINT UntilHit
SYMMETRY Symmetric
INVARIANTS NoSharing NoLeak ReadsBack
CHECK_DEADLOCK FALSE
