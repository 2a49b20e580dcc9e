SPECIFICATION Spec
CONSTANTS
    Tasks = {1, 2}
    NR_INODE = 3
    s_ninodes = 2
    MaxLinks = 2
    ClearTells = TRUE
CONSTRAINT UntilHit
INVARIANTS CountExact NoLostUpdate AllocExact
