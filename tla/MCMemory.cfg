SPECIFICATION Spec
CONSTANTS
    NR_TASKS = 4
    LOW_MEM = 1
    HIGH_MEMORY = 18
    NPTE = 5
    UserFrames = {11, 16}
    MaxPipes = 1
CONSTRAINT UntilHit
INVARIANTS CountExact RootInUse
