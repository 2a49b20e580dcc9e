SPECIFICATION Spec
CONSTANTS
    Tasks = {t1, t2, t3}
    Creator = t1
    Size = 4
    Counts = {2, 4}
    NR_OPEN = 2
SYMMETRY Symmetric
CHECK_DEADLOCK FALSE
INVARIANTS InOrder SleepIsNeeded
