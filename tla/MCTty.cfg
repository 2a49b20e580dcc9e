SPECIFICATION Spec
CONSTANTS
    Tasks = {t1, t2, t3}
    Group = {t1}
    Rows = {0, 1}
    TTY_BUF_SIZE = 3
    LowWater = 2
    Slack = 0
    Startup = 0
    Typed = {"x", "NL", "ERASE", "INTR"}
    MaxTyped = 2
    Texts <- MCTexts
    Counts = {2}
    MaxCalls = 3
SYMMETRY Symmetric
CONSTRAINT UntilHit
CHECK_DEADLOCK FALSE
INVARIANTS DataExact 
