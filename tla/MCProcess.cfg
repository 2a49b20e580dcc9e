SPECIFICATION Spec
CONSTANTS
    NR_TASKS = 3
    MAX_PID = 3
    PRIORITY = 1
    Sigs = {15}
    WaitArgs <- AllArgs
    SleepKinds = {"INTERRUPTIBLE", "UNINTERRUPTIBLE"}
    PassIndex = FALSE
INVARIANTS PidsUnique FatherAlive NoLostChild NoVainWait
