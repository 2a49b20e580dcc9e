SPECIFICATION FairSpec
CONSTANTS
    NR_TASKS = 3
    MAX_PID = 3
    PRIORITY = 1
    Sigs = {15}
    WaitArgs <- AnyChild
    SleepKinds = {}
    PassIndex = FALSE
PROPERTIES NoStarvation SignalsArrive
