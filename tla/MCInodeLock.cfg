SPECIFICATION FairSpec
CONSTANTS
    Tasks = {t1, t2, t3, t4, t5}
    NULL = NULL
INVARIANTS NoLostSleeper NoStrayWake
PROPERTIES IsMutex EveryoneThrough
