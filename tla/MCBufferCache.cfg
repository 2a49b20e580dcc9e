SPECIFICATION Spec
CONSTANTS
    Tasks = {t1, t2, t3}
    NULL = NULL
    k1 = k1
    k3 = k3
    k4 = k4
    k5 = k5
    dev1 = dev1
    N = 3
    Blocks = {k1, k3, k4, k5}
    Dev <- OneDevice
    Pinned <- OnePinned
    Bad = {k5}
CONSTRAINTS FewDirty UntilHit
SYMMETRY Symmetric
INVARIANTS CountExact RightBlock FreeRing NoStaleUse DirtyKept WaiterHasHolder
PROPERTY NoRenameInFlight
