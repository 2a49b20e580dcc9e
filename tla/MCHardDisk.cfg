SPECIFICATION Spec
CONSTANTS
    Tasks = {1, 2, 3, 4, 5}
    Buffers = {1, 2, 3, 4, 5, 6}
    Uses <- MCUses
    NR_REQUEST = 4
    NR_HD = 1
    nr_sects = 12
CHECK_DEADLOCK FALSE
INVARIANTS NoLostRequest Elevator NoVainSleep KeepsGoing
