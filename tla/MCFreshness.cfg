SPECIFICATION FreshnessSpec
CONSTANTS
    Readers = {r1, r2}
    Writers = {w1, w2}
    TTL = 3
    MaxDelay = 2
    MaxWrites = 2
    NONE = NONE
    Vehicles = {v1, v2}
    Rented = {v1}
    Visits = {i1, i2}
    Slots = {1, 2}
    Elsewhere = Elsewhere
    MaxClicks = 2
    MaxFaults = 1
    MaxChanges = 1
INVARIANTS StalenessBounded MapInv
PROPERTIES EventuallyFresh LeftOnlyWindsDown MapCatchesUp
CHECK_DEADLOCK FALSE
