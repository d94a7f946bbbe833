SPECIFICATION FairSpec
CONSTANTS
    v1 = v1
    m1 = m1
    m2 = m2
    m3 = m3
    m4 = m4
    Vehicles = {v1}
    Workers = {w1, w2}
    Messages = {m1, m2, m3, m4}
    Body <- MCBody
    NONE = NONE
    MaxFaults = 1
    MaxRestarts = 1
INVARIANTS ReadingsAreSafe
PROPERTIES EverySettled
CHECK_DEADLOCK FALSE
