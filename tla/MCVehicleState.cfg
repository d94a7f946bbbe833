SPECIFICATION ClientSpec
CONSTANTS
    v1 = v1
    v2 = v2
    m1 = m1
    m2 = m2
    m3 = m3
    Vehicles = {v1, v2}
    Workers = {w1}
    Messages = {m1, m2, m3}
    Body <- MCBody
    NONE = NONE
    MaxFaults = 1
    MaxRestarts = 1
    Clients = {c1}
    MaxAttempts = 2
INVARIANTS AnswerInv NoFalseAbsence AnswerIsCurrent
PROPERTIES CacheNeverGoesBack
