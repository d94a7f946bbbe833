SPECIFICATION SerialSpec
CONSTANTS
    s1 = s1
    s2 = s2
    Stations = {s1, s2}
    Vehicles = {v1, v2}
    Renters = {n1}
    RentalIds = {r1, r2, r3}
    Requests = {q1}
    Capacity <- MCCapacity
    NULL = NULL
PROPERTIES ImplementsDesk
