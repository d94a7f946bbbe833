SPECIFICATION Spec
CONSTANTS
    s1 = s1
    s2 = s2
    Stations = {s1}
    Vehicles = {v1}
    Renters = {n1, n2}
    RentalIds = {r1, r2}
    Requests = {q1, q2}
    Capacity <- MCCapacityOne
    NULL = NULL
INVARIANTS NoDoubleBooking
