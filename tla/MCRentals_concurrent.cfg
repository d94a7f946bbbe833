SPECIFICATION Spec
CONSTANTS
    s1 = s1
    s2 = s2
    Stations = {s1, s2}
    Vehicles = {v1, v2}
    Renters = {n1}
    RentalIds = {r1, r2}
    Requests = {q1, q2, q3}
    Capacity <- MCCapacityTwo
    NULL = NULL
SYMMETRY MCSymmetry
INVARIANTS RentedHasActiveRental IInv
PROPERTIES ClosedRentalsAreFinal
