----------------------------- MODULE RentalDesk -----------------------------
(***************************************************************************)
(* What the rental endpoints promise, with every request as one step: a    *)
(* vehicle is out with exactly one rental or stands at a station, it is    *)
(* handed out from where it stands, and it comes back only to a station    *)
(* with a free slot, which is then recorded both on the vehicle and on the *)
(* rental.  Rentals implements this when requests do not overlap.          *)
(***************************************************************************)
EXTENDS Integers, FiniteSets

CONSTANTS Stations, Vehicles, RentalIds, Capacity, NULL

VARIABLES
    at,     \* where each vehicle stands; NULL when it is out or not acquired
    open,   \* the rentals each vehicle is out with
    trip    \* per rental: vehicle, origin and destination

vars == <<at, open, trip>>

Standing(s) == {v \in Vehicles : at[v] = s}

Init ==
    /\ at = [v \in Vehicles |-> NULL]
    /\ open = [v \in Vehicles |-> {}]
    /\ trip = [r \in RentalIds |-> NULL]

\* A new vehicle is placed at any station, full or not.
Acquire(v, s) ==
    /\ at[v] = NULL
    /\ open[v] = {}
    /\ at' = [at EXCEPT ![v] = s]
    /\ UNCHANGED <<open, trip>>

Rent(v, r) ==
    /\ at[v] # NULL
    /\ open[v] = {}
    /\ trip[r] = NULL
    /\ trip' = [trip EXCEPT ![r] = [vehicle |-> v, from |-> at[v], to |-> NULL]]
    /\ open' = [open EXCEPT ![v] = {r}]
    /\ at' = [at EXCEPT ![v] = NULL]

Return(v, r, s) ==
    /\ open[v] = {r}
    /\ Cardinality(Standing(s)) < Capacity[s]
    /\ trip' = [trip EXCEPT ![r] = [vehicle |-> v, from |-> trip[r].from, to |-> s]]
    /\ open' = [open EXCEPT ![v] = {}]
    /\ at' = [at EXCEPT ![v] = s]

Next ==
    \E v \in Vehicles :
        \/ \E s \in Stations : Acquire(v, s)
        \/ \E r \in RentalIds : Rent(v, r)
        \/ \E r \in RentalIds, s \in Stations : Return(v, r, s)

Spec == Init /\ [][Next]_vars
=============================================================================
