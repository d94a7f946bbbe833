---------------------------- MODULE MCVehicleState ----------------------------
(* Instances of VehicleState for TLC.                                       *)
EXTENDS VehicleState, TLC

CONSTANTS v1, v2, m1, m2, m3

Reading(v, t) == [vehicle |-> v, recorded_at |-> t, kind |-> "ok"]

\* Two readings of v1 and one of v2.
MCBody == m1 :> Reading(v1, 1) @@ m2 :> Reading(v1, 2) @@ m3 :> Reading(v2, 1)
=============================================================================
