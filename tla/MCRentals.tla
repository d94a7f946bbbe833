------------------------------ MODULE MCRentals ------------------------------
(* Instances of Rentals for TLC.                                            *)
EXTENDS Rentals, TLC

CONSTANTS s1, s2

\* One place at s1, two at s2.
MCCapacity == s1 :> 1 @@ s2 :> 2

MCCapacityOne == [s \in Stations |-> 1]

MCCapacityTwo == [s \in Stations |-> 2]

MCSymmetry == Permutations(Vehicles) \cup Permutations(RentalIds) \cup Permutations(Requests)
                  \cup Permutations(Renters)
=============================================================================
