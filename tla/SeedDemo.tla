------------------------------ MODULE SeedDemo ------------------------------
(***************************************************************************)
(* The demo data (scripts/seed_demo.py, "Safe to re-run"): a script of     *)
(* calls to the API that may be interrupted between any two of them and is *)
(* run again.                                                              *)
(*                                                                         *)
(* Nobody else writes meanwhile, so the lists it reads are current; how    *)
(* stale they may be otherwise is the subject of ListCache.  Stations,     *)
(* vehicles and accounts are numbered in the order the script lists them.  *)
(***************************************************************************)
EXTENDS Integers, FiniteSets, FiniteSetsExt

CONSTANTS
    Sites, Plates,      \* STATIONS and VEHICLES
    Accounts, KeepActive,   \* RENTERS, and those who keep an active rental
    MaxSeedings, MaxStops   \* bounds on runs, and on those that are interrupted

\* An interrupted run may leave a vehicle rented: there are enough of them.
ASSUME SeedAssumption ==
    /\ Sites \subseteq Nat /\ Plates \subseteq Nat /\ IsFiniteSet(Plates)
    /\ IsFiniteSet(Accounts) /\ Accounts # {}
    /\ Accounts = 1..Cardinality(Accounts) /\ KeepActive \subseteq Accounts
    /\ MaxSeedings \in Nat /\ MaxStops \in Nat
    /\ Cardinality(Plates) > MaxStops + Cardinality(KeepActive)

VARIABLES
    sites, cars,    \* the API: stations and vehicles there are,
    account,        \* accounts: "none", "user" or, with a renter profile, "renter",
    rides,          \* and rentals: [id, renter, car, status]
    step, todo,     \* the script: the call it is at, what it has to create,
    who, mine,      \* the renter it is at and the rentals it listed
    seedings, stops,
    finished        \* history: a run has come to its end

demoVars   == <<sites, cars, account, rides>>
scriptVars == <<step, todo, who, mine, seedings, stops, finished>>
seedVars   == <<demoVars, scriptVars>>

SeedInit ==
    /\ sites = {} /\ cars = {} /\ rides = {}
    /\ account = [a \in Accounts |-> "none"]
    /\ step = "idle" /\ todo = {} /\ who = 1 /\ mine = {}
    /\ seedings = 0 /\ stops = 0
    /\ finished = FALSE

-----------------------------------------------------------------------------
(* The API, as far as the script calls it                                  *)

Rented    == {r.car : r \in {s \in rides : s.status = "active"}}
Available == cars \ Rented

\* available_vehicle takes the first of the list; the script gives up when
\* there is none.
StartRide(next) ==
    LET ride == [id |-> Cardinality(rides) + 1, renter |-> who, car |-> Min(Available), status |-> "active"]
    IN /\ rides' = IF Available = {} THEN rides ELSE rides \cup {ride}
       /\ step' = IF Available = {} THEN "no vehicle" ELSE next

-----------------------------------------------------------------------------
(* The script                                                              *)

BeginSeed ==
    /\ step \in {"idle", "no vehicle"}
    /\ seedings < MaxSeedings
    /\ seedings' = seedings + 1
    /\ step' = "stations" /\ todo' = Sites \ sites
    /\ UNCHANGED <<demoVars, who, mine, stops, finished>>

ensure_stations ==
    /\ step = "stations"
    /\ \/ todo # {} /\ sites' = sites \cup {Min(todo)} /\ todo' = todo \ {Min(todo)} /\ UNCHANGED step
       \/ todo = {} /\ todo' = Plates \ cars /\ step' = "vehicles" /\ UNCHANGED sites
    /\ UNCHANGED <<cars, account, rides, who, mine, seedings, stops, finished>>

ensure_vehicles ==
    /\ step = "vehicles"
    /\ \/ todo # {} /\ cars' = cars \cup {Min(todo)} /\ todo' = todo \ {Min(todo)} /\ UNCHANGED step
       \/ todo = {} /\ step' = "register" /\ UNCHANGED <<cars, todo>>
    /\ UNCHANGED <<sites, account, rides, who, mine, seedings, stops, finished>>

\* ensure_renter registers, where 409 is as good, and adds a renter profile
\* where GET /me/renter answers 404.
Register ==
    /\ step = "register"
    /\ account' = [account EXCEPT ![who] = IF @ = "none" THEN "user" ELSE @]
    /\ step' = "profile"
    /\ UNCHANGED <<sites, cars, rides, todo, who, mine, seedings, stops, finished>>

my_renter_profile == account[who] = "renter"

AddProfile ==
    /\ step = "profile"
    /\ account' = IF my_renter_profile THEN account ELSE [account EXCEPT ![who] = "renter"]
    /\ step' = "rentals"
    /\ UNCHANGED <<sites, cars, rides, todo, who, mine, seedings, stops, finished>>

my_rentals ==
    /\ step = "rentals"
    /\ mine' = {r \in rides : r.renter = who}
    /\ step' = "trip"
    /\ UNCHANGED <<demoVars, todo, who, seedings, stops, finished>>

Has(status) == \E r \in mine : r.status = status

\* Mutant of TakeTrip: any rental counts as the trip.
TakeTripUnlessAny ==
    /\ step = "trip"
    /\ \/ mine = {} /\ StartRide("return")
       \/ mine # {} /\ step' = "keep" /\ UNCHANGED rides
    /\ UNCHANGED <<sites, cars, account, todo, who, mine, seedings, stops, finished>>

\* ensure_rentals: one completed trip.
TakeTrip ==
    /\ step = "trip"
    /\ \/ ~Has("completed") /\ StartRide("return")
       \/ Has("completed") /\ step' = "keep" /\ UNCHANGED rides
    /\ UNCHANGED <<sites, cars, account, todo, who, mine, seedings, stops, finished>>

\* The ride just started goes back to the station it came from.  That station is
\* not full (end_rental's 409): the ride freed a slot there, nobody else parks a
\* vehicle meanwhile, and no more are listed for a station than it has room for.
ReturnTrip ==
    /\ step = "return"
    /\ rides' = {IF r.id = Cardinality(rides) THEN [r EXCEPT !.status = "completed"] ELSE r : r \in rides}
    /\ step' = "keep"
    /\ UNCHANGED <<sites, cars, account, todo, who, mine, seedings, stops, finished>>

\* Mutant of KeepRide: it does not ask for an active rental.
KeepRideAlways ==
    /\ step = "keep"
    /\ \/ who \in KeepActive /\ StartRide("next")
       \/ who \notin KeepActive /\ step' = "next" /\ UNCHANGED rides
    /\ UNCHANGED <<sites, cars, account, todo, who, mine, seedings, stops, finished>>

\* One active rental for those who keep one.
KeepRide ==
    /\ step = "keep"
    /\ \/ who \in KeepActive /\ ~Has("active") /\ StartRide("next")
       \/ (who \notin KeepActive \/ Has("active")) /\ step' = "next" /\ UNCHANGED rides
    /\ UNCHANGED <<sites, cars, account, todo, who, mine, seedings, stops, finished>>

NextRenter ==
    /\ step = "next"
    /\ mine' = {}
    /\ \/ who + 1 \in Accounts /\ who' = who + 1 /\ step' = "register" /\ UNCHANGED finished
       \/ who + 1 \notin Accounts /\ who' = 1 /\ step' = "idle" /\ finished' = TRUE
    /\ UNCHANGED <<demoVars, todo, seedings, stops>>

\* The script is interrupted, or a call fails and it ends with the error.
StopSeed ==
    /\ step \notin {"idle", "no vehicle"}
    /\ stops < MaxStops
    /\ stops' = stops + 1
    /\ step' = "idle" /\ todo' = {} /\ who' = 1 /\ mine' = {}
    /\ UNCHANGED <<demoVars, seedings, finished>>

SeedNext ==
    \/ BeginSeed \/ ensure_stations \/ ensure_vehicles \/ Register \/ AddProfile
    \/ my_rentals \/ TakeTrip \/ ReturnTrip \/ KeepRide \/ NextRenter \/ StopSeed

SeedSpec == SeedInit /\ [][SeedNext]_seedVars

-----------------------------------------------------------------------------
(* Properties                                                              *)

Rides(a, status) == {r \in rides : r.renter = a /\ r.status = status}

(***************************************************************************)
(* Vehicles that interrupted runs leave behind rented never add up so that *)
(* a later run finds none, and once a run has come to its end, whatever    *)
(* runs were interrupted before, everything the script's docstring         *)
(* promises is there; the accounts that keep no rental have none unless a  *)
(* run was interrupted during a trip (available_vehicle; "every renter     *)
(* gets one completed trip", "petro is left without an active rental").    *)
(***************************************************************************)
SeedDelivers ==
    /\ step # "no vehicle"
    /\ finished =>
          /\ sites = Sites /\ cars = Plates
          /\ \A a \in Accounts : account[a] = "renter" /\ Rides(a, "completed") # {}
          /\ \A a \in KeepActive : Rides(a, "active") # {}
          /\ Cardinality(UNION {Rides(a, "active") : a \in Accounts \ KeepActive}) <= stops

\* "Safe to re-run": after a run that came to its end, no further run, be it
\* interrupted or not, changes anything (ensure_stations, ensure_vehicles,
\* ensure_renter, ensure_rentals).
RerunChangesNothing == [][finished => UNCHANGED demoVars]_seedVars
=============================================================================
