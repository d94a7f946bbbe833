------------------------------ MODULE Simulator -----------------------------
(***************************************************************************)
(* The telemetry simulator (telemetry/simulator.py) beside the API whose   *)
(* vehicle list it polls every few ticks: rentals start and end between    *)
(* two polls, a poll can fail, and every tick publishes one reading per    *)
(* vehicle it knows.                                                       *)
(*                                                                         *)
(* A position is the hub the vehicle is at or left last, with the hub it   *)
(* drives to; whether a step reaches it is left open.  Fuel is left out.   *)
(***************************************************************************)
EXTENDS Integers, FiniteSets

CONSTANTS
    Cars,
    Stops, Home,        \* stations, and where each vehicle stands first
    Hubs, HubOf, BankOf,    \* HUBS, station_hub, and the bank a hub is on
    NoHub,
    RefreshEvery,       \* REFRESH_EVERY_TICKS
    MaxTrips,           \* bound on rentals that start or end
    MaxOutages          \* bound on polls and ticks that fail

ASSUME SimulatorAssumption ==
    /\ NoHub \notin Hubs
    /\ HubOf \in [Stops -> Hubs] /\ Home \in [Cars -> Stops]
    /\ DOMAIN BankOf = Hubs
    /\ \A h \in Hubs : \E k \in Hubs \ {h} : BankOf[k] = BankOf[h]
    /\ RefreshEvery \in Nat \ {0} /\ MaxTrips \in Nat /\ MaxOutages \in Nat

VARIABLES
    status, station,    \* the API: what GET /vehicles lists
    fleet,              \* vehicles the simulator knows
    seen, parked,       \* SimVehicle.status, .station_id
    place, bank, target,    \* where it is, .bank, .target
    reading,            \* the last reading published: [place, target, locked]
    loop, tick,         \* where run() is, or "ended", and its tick
    list, left,         \* the answer of a poll, vehicles left in this tick
    trips, outages

apiVars == <<status, station>>
carVars == <<fleet, seen, parked, place, bank, target>>
simVars == <<apiVars, carVars, reading, loop, tick, list, left, trips, outages>>

NoReading == [place |-> NoHub, target |-> NoHub, locked |-> TRUE]

SimulatorInit ==
    /\ status = [v \in Cars |-> "available"]
    /\ station = Home
    /\ fleet = {}
    /\ seen = [v \in Cars |-> "available"]
    /\ parked = station
    /\ place = [v \in Cars |-> NoHub]
    /\ bank = [v \in Cars |-> NoHub]
    /\ target = [v \in Cars |-> NoHub]
    /\ reading = [v \in Cars |-> NoReading]
    /\ loop = "tick" /\ tick = 0
    /\ list = [status |-> status, station |-> station]
    /\ left = {}
    /\ trips = 0 /\ outages = 0

-----------------------------------------------------------------------------
(* The API: a rental starts, or ends at some station                       *)

Trip(v) ==
    /\ trips < MaxTrips
    /\ trips' = trips + 1
    /\ \/ /\ status[v] = "available"
          /\ status' = [status EXCEPT ![v] = "rented"]
          /\ UNCHANGED station
       \/ /\ status[v] = "rented"
          /\ status' = [status EXCEPT ![v] = "available"]
          /\ \E s \in Stops : station' = [station EXCEPT ![v] = s]
    /\ UNCHANGED <<carVars, reading, loop, tick, list, left, outages>>

-----------------------------------------------------------------------------
(* run                                                                     *)

Tick ==
    /\ loop = "tick"
    /\ loop' = IF tick = 0 THEN "fetch" ELSE "publish"
    /\ left' = IF tick = 0 THEN left ELSE fleet
    /\ UNCHANGED <<apiVars, carVars, reading, tick, list, trips, outages>>

\* fetch_vehicles in a thread; an OSError is logged and the tick goes on.
Fetch ==
    /\ loop = "fetch"
    /\ \/ /\ loop' = "sync"
          /\ list' = [status |-> status, station |-> station]
          /\ UNCHANGED <<left, outages>>
       \/ /\ outages < MaxOutages
          /\ outages' = outages + 1
          /\ loop' = "publish"
          /\ left' = fleet
          /\ UNCHANGED list
    /\ UNCHANGED <<apiVars, carVars, reading, tick, trips>>

station_hub(v) == HubOf[list.station[v]]

\* Mutant of park_at_station: a vehicle that is parked again keeps its target.
park_keeps_target(park) ==
    /\ place' = [v \in Cars |-> IF v \in park THEN station_hub(v) ELSE place[v]]
    /\ bank' = [v \in Cars |-> IF v \in park THEN BankOf[station_hub(v)] ELSE bank[v]]
    /\ UNCHANGED target

park_at_station(park) ==
    /\ place' = [v \in Cars |-> IF v \in park THEN station_hub(v) ELSE place[v]]
    /\ bank' = [v \in Cars |-> IF v \in park THEN BankOf[station_hub(v)] ELSE bank[v]]
    /\ target' = [v \in Cars |-> IF v \in park THEN NoHub ELSE target[v]]

\* Mutant of sync_fleet: a vehicle that is known already is skipped.
sync_fleet_only_new ==
    LET new == Cars \ fleet
    IN /\ fleet' = Cars
       /\ seen' = [v \in Cars |-> IF v \in new THEN list.status[v] ELSE seen[v]]
       /\ parked' = [v \in Cars |-> IF v \in new THEN list.station[v] ELSE parked[v]]
       /\ park_at_station(new)

\* Vehicles that are new or were returned are parked.
sync_fleet ==
    LET new      == Cars \ fleet
        returned == {v \in fleet : seen[v] = "rented" /\ list.status[v] # "rented"}
    IN /\ fleet' = Cars
       /\ seen' = list.status
       /\ parked' = list.station
       /\ park_at_station(new \cup returned)

Sync ==
    /\ loop = "sync"
    /\ sync_fleet
    /\ loop' = "publish"
    /\ left' = Cars
    /\ UNCHANGED <<apiVars, reading, tick, list, trips, outages>>

pick_target(v) == {h \in Hubs \ {place[v]} : BankOf[h] = bank[v]}

\* Mutant of Advance: a vehicle drives on although nobody rents it.
AdvanceAlways(v) ==
    \E h \in IF target[v] = NoHub THEN pick_target(v) ELSE {target[v]} :
        \/ target' = [target EXCEPT ![v] = h] /\ UNCHANGED place
        \/ target' = [target EXCEPT ![v] = NoHub] /\ place' = [place EXCEPT ![v] = h]

\* advance: a rented vehicle drives towards a hub and may arrive, a parked one
\* stays.
Advance(v) ==
    IF seen[v] # "rented" THEN UNCHANGED <<place, target>>
    ELSE \E h \in IF target[v] = NoHub THEN pick_target(v) ELSE {target[v]} :
            \/ target' = [target EXCEPT ![v] = h] /\ UNCHANGED place
            \/ target' = [target EXCEPT ![v] = NoHub] /\ place' = [place EXCEPT ![v] = h]

to_message(v) == [place |-> place[v], target |-> target[v], locked |-> seen[v] # "rented"]

Publish(v) ==
    /\ loop = "publish" /\ v \in left
    /\ Advance(v)
    /\ UNCHANGED <<apiVars, fleet, seen, parked, bank, loop, tick, list, trips, outages>>
    /\ reading' = [reading EXCEPT ![v] = to_message(v)']
    /\ left' = left \ {v}

\* The tick is over; tick counts modulo REFRESH_EVERY_TICKS.
EndTick ==
    /\ loop = "publish" /\ left = {}
    /\ loop' = "tick"
    /\ tick' = (tick + 1) % RefreshEvery
    /\ UNCHANGED <<apiVars, carVars, reading, list, left, trips, outages>>

\* Any other exception of the poll (an answer that is not JSON, an HTTP protocol
\* error) and an exception of publish are not caught: they end run().
RunFails ==
    /\ loop \in {"fetch", "publish"}
    /\ outages < MaxOutages
    /\ outages' = outages + 1
    /\ loop' = "ended"
    /\ UNCHANGED <<apiVars, carVars, reading, tick, list, left, trips>>

RunStep == Tick \/ Fetch \/ Sync \/ (\E v \in Cars : Publish(v)) \/ EndTick

SimulatorNext == RunStep \/ RunFails \/ \E v \in Cars : Trip(v)

SimulatorSpec == SimulatorInit /\ [][SimulatorNext]_simVars

-----------------------------------------------------------------------------
(* Properties                                                              *)

(***************************************************************************)
(* "driving cars hop between hubs of the same river bank, which keeps the  *)
(* straight-line legs on land": no vehicle drives, and no reading shows    *)
(* one driving, from a hub to one on the other bank, however rentals that  *)
(* end at a station across the river interleave with polls and ticks.      *)
(***************************************************************************)
NeverCrossesTheRiver ==
    /\ \A v \in fleet : bank[v] = BankOf[place[v]]
    /\ \A v \in fleet : target[v] # NoHub => BankOf[target[v]] = BankOf[place[v]]
    /\ \A v \in Cars : reading[v].target # NoHub => BankOf[reading[v].target] = BankOf[reading[v].place]

\* Where a vehicle that nobody rents may be shown next.
ParkingPlaces(v) ==
    {HubOf[parked[v]]} \cup {h \in {reading[v].place} : reading[v].locked /\ h # NoHub}

(***************************************************************************)
(* A vehicle that is shown locked stands still at a station: at the one    *)
(* the last poll gave, or where it was shown locked before (advance,       *)
(* park_at_station).  A ride that a late poll ends leaves no reading on    *)
(* the road.                                                               *)
(***************************************************************************)
LockedStaysPut ==
    [][\A v \in Cars : reading'[v] # reading[v] /\ reading'[v].locked =>
          reading'[v].target = NoHub /\ reading'[v].place \in ParkingPlaces(v)]_simVars

CaughtUp == seen = status /\ parked = station

\* The simulator's view of the fleet catches up with the API's, whatever polls
\* fail in between and whatever tick a rental falls into, unless an error it
\* does not catch has ended it (run).
SimulatorCatchesUp == []<>(loop = "ended" \/ CaughtUp)

-----------------------------------------------------------------------------
(* A property the documentation states and two polls can miss               *)

(***************************************************************************)
(* "parked ones stay at their station" (simulator.py): a vehicle that is   *)
(* not rented is at the station the last poll gave.  A rental that starts  *)
(* and ends between two polls changes the station and parks nothing        *)
(* (sync_fleet).                                                           *)
(***************************************************************************)
ParkedAtStation == \A v \in fleet : seen[v] # "rented" => place[v] = HubOf[parked[v]]
=============================================================================
