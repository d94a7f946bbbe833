------------------------------- MODULE Rentals -------------------------------
(***************************************************************************)
(* The rental desk of the fleet: the stations, vehicles, renters and       *)
(* rentals tables and the request handlers that change them                *)
(* (api/rentals.py, api/vehicles.py, api/stations.py, api/renters.py with  *)
(* services/rental_service.py and services/station_service.py).            *)
(*                                                                         *)
(* Every request owns one database session.  At PostgreSQL's default READ  *)
(* COMMITTED level each SELECT of a handler sees the rows committed at that *)
(* moment, so each SELECT is one action here and other requests may run    *)
(* between two of them.  No handler of this component locks a row.  The    *)
(* session buffers the handler's assignments and commit() writes them in   *)
(* one transaction: one action.  SQLAlchemy writes only the columns whose  *)
(* value differs from the value this session loaded, by primary key and    *)
(* without a version check.                                                *)
(*                                                                         *)
(* The handlers also delete the cached vehicle or station list after their *)
(* commit; the cache and the race between those two steps are in ListCache. *)
(***************************************************************************)
EXTENDS Integers, FiniteSets

CONSTANTS
    Stations,   \* station ids
    Vehicles,   \* vehicle ids
    Renters,    \* renter ids
    RentalIds,  \* rental ids; bounds how many rentals are ever started
    Requests,   \* concurrent rental requests, over all API replicas
    Capacity,   \* capacity of each station
    NULL        \* SQL NULL, and "no such row"

ASSUME CapacityAssumption == Capacity \in [Stations -> Int]

VARIABLES
    stations,   \* ids of the station rows
    renters,    \* ids of the renter rows
    vehicles,   \* the vehicle rows
    rentals,    \* the rental rows
    pc,         \* per request: where its handler stands
    arg,        \* per request: the ids it works on
    seen        \* per request: the vehicle row its session loaded

tables == <<stations, renters, vehicles, rentals>>
vars == <<stations, renters, vehicles, rentals, pc, arg, seen>>

-----------------------------------------------------------------------------
(* Tables.  Status NULL marks an id that is not a row yet.  No code sets    *)
(* VehicleStatus.MAINTENANCE or RentalStatus.CANCELLED, so no row has them. *)

VehicleStatus == {"available", "rented"}
RentalStatus  == {"active", "completed"}

ASSUME NullAssumption ==
    NULL \notin Stations \cup Vehicles \cup Renters \cup RentalIds
                   \cup VehicleStatus \cup RentalStatus

VehicleRow == [status: VehicleStatus \cup {NULL}, station: Stations \cup {NULL}]

\* end_station stands for end_station_id and ended_at: both are written by
\* the same UPDATE.
RentalRow ==
    [status: RentalStatus \cup {NULL}, vehicle: Vehicles \cup {NULL},
     renter: Renters \cup {NULL}, start_station: Stations \cup {NULL},
     end_station: Stations \cup {NULL}]

NoVehicle == [status |-> NULL, station |-> NULL]

NoRental ==
    [status |-> NULL, vehicle |-> NULL, renter |-> NULL,
     start_station |-> NULL, end_station |-> NULL]

Steps == {"idle", "start", "start_commit", "end", "end_slot", "end_vehicle", "end_commit"}

\* What a start is asked for (renter and vehicle) or an end (rental and
\* station); an end adds the vehicle of the rental it loaded.
Arg ==
    [renter: Renters \cup {NULL}, vehicle: Vehicles \cup {NULL},
     rental: RentalIds \cup {NULL}, station: Stations \cup {NULL}]

NoArg == [renter |-> NULL, vehicle |-> NULL, rental |-> NULL, station |-> NULL]

\* Vehicles that occupy a slot of station s (count_parked_vehicles).
Parked(s) == {v \in Vehicles : vehicles[v].station = s /\ vehicles[v].status # "rented"}

\* Mutant of HasFreeSlot: <= for <.
HasFreeSlotOffByOne(s) == Cardinality(Parked(s)) <= Capacity[s]

HasFreeSlot(s) == Cardinality(Parked(s)) < Capacity[s]

UnusedRentalIds == {r \in RentalIds : rentals[r].status = NULL}

StartsInFlight == {q \in Requests : pc[q] \in {"start", "start_commit"}}

-----------------------------------------------------------------------------
Init ==
    /\ stations = {}
    /\ renters = {}
    /\ vehicles = [v \in Vehicles |-> NoVehicle]
    /\ rentals = [r \in RentalIds |-> NoRental]
    /\ pc = [q \in Requests |-> "idle"]
    /\ arg = [q \in Requests |-> NoArg]
    /\ seen = [q \in Requests |-> NoVehicle]

(* Handlers with one write and no check that another request can outdate:  *)
(* rows are never deleted, so a station found stays found.                 *)

CreateStation(s) ==
    /\ s \notin stations
    /\ stations' = stations \cup {s}
    /\ UNCHANGED <<renters, vehicles, rentals, pc, arg, seen>>

CreateRenter(n) ==
    /\ n \notin renters
    /\ renters' = renters \cup {n}
    /\ UNCHANGED <<stations, vehicles, rentals, pc, arg, seen>>

\* The station must exist; its capacity is not consulted.
CreateVehicle(v, s) ==
    /\ vehicles[v].status = NULL
    /\ s \in stations
    /\ vehicles' = [vehicles EXCEPT ![v] = [status |-> "available", station |-> s]]
    /\ UNCHANGED <<stations, renters, rentals, pc, arg, seen>>

-----------------------------------------------------------------------------
(* POST /rentals/start                                                     *)

Advance(q, step) == pc' = [pc EXCEPT ![q] = step]

\* The response is sent: get_db closes the session.
Respond(q) ==
    /\ Advance(q, "idle")
    /\ arg' = [arg EXCEPT ![q] = NoArg]
    /\ seen' = [seen EXCEPT ![q] = NoVehicle]

ReceiveStart(q, n, v) ==
    /\ pc[q] = "idle"
    /\ Cardinality(StartsInFlight) < Cardinality(UnusedRentalIds)   \* bound on the ids
    /\ Advance(q, "start")
    /\ arg' = [arg EXCEPT ![q] = [renter |-> n, vehicle |-> v, rental |-> NULL, station |-> NULL]]
    /\ UNCHANGED <<stations, renters, vehicles, rentals, seen>>

\* db.get(Vehicle): 404 for no row, 409 unless it is AVAILABLE.
StartReadVehicle(q) ==
    /\ pc[q] = "start"
    /\ \/ /\ vehicles[arg[q].vehicle].status = "available"
          /\ Advance(q, "start_commit")
          /\ seen' = [seen EXCEPT ![q] = vehicles[arg[q].vehicle]]
          /\ UNCHANGED arg
       \/ /\ vehicles[arg[q].vehicle].status # "available"
          /\ Respond(q)
    /\ UNCHANGED tables

\* UPDATE vehicles SET status and INSERT INTO rentals, in one transaction.
StartCommit(q, r) ==
    LET v == arg[q].vehicle
    IN /\ pc[q] = "start_commit"
       /\ arg[q].renter \in renters
       /\ r \in UnusedRentalIds
       /\ rentals' = [rentals EXCEPT ![r] =
              [status |-> "active", vehicle |-> v, renter |-> arg[q].renter,
               start_station |-> seen[q].station, end_station |-> NULL]]
       /\ vehicles' = [vehicles EXCEPT ![v] =
              [status |-> "rented", station |-> vehicles[v].station]]
       /\ Respond(q)
       /\ UNCHANGED <<stations, renters>>

\* An unknown renter violates the foreign key: the transaction rolls back.
StartForeignKeyError(q) ==
    /\ pc[q] = "start_commit"
    /\ arg[q].renter \notin renters
    /\ Respond(q)
    /\ UNCHANGED tables

-----------------------------------------------------------------------------
(* POST /rentals/{rental_id}/end                                           *)

ReceiveEnd(q, r, s) ==
    /\ pc[q] = "idle"
    /\ Advance(q, "end")
    /\ arg' = [arg EXCEPT ![q] = [renter |-> NULL, vehicle |-> NULL, rental |-> r, station |-> s]]
    /\ UNCHANGED <<stations, renters, vehicles, rentals, seen>>

\* The session now holds the rental, and with it the vehicle's id.
LoadRental(q) ==
    arg' = [arg EXCEPT ![q] =
        [renter |-> NULL, vehicle |-> rentals[arg[q].rental].vehicle,
         rental |-> arg[q].rental, station |-> arg[q].station]]

\* Mutant of EndReadRental: a missing row is not reported.
EndReadRentalUnchecked(q) ==
    /\ pc[q] = "end"
    /\ \/ /\ rentals[arg[q].rental].status # "completed"
          /\ Advance(q, "end_slot")
          /\ LoadRental(q)
          /\ UNCHANGED seen
       \/ /\ rentals[arg[q].rental].status = "completed"
          /\ Respond(q)
    /\ UNCHANGED tables

\* Mutant of EndReadRental: a rental that is over may be ended again.
EndReadRentalAgain(q) ==
    /\ pc[q] = "end"
    /\ \/ /\ rentals[arg[q].rental].status # NULL
          /\ Advance(q, "end_slot")
          /\ LoadRental(q)
          /\ UNCHANGED seen
       \/ /\ rentals[arg[q].rental].status = NULL
          /\ Respond(q)
    /\ UNCHANGED tables

\* db.get(Rental): 404 for no row, 409 unless it is ACTIVE.
EndReadRental(q) ==
    /\ pc[q] = "end"
    /\ \/ /\ rentals[arg[q].rental].status = "active"
          /\ Advance(q, "end_slot")
          /\ LoadRental(q)
          /\ UNCHANGED seen
       \/ /\ rentals[arg[q].rental].status # "active"
          /\ Respond(q)
    /\ UNCHANGED tables

\* has_free_slot: 404 for no station, 409 for a full one.
EndCheckSlot(q) ==
    LET free == arg[q].station \in stations /\ HasFreeSlot(arg[q].station)
    IN /\ pc[q] = "end_slot"
       /\ \/ free /\ Advance(q, "end_vehicle") /\ UNCHANGED <<arg, seen>>
          \/ ~free /\ Respond(q)
       /\ UNCHANGED tables

EndLoadVehicle(q) ==
    /\ pc[q] = "end_vehicle"
    /\ Advance(q, "end_commit")
    /\ seen' = [seen EXCEPT ![q] = vehicles[arg[q].vehicle]]
    /\ UNCHANGED <<stations, renters, vehicles, rentals, arg>>

\* Mutant of ReturnedVehicle: the status is not assigned.
ReturnedVehicleKeepsStatus(q) ==
    [status |-> vehicles[arg[q].vehicle].status, station |-> arg[q].station]

\* The vehicle row as this session's UPDATE leaves it: a column whose new
\* value equals the value loaded is not part of the UPDATE.
ReturnedVehicle(q) ==
    LET row == vehicles[arg[q].vehicle]
    IN [status  |-> IF seen[q].status = "available" THEN row.status ELSE "available",
        station |-> IF seen[q].station = arg[q].station THEN row.station ELSE arg[q].station]

ReturnedRental(q) ==
    LET row == rentals[arg[q].rental]
    IN [status |-> "completed", vehicle |-> row.vehicle, renter |-> row.renter,
        start_station |-> row.start_station, end_station |-> arg[q].station]

\* UPDATE vehicles and UPDATE rentals, in one transaction.
EndCommit(q) ==
    /\ pc[q] = "end_commit"
    /\ vehicles' = [vehicles EXCEPT ![arg[q].vehicle] = ReturnedVehicle(q)]
    /\ rentals' = [rentals EXCEPT ![arg[q].rental] = ReturnedRental(q)]
    /\ Respond(q)
    /\ UNCHANGED <<stations, renters>>

\* A database error, a cancelled request or a killed pod: the open
\* transaction is rolled back.
Abort(q) ==
    /\ pc[q] # "idle"
    /\ Respond(q)
    /\ UNCHANGED tables

-----------------------------------------------------------------------------
Start(q) ==
    \/ StartReadVehicle(q)
    \/ \E r \in RentalIds : StartCommit(q, r)
    \/ StartForeignKeyError(q)

End(q) ==
    \/ EndReadRental(q)
    \/ EndCheckSlot(q)
    \/ EndLoadVehicle(q)
    \/ EndCommit(q)

Setup ==
    \/ \E s \in Stations : CreateStation(s)
    \/ \E n \in Renters : CreateRenter(n)
    \/ \E v \in Vehicles, s \in Stations : CreateVehicle(v, s)

Next ==
    \/ Setup
    \/ \E q \in Requests :
        \/ \E n \in Renters, v \in Vehicles : ReceiveStart(q, n, v)
        \/ \E r \in RentalIds, s \in Stations : ReceiveEnd(q, r, s)
        \/ Start(q)
        \/ End(q)
        \/ Abort(q)

Spec == Init /\ [][Next]_vars

\* One request at a time: a request is received, and a row created, only
\* when no other request is being handled.
NoOverlap ==
    /\ \A p, q \in Requests : pc'[p] # "idle" /\ pc'[q] # "idle" => p = q
    /\ (\E q \in Requests : pc[q] # "idle") => pc' # pc

SerialSpec == Init /\ [][Next /\ NoOverlap]_vars

-----------------------------------------------------------------------------
(* Properties that hold however many requests overlap.                      *)

\* Every row and every session has its type.
TypeOK ==
    /\ stations \subseteq Stations
    /\ renters \subseteq Renters
    /\ vehicles \in [Vehicles -> VehicleRow]
    /\ rentals \in [RentalIds -> RentalRow]
    /\ pc \in [Requests -> Steps]
    /\ arg \in [Requests -> Arg]
    /\ seen \in [Requests -> VehicleRow]

ActiveOn(v) == {r \in RentalIds : rentals[r].status = "active" /\ rentals[r].vehicle = v}

(***************************************************************************)
(* No vehicle is lost: a vehicle marked RENTED always has an ACTIVE rental *)
(* through which it can be returned, however start_rental and end_rental   *)
(* calls overlap.  A vehicle for which this fails could never be rented or *)
(* returned again: start_rental answers 409, and there is nothing to end.  *)
(***************************************************************************)
RentedHasActiveRental ==
    \A v \in Vehicles : vehicles[v].status = "rented" => ActiveOn(v) # {}

(***************************************************************************)
(* Why no vehicle is lost.  A session whose handler is past a check keeps  *)
(* what the check established: the rental it ends is a row, on the vehicle *)
(* it remembers (SessionsOK).  And a RENTED vehicle has an ACTIVE rental   *)
(* that no pending commit can complete without also freeing the vehicle:   *)
(* every session about to complete it loaded the vehicle as RENTED, so its *)
(* UPDATE does write the status (RentedIsBacked).                          *)
(***************************************************************************)
RowsOK ==
    \A r \in RentalIds : rentals[r].status # NULL => rentals[r].vehicle \in Vehicles

SessionsOK ==
    \A q \in Requests :
        /\ pc[q] \in {"start", "start_commit"} => arg[q].vehicle \in Vehicles
        /\ pc[q] \in {"end", "end_slot", "end_vehicle", "end_commit"} =>
              /\ arg[q].rental \in RentalIds
              /\ arg[q].station \in Stations
        /\ pc[q] \in {"end_slot", "end_vehicle", "end_commit"} =>
              /\ rentals[arg[q].rental].status # NULL
              /\ rentals[arg[q].rental].vehicle = arg[q].vehicle

FreesVehicle(r) ==
    \A q \in Requests :
        pc[q] = "end_commit" /\ arg[q].rental = r => seen[q].status # "available"

RentedIsBacked ==
    \A v \in Vehicles :
        vehicles[v].status = "rented" => \E r \in ActiveOn(v) : FreesVehicle(r)

\* The inductive invariant: types, what sessions remember, and the rental
\* that backs each RENTED vehicle (start_rental, end_rental).
IInv == TypeOK /\ RowsOK /\ SessionsOK /\ RentedIsBacked

\* A request past the check that the rental is ACTIVE and not yet answered.
EndUnderWay(r) ==
    \E q \in Requests :
        pc[q] \in {"end_slot", "end_vehicle", "end_commit"} /\ arg[q].rental = r

Closed(r) == rentals[r].status = "completed" /\ ~EndUnderWay(r)

(***************************************************************************)
(* A closed rental is final: once a rental is COMPLETED and no end_rental  *)
(* that found it ACTIVE is still under way, no column of its row changes   *)
(* again, the end included, and no request gets past the check any more.   *)
(* Before that only the end may change.  It does so after COMPLETED too:   *)
(* of two overlapping end_rental calls the later commit overwrites         *)
(* ended_at and end_station_id, as the row is neither locked nor read      *)
(* again.                                                                  *)
(***************************************************************************)
ClosedRentalsAreFinal ==
    [][\A r \in RentalIds : rentals[r].status # NULL =>
        /\ Closed(r) => Closed(r)' /\ rentals'[r] = rentals[r]
        /\ rentals'[r].status \in {rentals[r].status, "completed"}
        /\ \A column \in {"vehicle", "renter", "start_station"} :
              rentals'[r][column] = rentals[r][column]]_vars

-----------------------------------------------------------------------------
(* Properties that hold when requests do not overlap.                       *)

(***************************************************************************)
(* The handlers implement RentalDesk: start_rental and end_rental behave   *)
(* as if each were one step.                                               *)
(***************************************************************************)
Desk ==
    INSTANCE RentalDesk WITH
        at <- [v \in Vehicles |->
                  IF vehicles[v].status = "available" THEN vehicles[v].station ELSE NULL],
        open <- [v \in Vehicles |-> ActiveOn(v)],
        trip <- [r \in RentalIds |->
                  IF rentals[r].status = NULL THEN NULL
                  ELSE [vehicle |-> rentals[r].vehicle, from |-> rentals[r].start_station,
                        to |-> rentals[r].end_station]]

ImplementsDesk == Desk!Spec

-----------------------------------------------------------------------------
(* Properties the documentation states and overlapping requests break.      *)

(***************************************************************************)
(* No double booking: two ACTIVE rentals never hold the same vehicle       *)
(* (README.md, "to avoid double booking of one vehicle by several clients  *)
(* at the same time").                                                     *)
(***************************************************************************)
NoDoubleBooking ==
    \A v \in Vehicles : \A p, r \in ActiveOn(v) : p = r
=============================================================================
