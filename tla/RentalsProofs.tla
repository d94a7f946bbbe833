--------------------------- MODULE RentalsProofs ---------------------------
(***************************************************************************)
(* Proofs about Rentals for any number of stations, vehicles, rentals and  *)
(* overlapping requests, and that without overlap its handlers implement   *)
(* RentalDesk.                                                             *)
(***************************************************************************)
EXTENDS Rentals, TLAPS

\* Types, and what each session remembers of the rows it checked: rows are
\* never deleted and a rental never changes its vehicle, so it stays true
\* however long the handler waits.  TypeOK alone is not inductive.
Sound == TypeOK /\ RowsOK /\ SessionsOK

\* The empty database is well typed (start of the rental component).
LEMMA SoundInit == Init => Sound
BY NullAssumption
   DEF Init, Sound, TypeOK, RowsOK, SessionsOK, NoVehicle, NoRental, NoArg, VehicleRow, RentalRow,
       Arg, Steps

\* A handler that raises, or whose request is cut off, leaves Sound alone:
\* its session is closed and nothing was written.
LEMMA RespondSound ==
    ASSUME Sound, NEW q \in Requests, Respond(q), UNCHANGED tables
    PROVE  Sound'
BY DEF Sound, TypeOK, RowsOK, SessionsOK, Respond, Advance, tables, NoArg, NoVehicle, Arg,
       VehicleRow, Steps

\* Every handler step of the rental component preserves Sound.
LEMMA SoundNext == Sound /\ [Next]_vars => Sound'
<1> SUFFICES ASSUME Sound, [Next]_vars PROVE Sound'
  OBVIOUS
<1> USE NullAssumption
    DEF Sound, TypeOK, RowsOK, SessionsOK, VehicleRow, RentalRow, Arg, Steps,
        VehicleStatus, RentalStatus, Advance, Respond, NoArg, NoVehicle, tables
<1>0. CASE UNCHANGED vars
  BY <1>0 DEF vars
<1>1. CASE Setup
  BY <1>1 DEF Setup, CreateStation, CreateRenter, CreateVehicle
<1>2. ASSUME NEW q \in Requests, NEW n \in Renters, NEW v \in Vehicles, ReceiveStart(q, n, v)
      PROVE  Sound'
  BY <1>2 DEF ReceiveStart
<1>3. ASSUME NEW q \in Requests, NEW r \in RentalIds, NEW s \in Stations, ReceiveEnd(q, r, s)
      PROVE  Sound'
  BY <1>3 DEF ReceiveEnd
<1>4. ASSUME NEW q \in Requests, StartReadVehicle(q) PROVE Sound'
  <2>1. CASE Respond(q)
    BY <1>4, <2>1, RespondSound DEF StartReadVehicle
  <2>2. ASSUME Advance(q, "start_commit"), UNCHANGED arg,
               seen' = [seen EXCEPT ![q] = vehicles[arg[q].vehicle]]
        PROVE  Sound'
    <3>1. arg[q].vehicle \in Vehicles
      BY <1>4 DEF StartReadVehicle
    <3>2. TypeOK'
      BY <1>4, <2>2, <3>1 DEF StartReadVehicle
    <3>3. SessionsOK'
      BY <1>4, <2>2, <3>1 DEF StartReadVehicle
    <3>4. QED
      BY <1>4, <3>2, <3>3 DEF StartReadVehicle
  <2>3. QED
    BY <1>4, <2>1, <2>2 DEF StartReadVehicle
<1>5. ASSUME NEW q \in Requests, NEW r \in RentalIds, StartCommit(q, r) PROVE Sound'
  <2>1. TypeOK'
    BY <1>5 DEF StartCommit
  <2>2. RowsOK'
    BY <1>5 DEF StartCommit
  <2>3. SessionsOK'
    BY <1>5 DEF StartCommit, UnusedRentalIds
  <2>4. QED
    BY <2>1, <2>2, <2>3
<1>6. ASSUME NEW q \in Requests, StartForeignKeyError(q) PROVE Sound'
  BY <1>6, RespondSound DEF StartForeignKeyError
<1>7. ASSUME NEW q \in Requests, EndReadRental(q) PROVE Sound'
  <2>1. CASE Respond(q)
    BY <1>7, <2>1, RespondSound DEF EndReadRental
  <2>2. ASSUME rentals[arg[q].rental].status = "active", Advance(q, "end_slot"), LoadRental(q),
               UNCHANGED seen
        PROVE  Sound'
    <3>1. arg[q].rental \in RentalIds /\ rentals[arg[q].rental].vehicle \in Vehicles
      BY <1>7, <2>2 DEF EndReadRental
    <3>2. TypeOK'
      BY <1>7, <2>2, <3>1 DEF EndReadRental, LoadRental
    <3>3. SessionsOK'
      BY <1>7, <2>2, <3>1 DEF EndReadRental, LoadRental
    <3>4. QED
      BY <1>7, <3>2, <3>3 DEF EndReadRental
  <2>3. QED
    BY <1>7, <2>1, <2>2 DEF EndReadRental
<1>8. ASSUME NEW q \in Requests, EndCheckSlot(q) PROVE Sound'
  <2>1. CASE Respond(q)
    BY <1>8, <2>1, RespondSound DEF EndCheckSlot
  <2>2. CASE Advance(q, "end_vehicle") /\ UNCHANGED <<arg, seen>>
    BY <1>8, <2>2 DEF EndCheckSlot
  <2>3. QED
    BY <1>8, <2>1, <2>2 DEF EndCheckSlot
<1>9. ASSUME NEW q \in Requests, EndLoadVehicle(q) PROVE Sound'
  BY <1>9 DEF EndLoadVehicle
<1>10. ASSUME NEW q \in Requests, EndCommit(q) PROVE Sound'
  <2>1. TypeOK'
    BY <1>10 DEF EndCommit, ReturnedVehicle, ReturnedRental
  <2>2. RowsOK'
    BY <1>10 DEF EndCommit, ReturnedRental
  <2>3. SessionsOK'
    BY <1>10 DEF EndCommit, ReturnedRental
  <2>4. QED
    BY <2>1, <2>2, <2>3
<1>11. ASSUME NEW q \in Requests, Abort(q) PROVE Sound'
  BY <1>11, RespondSound DEF Abort
<1>12. QED
  BY <1>0, <1>1, <1>2, <1>3, <1>4, <1>5, <1>6, <1>7, <1>8, <1>9, <1>10, <1>11
     DEF Next, Start, End

\* Every row and every session of the rental component has its type in
\* every reachable state.
THEOREM TypeCorrect == Spec => []TypeOK
<1>1. Spec => []Sound
  BY SoundInit, SoundNext, PTL DEF Spec
<1>2. Sound => TypeOK
  BY DEF Sound
<1>3. QED
  BY <1>1, <1>2, PTL

-----------------------------------------------------------------------------
(* No vehicle is lost.                                                      *)

\* No vehicle of the empty fleet is RENTED.
LEMMA BackedInit == Init => RentedIsBacked
BY NullAssumption DEF Init, RentedIsBacked, NoVehicle, VehicleStatus

\* A step that writes no row and starts no new commit of end_rental keeps
\* the rental behind every RENTED vehicle.
LEMMA BackedQuiet ==
    ASSUME RentedIsBacked, UNCHANGED <<vehicles, rentals>>,
           \A p \in Requests :
               pc'[p] = "end_commit" =>
                   pc[p] = "end_commit" /\ arg'[p] = arg[p] /\ seen'[p] = seen[p]
    PROVE  RentedIsBacked'
BY DEF RentedIsBacked, ActiveOn, FreesVehicle

\* Every step of the rental component keeps, for each RENTED vehicle, an
\* ACTIVE rental whose pending completions all free the vehicle.
LEMMA BackedNext == IInv /\ [Next]_vars => RentedIsBacked'
<1> SUFFICES ASSUME IInv, [Next]_vars PROVE RentedIsBacked'
  OBVIOUS
<1> USE DEF IInv
<1>0. CASE UNCHANGED vars
  BY <1>0, BackedQuiet DEF vars
<1>1. CASE Setup
  <2>1. ASSUME NEW v \in Vehicles, NEW s \in Stations, CreateVehicle(v, s)
        PROVE  RentedIsBacked'
    BY <2>1 DEF CreateVehicle, RentedIsBacked, ActiveOn, FreesVehicle, TypeOK
  <2>2. QED
    BY <1>1, <2>1, BackedQuiet DEF Setup, CreateStation, CreateRenter
<1>2. ASSUME NEW q \in Requests, NEW n \in Renters, NEW v \in Vehicles, ReceiveStart(q, n, v)
      PROVE  RentedIsBacked'
  BY <1>2, BackedQuiet DEF ReceiveStart, Advance, TypeOK
<1>3. ASSUME NEW q \in Requests, NEW r \in RentalIds, NEW s \in Stations, ReceiveEnd(q, r, s)
      PROVE  RentedIsBacked'
  BY <1>3, BackedQuiet DEF ReceiveEnd, Advance, TypeOK
<1>4. ASSUME NEW q \in Requests, StartReadVehicle(q) PROVE RentedIsBacked'
  BY <1>4, BackedQuiet DEF StartReadVehicle, Advance, Respond, tables, TypeOK
<1>5. ASSUME NEW q \in Requests, NEW r \in RentalIds, StartCommit(q, r) PROVE RentedIsBacked'
  <2>1. /\ arg[q].vehicle \in Vehicles
        /\ rentals[r].status = NULL
        /\ rentals' = [rentals EXCEPT ![r] =
               [status |-> "active", vehicle |-> arg[q].vehicle, renter |-> arg[q].renter,
                start_station |-> seen[q].station, end_station |-> NULL]]
        /\ vehicles' = [vehicles EXCEPT ![arg[q].vehicle] =
               [status |-> "rented", station |-> vehicles[arg[q].vehicle].station]]
        /\ \A p \in Requests :
               pc'[p] = "end_commit" =>
                   pc[p] = "end_commit" /\ arg'[p] = arg[p] /\ seen'[p] = seen[p]
    BY <1>5 DEF StartCommit, UnusedRentalIds, SessionsOK, Advance, Respond, TypeOK
  <2>2. \A p \in Requests : pc'[p] = "end_commit" => arg'[p].rental # r
    BY <2>1 DEF SessionsOK
  <2>3. ASSUME NEW v \in Vehicles, v # arg[q].vehicle, vehicles'[v].status = "rented"
        PROVE  \E p \in ActiveOn(v)' : FreesVehicle(p)'
    <3>1. PICK p \in ActiveOn(v) : FreesVehicle(p)
      BY <2>1, <2>3 DEF RentedIsBacked, TypeOK
    <3>2. p # r
      BY <2>1, <3>1, NullAssumption DEF ActiveOn, RentalStatus
    <3>3. QED
      BY <2>1, <3>1, <3>2 DEF ActiveOn, FreesVehicle, TypeOK
  <2>4. ASSUME NEW v \in Vehicles, v = arg[q].vehicle
        PROVE  r \in ActiveOn(v)' /\ FreesVehicle(r)'
    BY <2>1, <2>2, <2>4 DEF ActiveOn, FreesVehicle, TypeOK
  <2>5. ASSUME NEW v \in Vehicles, vehicles'[v].status = "rented"
        PROVE  \E p \in ActiveOn(v)' : FreesVehicle(p)'
    <3>1. CASE v = arg[q].vehicle
      BY <2>4, <3>1
    <3>2. QED
      BY <2>3, <2>5, <3>1
  <2>6. QED
    BY <2>5 DEF RentedIsBacked
<1>6. ASSUME NEW q \in Requests, StartForeignKeyError(q) PROVE RentedIsBacked'
  BY <1>6, BackedQuiet DEF StartForeignKeyError, Advance, Respond, tables, TypeOK
<1>7. ASSUME NEW q \in Requests, EndReadRental(q) PROVE RentedIsBacked'
  BY <1>7, BackedQuiet DEF EndReadRental, LoadRental, Advance, Respond, tables, TypeOK
<1>8. ASSUME NEW q \in Requests, EndCheckSlot(q) PROVE RentedIsBacked'
  BY <1>8, BackedQuiet DEF EndCheckSlot, Advance, Respond, tables, TypeOK
<1>9. ASSUME NEW q \in Requests, EndLoadVehicle(q) PROVE RentedIsBacked'
  \* The new candidate for a commit loaded the vehicle as it is now.
  <2>1. /\ UNCHANGED <<vehicles, rentals, arg>>
        /\ rentals[arg[q].rental].vehicle = arg[q].vehicle
        /\ seen'[q] = vehicles[arg[q].vehicle]
        /\ \A p \in Requests \ {q} : pc'[p] = pc[p] /\ seen'[p] = seen[p]
    BY <1>9 DEF EndLoadVehicle, Advance, SessionsOK, TypeOK
  <2>2. ASSUME NEW v \in Vehicles, vehicles'[v].status = "rented"
        PROVE  \E r \in ActiveOn(v)' : FreesVehicle(r)'
    <3>1. PICK r \in ActiveOn(v) : FreesVehicle(r)
      BY <2>1, <2>2 DEF RentedIsBacked
    <3>2. r \in ActiveOn(v)'
      BY <2>1, <3>1 DEF ActiveOn
    <3>3. FreesVehicle(r)'
      BY <2>1, <2>2, <3>1 DEF FreesVehicle, ActiveOn
    <3>4. QED
      BY <3>2, <3>3
  <2>3. QED
    BY <2>2 DEF RentedIsBacked
<1>10. ASSUME NEW q \in Requests, EndCommit(q) PROVE RentedIsBacked'
  <2> DEFINE e == arg[q].rental
  <2>1. /\ e \in RentalIds
        /\ arg[q].vehicle \in Vehicles
        /\ rentals[e].vehicle = arg[q].vehicle
        /\ vehicles' = [vehicles EXCEPT ![arg[q].vehicle] = ReturnedVehicle(q)]
        /\ \A r \in RentalIds : r # e => rentals'[r] = rentals[r]
        /\ \A p \in Requests :
               pc'[p] = "end_commit" =>
                   pc[p] = "end_commit" /\ arg'[p] = arg[p] /\ seen'[p] = seen[p]
    BY <1>10 DEF EndCommit, Advance, Respond, SessionsOK, RowsOK, TypeOK
  <2>2. ASSUME NEW v \in Vehicles, vehicles'[v].status = "rented"
        PROVE  \E r \in ActiveOn(v)' : FreesVehicle(r)'
    <3>1. /\ vehicles[v].status = "rented"
          /\ v = arg[q].vehicle => seen[q].status = "available"
      BY <2>1, <2>2 DEF ReturnedVehicle, TypeOK
    <3>2. PICK r \in ActiveOn(v) : FreesVehicle(r)
      BY <3>1 DEF RentedIsBacked
    <3>3. r # e
      BY <1>10, <2>1, <3>1, <3>2 DEF EndCommit, ActiveOn, FreesVehicle
    <3>4. r \in ActiveOn(v)'
      BY <2>1, <3>2, <3>3 DEF ActiveOn
    <3>5. FreesVehicle(r)'
      BY <2>1, <3>2 DEF FreesVehicle
    <3>6. QED
      BY <3>4, <3>5
  <2>3. QED
    BY <2>2 DEF RentedIsBacked
<1>11. ASSUME NEW q \in Requests, Abort(q) PROVE RentedIsBacked'
  BY <1>11, BackedQuiet DEF Abort, Advance, Respond, tables, TypeOK
<1>12. QED
  BY <1>0, <1>1, <1>2, <1>3, <1>4, <1>5, <1>6, <1>7, <1>8, <1>9, <1>10, <1>11
     DEF Next, Start, End

\* The inductive invariant of the rental component holds in every reachable
\* state.
THEOREM Inductive == Spec => []IInv
<1>1. Init => IInv
  BY SoundInit, BackedInit DEF Sound, IInv
<1>2. IInv /\ [Next]_vars => IInv'
  BY SoundNext, BackedNext DEF Sound, IInv
<1>3. QED
  BY <1>1, <1>2, PTL DEF Spec

\* No vehicle is lost: whatever calls of start_rental and end_rental
\* overlap, a RENTED vehicle has an ACTIVE rental to end.
THEOREM NoVehicleLost == Spec => []RentedHasActiveRental
<1>1. IInv => RentedHasActiveRental
  BY DEF IInv, RentedIsBacked, RentedHasActiveRental
<1>2. QED
  BY <1>1, Inductive, PTL

-----------------------------------------------------------------------------
(* Closed rentals.                                                          *)

\* Only end_rental's check lets a request past it, and it wants ACTIVE.
LEMMA ClosedStep ==
    ASSUME IInv, Next, NEW r \in RentalIds, Closed(r)
    PROVE  Closed(r)' /\ rentals'[r] = rentals[r]
<1> DEFINE Past == {"end_slot", "end_vehicle", "end_commit"}
<1>0. /\ TypeOK /\ SessionsOK /\ rentals[r].status = "completed" /\ rentals[r].status # NULL
      /\ \A q \in Requests : pc[q] \in Past => arg[q].rental # r
  BY NullAssumption DEF IInv, Closed, EndUnderWay, RentalStatus
<1> SUFFICES /\ rentals'[r] = rentals[r]
             /\ \A q \in Requests : pc'[q] \in Past => arg'[q].rental # r
  BY <1>0 DEF Closed, EndUnderWay
<1>1. CASE Setup
  BY <1>0, <1>1 DEF Setup, CreateStation, CreateRenter, CreateVehicle
<1>2. ASSUME NEW q \in Requests, NEW n \in Renters, NEW v \in Vehicles, ReceiveStart(q, n, v)
      PROVE  /\ rentals'[r] = rentals[r]
             /\ \A p \in Requests : pc'[p] \in Past => arg'[p].rental # r
  BY <1>0, <1>2 DEF ReceiveStart, Advance, TypeOK
<1>3. ASSUME NEW q \in Requests, NEW t \in RentalIds, NEW s \in Stations, ReceiveEnd(q, t, s)
      PROVE  /\ rentals'[r] = rentals[r]
             /\ \A p \in Requests : pc'[p] \in Past => arg'[p].rental # r
  BY <1>0, <1>3 DEF ReceiveEnd, Advance, TypeOK
<1>4. ASSUME NEW q \in Requests, Respond(q), UNCHANGED rentals
      PROVE  /\ rentals'[r] = rentals[r]
             /\ \A p \in Requests : pc'[p] \in Past => arg'[p].rental # r
  BY <1>0, <1>4 DEF Respond, Advance, TypeOK
<1>5. ASSUME NEW q \in Requests, StartReadVehicle(q)
      PROVE  /\ rentals'[r] = rentals[r]
             /\ \A p \in Requests : pc'[p] \in Past => arg'[p].rental # r
  <2>1. CASE Advance(q, "start_commit") /\ UNCHANGED <<arg, rentals>>
    BY <1>0, <2>1 DEF Advance, TypeOK
  <2> QED  BY <1>4, <1>5, <2>1 DEF StartReadVehicle, tables
<1>6. ASSUME NEW q \in Requests, NEW t \in RentalIds, StartCommit(q, t)
      PROVE  /\ rentals'[r] = rentals[r]
             /\ \A p \in Requests : pc'[p] \in Past => arg'[p].rental # r
  <2>1. rentals'[r] = rentals[r]  BY <1>0, <1>6 DEF StartCommit, UnusedRentalIds, TypeOK
  <2> QED  BY <1>0, <1>6, <2>1 DEF StartCommit, Respond, Advance, TypeOK
<1>7. ASSUME NEW q \in Requests, EndReadRental(q)
      PROVE  /\ rentals'[r] = rentals[r]
             /\ \A p \in Requests : pc'[p] \in Past => arg'[p].rental # r
  <2>1. CASE rentals[arg[q].rental].status = "active" /\ Advance(q, "end_slot") /\ LoadRental(q)
    <3>1. arg[q].rental # r  BY <1>0, <2>1
    <3>2. arg'[q].rental # r /\ \A p \in Requests \ {q} : arg'[p] = arg[p]
      BY <1>0, <2>1, <3>1 DEF LoadRental, TypeOK
    <3>3. rentals' = rentals /\ \A p \in Requests \ {q} : pc'[p] = pc[p]
      BY <1>0, <1>7, <2>1 DEF EndReadRental, Advance, tables, TypeOK
    <3> QED  BY <1>0, <3>2, <3>3
  <2> QED  BY <1>4, <1>7, <2>1 DEF EndReadRental, tables
<1>8. ASSUME NEW q \in Requests, EndCheckSlot(q)
      PROVE  /\ rentals'[r] = rentals[r]
             /\ \A p \in Requests : pc'[p] \in Past => arg'[p].rental # r
  <2>1. pc[q] = "end_slot" /\ rentals' = rentals  BY <1>8 DEF EndCheckSlot, tables
  <2>2. CASE Advance(q, "end_vehicle") /\ UNCHANGED arg
    BY <1>0, <2>1, <2>2 DEF Advance, TypeOK
  <2> QED  BY <1>4, <1>8, <2>1, <2>2 DEF EndCheckSlot
<1>9. ASSUME NEW q \in Requests, EndLoadVehicle(q)
      PROVE  /\ rentals'[r] = rentals[r]
             /\ \A p \in Requests : pc'[p] \in Past => arg'[p].rental # r
  BY <1>0, <1>9 DEF EndLoadVehicle, Advance, TypeOK
<1>10. ASSUME NEW q \in Requests, EndCommit(q)
       PROVE  /\ rentals'[r] = rentals[r]
              /\ \A p \in Requests : pc'[p] \in Past => arg'[p].rental # r
  <2>1. arg[q].rental # r  BY <1>0, <1>10 DEF EndCommit
  <2>2. rentals'[r] = rentals[r]  BY <1>0, <1>10, <2>1 DEF EndCommit, TypeOK
  <2> QED  BY <1>0, <1>10, <2>2 DEF EndCommit, Respond, Advance, TypeOK
<1>11. ASSUME NEW q \in Requests, StartForeignKeyError(q) \/ Abort(q)
       PROVE  /\ rentals'[r] = rentals[r]
              /\ \A p \in Requests : pc'[p] \in Past => arg'[p].rental # r
  BY <1>4, <1>11 DEF StartForeignKeyError, Abort, tables
<1> QED
  BY <1>1, <1>2, <1>3, <1>5, <1>6, <1>7, <1>8, <1>9, <1>10, <1>11 DEF Next, Start, End

\* What a step may do to a row that exists: write its end and complete it.
LEMMA EndOnly ==
    ASSUME IInv, Next, NEW r \in RentalIds, rentals[r].status # NULL
    PROVE  /\ rentals'[r].status \in {rentals[r].status, "completed"}
           /\ rentals'[r].vehicle = rentals[r].vehicle
           /\ rentals'[r].renter = rentals[r].renter
           /\ rentals'[r].start_station = rentals[r].start_station
<1>0. TypeOK  BY DEF IInv
<1>1. CASE UNCHANGED rentals  BY <1>1
<1>2. ASSUME NEW q \in Requests, NEW t \in RentalIds, StartCommit(q, t)
      PROVE  rentals'[r] = rentals[r]
  BY <1>0, <1>2 DEF StartCommit, UnusedRentalIds, TypeOK
<1>3. CASE \E q \in Requests : EndCommit(q)
  BY <1>0, <1>3 DEF EndCommit, ReturnedRental, TypeOK
<1>4. \/ UNCHANGED rentals
      \/ \E q \in Requests, t \in RentalIds : StartCommit(q, t)
      \/ \E q \in Requests : EndCommit(q)
  BY DEF Next, Start, End, Setup, CreateStation, CreateRenter, CreateVehicle, ReceiveStart,
         ReceiveEnd, StartReadVehicle, StartForeignKeyError, EndReadRental, EndCheckSlot,
         EndLoadVehicle, Abort, tables
<1> QED  BY <1>1, <1>2, <1>3, <1>4

\* A rental that is COMPLETED and that no request under way found ACTIVE keeps
\* its whole row, the end included; until then only the end is written
\* (end_rental).
THEOREM ClosedRentalsStay == Spec => ClosedRentalsAreFinal
<1>1. IInv /\ [Next]_vars =>
        [\A r \in RentalIds : rentals[r].status # NULL =>
            /\ Closed(r) => Closed(r)' /\ rentals'[r] = rentals[r]
            /\ rentals'[r].status \in {rentals[r].status, "completed"}
            /\ \A column \in {"vehicle", "renter", "start_station"} :
                  rentals'[r][column] = rentals[r][column]]_vars
  BY ClosedStep, EndOnly
<1>2. QED
  BY <1>1, Inductive, PTL DEF Spec, ClosedRentalsAreFinal

-----------------------------------------------------------------------------
(* Requests that do not overlap                                            *)

SerialNext == Next /\ NoOverlap

\* At most one request is being handled.
OneAtATime == \A p, q \in Requests : pc[p] # "idle" /\ pc[q] # "idle" => p = q

\* The rows agree: a vehicle is RENTED exactly while one ACTIVE rental holds
\* it, it has a station exactly when it exists, and only a COMPLETED rental has an
\* end station.
RowsAgree ==
    /\ \A v \in Vehicles :
          /\ vehicles[v].status = "rented" => \E r \in RentalIds : ActiveOn(v) = {r}
          /\ vehicles[v].status # "rented" => ActiveOn(v) = {}
          /\ vehicles[v].status # NULL => vehicles[v].station \in Stations
          /\ vehicles[v].status = NULL => vehicles[v].station = NULL
    /\ \A r \in RentalIds : rentals[r].status = "active" => rentals[r].end_station = NULL

\* What the request being handled checked is still true.
ChecksHold ==
    \A q \in Requests :
        /\ pc[q] = "start_commit" =>
              /\ vehicles[arg[q].vehicle].status = "available"
              /\ seen[q] = vehicles[arg[q].vehicle]
        /\ pc[q] \in {"end_slot", "end_vehicle", "end_commit"} =>
              rentals[arg[q].rental].status = "active"
        /\ pc[q] \in {"end_vehicle", "end_commit"} => HasFreeSlot(arg[q].station)
        /\ pc[q] = "end_commit" => seen[q] = vehicles[arg[q].vehicle]

SerialInv == Sound /\ OneAtATime /\ RowsAgree /\ ChecksHold

\* The empty database agrees with itself.
LEMMA SerialInit == Init => SerialInv
<1> SUFFICES ASSUME Init PROVE SerialInv
  OBVIOUS
<1>1. Sound
  BY SoundInit
<1>2. OneAtATime /\ ChecksHold
  BY DEF Init, OneAtATime, ChecksHold
<1>3. RowsAgree
  BY NullAssumption
     DEF Init, RowsAgree, ActiveOn, NoVehicle, NoRental, VehicleStatus, RentalStatus
<1>4. QED
  BY <1>1, <1>2, <1>3 DEF SerialInv

\* A step that writes no row keeps the rows in agreement.
LEMMA AgreeQuiet ==
    ASSUME RowsAgree, UNCHANGED <<vehicles, rentals>>
    PROVE  RowsAgree'
BY DEF RowsAgree, ActiveOn

\* A step after which no request is being handled keeps the checks.
LEMMA ChecksQuiet ==
    ASSUME \A q \in Requests : pc'[q] = "idle"
    PROVE  ChecksHold'
BY DEF ChecksHold

\* When a request has been answered, no request is being handled.
LEMMA AnsweredIdle ==
    ASSUME Sound, OneAtATime, NEW q \in Requests, pc[q] # "idle", Respond(q)
    PROVE  \A p \in Requests : pc'[p] = "idle"
BY DEF Sound, TypeOK, OneAtATime, Respond, Advance

\* A step of one request that writes no row and does not answer it: the
\* others are idle before and after.
LEMMA OthersIdle ==
    ASSUME Sound, OneAtATime, NEW q \in Requests, NEW s, Advance(q, s), s # "idle", NoOverlap
    PROVE  \A p \in Requests : p # q => pc'[p] = "idle"
BY DEF Sound, TypeOK, OneAtATime, Advance, NoOverlap

\* start_rental's transaction, when its checks hold, hands the vehicle to
\* the new rental and to no other.
LEMMA StartAgrees ==
    ASSUME SerialInv, NEW q \in Requests, NEW r \in RentalIds, StartCommit(q, r)
    PROVE  /\ arg[q].vehicle \in Vehicles
           /\ vehicles[arg[q].vehicle].status = "available"
           /\ vehicles' = [vehicles EXCEPT ![arg[q].vehicle] =
                 [status |-> "rented", station |-> vehicles[arg[q].vehicle].station]]
           /\ rentals[r].status = NULL
           /\ rentals' = [rentals EXCEPT ![r] =
                 [status |-> "active", vehicle |-> arg[q].vehicle, renter |-> arg[q].renter,
                  start_station |-> vehicles[arg[q].vehicle].station, end_station |-> NULL]]
           /\ \A v \in Vehicles :
                 ActiveOn(v)' = IF v = arg[q].vehicle THEN {r} ELSE ActiveOn(v)
<1>1. /\ arg[q].vehicle \in Vehicles
      /\ vehicles[arg[q].vehicle].status = "available"
      /\ vehicles' = [vehicles EXCEPT ![arg[q].vehicle] =
            [status |-> "rented", station |-> vehicles[arg[q].vehicle].station]]
      /\ rentals[r].status = NULL
      /\ rentals' = [rentals EXCEPT ![r] =
            [status |-> "active", vehicle |-> arg[q].vehicle, renter |-> arg[q].renter,
             start_station |-> vehicles[arg[q].vehicle].station, end_station |-> NULL]]
  BY DEF StartCommit, UnusedRentalIds, SerialInv, Sound, SessionsOK, ChecksHold
<1>2. ActiveOn(arg[q].vehicle) = {}
  BY <1>1 DEF SerialInv, RowsAgree
<1>3. ASSUME NEW v \in Vehicles
      PROVE  ActiveOn(v)' = IF v = arg[q].vehicle THEN {r} ELSE ActiveOn(v)
  <2>1. \A p \in RentalIds :
           (rentals'[p].status = "active" /\ rentals'[p].vehicle = v) <=>
               IF p = r THEN v = arg[q].vehicle
               ELSE rentals[p].status = "active" /\ rentals[p].vehicle = v
    BY <1>1 DEF SerialInv, Sound, TypeOK
  <2>2. r \notin ActiveOn(v)
    BY <1>1, NullAssumption DEF ActiveOn, RentalStatus
  <2>3. QED
    BY <2>1, <2>2, <1>2 DEF ActiveOn
<1>4. QED
  BY <1>1, <1>3

\* end_rental's transaction, when its checks hold, takes the vehicle back
\* from the only rental that has it.
LEMMA EndAgrees ==
    ASSUME SerialInv, NEW q \in Requests, EndCommit(q)
    PROVE  /\ arg[q].vehicle \in Vehicles
           /\ arg[q].rental \in RentalIds
           /\ arg[q].station \in Stations
           /\ vehicles[arg[q].vehicle].status = "rented"
           /\ ActiveOn(arg[q].vehicle) = {arg[q].rental}
           /\ vehicles' = [vehicles EXCEPT ![arg[q].vehicle] =
                 [status |-> "available", station |-> arg[q].station]]
           /\ rentals' = [rentals EXCEPT ![arg[q].rental] = ReturnedRental(q)]
           /\ \A v \in Vehicles :
                 ActiveOn(v)' = IF v = arg[q].vehicle THEN {} ELSE ActiveOn(v)
<1>1. /\ arg[q].vehicle \in Vehicles
      /\ arg[q].rental \in RentalIds
      /\ arg[q].station \in Stations
      /\ rentals[arg[q].rental].status = "active"
      /\ rentals[arg[q].rental].vehicle = arg[q].vehicle
      /\ seen[q] = vehicles[arg[q].vehicle]
      /\ rentals' = [rentals EXCEPT ![arg[q].rental] = ReturnedRental(q)]
  BY NullAssumption
     DEF EndCommit, SerialInv, Sound, SessionsOK, RowsOK, ChecksHold, TypeOK, RentalStatus
<1>2. arg[q].rental \in ActiveOn(arg[q].vehicle)
  BY <1>1 DEF ActiveOn
<1>3. /\ vehicles[arg[q].vehicle].status = "rented"
      /\ ActiveOn(arg[q].vehicle) = {arg[q].rental}
  BY <1>1, <1>2 DEF SerialInv, RowsAgree
<1>4. vehicles' = [vehicles EXCEPT ![arg[q].vehicle] =
                      [status |-> "available", station |-> arg[q].station]]
  BY <1>1, <1>3 DEF EndCommit, ReturnedVehicle
<1>5. ASSUME NEW v \in Vehicles
      PROVE  ActiveOn(v)' = IF v = arg[q].vehicle THEN {} ELSE ActiveOn(v)
  <2>1. \A p \in RentalIds :
           (rentals'[p].status = "active" /\ rentals'[p].vehicle = v) <=>
               p # arg[q].rental /\ rentals[p].status = "active" /\ rentals[p].vehicle = v
    BY <1>1 DEF ReturnedRental, SerialInv, Sound, TypeOK
  <2>2. v # arg[q].vehicle => arg[q].rental \notin ActiveOn(v)
    BY <1>1 DEF ActiveOn
  <2>3. QED
    BY <2>1, <2>2, <1>3 DEF ActiveOn
<1>6. QED
  BY <1>1, <1>3, <1>4, <1>5

\* Handling one request at a time keeps rows and checks in agreement.
LEMMA SerialStep == SerialInv /\ [SerialNext]_vars => SerialInv'
<1> SUFFICES ASSUME SerialInv, [SerialNext]_vars PROVE SerialInv'
  OBVIOUS
<1> USE DEF SerialInv
<1>0. CASE UNCHANGED vars
  BY <1>0, AgreeQuiet, SoundNext
     DEF vars, OneAtATime, ChecksHold, HasFreeSlot, Parked
<1> SUFFICES ASSUME Next, NoOverlap PROVE SerialInv'
  BY <1>0 DEF SerialNext
<1>1. Sound'
  BY SoundNext
<1>2. OneAtATime'
  BY DEF NoOverlap, OneAtATime
<1>3. RowsAgree' /\ ChecksHold'
  <2>1. CASE Setup
    <3>1. \A q \in Requests : pc'[q] = "idle"
      BY <2>1 DEF Setup, CreateStation, CreateRenter, CreateVehicle, NoOverlap, Sound, TypeOK
    <3>2. ASSUME NEW v \in Vehicles, NEW s \in Stations, CreateVehicle(v, s) PROVE RowsAgree'
      BY <3>2, NullAssumption DEF CreateVehicle, RowsAgree, ActiveOn, Sound, TypeOK, VehicleStatus
    <3>3. QED
      BY <2>1, <3>1, <3>2, ChecksQuiet, AgreeQuiet DEF Setup, CreateStation, CreateRenter
  <2>2. ASSUME NEW q \in Requests, pc[q] # "idle", Respond(q), UNCHANGED tables
        PROVE  RowsAgree' /\ ChecksHold'
    BY <2>2, AnsweredIdle, ChecksQuiet, AgreeQuiet DEF tables
  <2>3. ASSUME NEW q \in Requests, NEW s \in {"start", "end"}, Advance(q, s),
               UNCHANGED <<vehicles, rentals>>
        PROVE  RowsAgree' /\ ChecksHold'
    BY <2>3, OthersIdle, AgreeQuiet DEF ChecksHold, Advance, Sound, TypeOK
  <2>4. ASSUME NEW q \in Requests, StartReadVehicle(q) PROVE RowsAgree' /\ ChecksHold'
    <3>1. CASE Respond(q)
      BY <2>2, <2>4, <3>1 DEF StartReadVehicle
    <3>2. CASE /\ vehicles[arg[q].vehicle].status = "available"
               /\ Advance(q, "start_commit")
               /\ seen' = [seen EXCEPT ![q] = vehicles[arg[q].vehicle]]
               /\ UNCHANGED arg
      <4>1. \A p \in Requests : p # q => pc'[p] = "idle"
        BY <3>2, OthersIdle
      <4>2. UNCHANGED <<vehicles, rentals>> /\ pc'[q] = "start_commit"
        BY <2>4, <3>2 DEF StartReadVehicle, tables, Advance, Sound, TypeOK
      <4>3. ChecksHold'
        BY <3>2, <4>1, <4>2 DEF ChecksHold, Sound, TypeOK
      <4>4. QED
        BY <4>2, <4>3, AgreeQuiet
    <3>3. QED
      BY <2>4, <3>1, <3>2 DEF StartReadVehicle
  <2>5. ASSUME NEW q \in Requests, NEW r \in RentalIds, StartCommit(q, r)
        PROVE  RowsAgree' /\ ChecksHold'
    <3>1. ChecksHold'
      BY <2>5, AnsweredIdle, ChecksQuiet DEF StartCommit
    <3>2. ASSUME NEW v \in Vehicles
          PROVE  /\ vehicles'[v].status = "rented" => \E p \in RentalIds : ActiveOn(v)' = {p}
                 /\ vehicles'[v].status # "rented" => ActiveOn(v)' = {}
                 /\ vehicles'[v].status # NULL => vehicles'[v].station \in Stations
                 /\ vehicles'[v].status = NULL => vehicles'[v].station = NULL
      <4>1. CASE v = arg[q].vehicle
        <5>1. ActiveOn(v)' = {r}
          BY <2>5, <4>1, StartAgrees
        <5>2. vehicles'[v] = [status |-> "rented", station |-> vehicles[v].station]
          BY <2>5, <4>1, StartAgrees DEF Sound, TypeOK
        <5>3. vehicles[v].station \in Stations
          BY <2>5, <4>1, StartAgrees, NullAssumption DEF RowsAgree, VehicleStatus
        <5>4. QED
          BY <5>1, <5>2, <5>3, NullAssumption DEF VehicleStatus
      <4>2. CASE v # arg[q].vehicle
        <5>1. ActiveOn(v)' = ActiveOn(v)
          BY <2>5, <4>2, StartAgrees
        <5>2. vehicles'[v] = vehicles[v]
          BY <2>5, <4>2 DEF StartCommit, Sound, TypeOK
        <5>3. QED
          BY <5>1, <5>2 DEF RowsAgree
      <4>3. QED
        BY <4>1, <4>2
    <3>3. \A p \in RentalIds : rentals'[p].status = "active" => rentals'[p].end_station = NULL
      <4>1. \A p \in RentalIds : p # r => rentals'[p] = rentals[p]
        BY <2>5 DEF StartCommit, Sound, TypeOK
      <4>2. rentals'[r].end_station = NULL
        BY <2>5 DEF StartCommit, Sound, TypeOK
      <4>3. QED
        BY <4>1, <4>2 DEF RowsAgree
    <3>4. QED
      BY <3>1, <3>2, <3>3 DEF RowsAgree
  <2>6. ASSUME NEW q \in Requests, EndReadRental(q) PROVE RowsAgree' /\ ChecksHold'
    <3>1. CASE Respond(q)
      BY <2>2, <2>6, <3>1 DEF EndReadRental
    <3>2. CASE rentals[arg[q].rental].status = "active" /\ Advance(q, "end_slot") /\ LoadRental(q)
      <4>1. \A p \in Requests : p # q => pc'[p] = "idle"
        BY <3>2, OthersIdle
      <4>2. UNCHANGED <<vehicles, rentals>> /\ pc'[q] = "end_slot"
            /\ arg'[q].rental = arg[q].rental
        BY <2>6, <3>2 DEF EndReadRental, LoadRental, tables, Advance, Sound, TypeOK
      <4>3. ChecksHold'
        BY <3>2, <4>1, <4>2 DEF ChecksHold
      <4>4. QED
        BY <4>2, <4>3, AgreeQuiet
    <3>3. QED
      BY <2>6, <3>1, <3>2 DEF EndReadRental
  <2>7. ASSUME NEW q \in Requests, EndCheckSlot(q) PROVE RowsAgree' /\ ChecksHold'
    <3>1. CASE Respond(q)
      BY <2>2, <2>7, <3>1 DEF EndCheckSlot
    <3>2. CASE HasFreeSlot(arg[q].station) /\ Advance(q, "end_vehicle") /\ UNCHANGED <<arg, seen>>
      <4>1. \A p \in Requests : p # q => pc'[p] = "idle"
        BY <3>2, OthersIdle
      <4>2. UNCHANGED <<vehicles, rentals>> /\ pc[q] = "end_slot" /\ pc'[q] = "end_vehicle"
        BY <2>7, <3>2 DEF EndCheckSlot, tables, Advance, Sound, TypeOK
      <4>3. HasFreeSlot(arg[q].station)'
        BY <3>2, <4>2 DEF HasFreeSlot, Parked
      <4>5. rentals'[arg'[q].rental].status = "active"
        BY <3>2, <4>2 DEF ChecksHold
      <4>6. ChecksHold'
        BY <4>1, <4>2, <4>3, <4>5 DEF ChecksHold
      <4>7. QED
        BY <4>2, <4>6, AgreeQuiet
    <3>3. QED
      BY <2>7, <3>1, <3>2 DEF EndCheckSlot
  <2>8. ASSUME NEW q \in Requests, EndLoadVehicle(q) PROVE RowsAgree' /\ ChecksHold'
    <3>1. \A p \in Requests : p # q => pc'[p] = "idle"
      BY <2>8, OthersIdle DEF EndLoadVehicle
    <3>2. /\ UNCHANGED <<vehicles, rentals, arg>>
          /\ pc[q] = "end_vehicle" /\ pc'[q] = "end_commit"
          /\ seen'[q] = vehicles[arg[q].vehicle]
      BY <2>8 DEF EndLoadVehicle, Advance, Sound, TypeOK
    <3>3. ChecksHold'
      BY <3>1, <3>2 DEF ChecksHold, HasFreeSlot, Parked
    <3>4. QED
      BY <3>2, <3>3, AgreeQuiet
  <2>9. ASSUME NEW q \in Requests, EndCommit(q) PROVE RowsAgree' /\ ChecksHold'
    <3>1. ChecksHold'
      BY <2>9, AnsweredIdle, ChecksQuiet DEF EndCommit
    <3>2. ASSUME NEW v \in Vehicles
          PROVE  /\ vehicles'[v].status = "rented" => \E p \in RentalIds : ActiveOn(v)' = {p}
                 /\ vehicles'[v].status # "rented" => ActiveOn(v)' = {}
                 /\ vehicles'[v].status # NULL => vehicles'[v].station \in Stations
                 /\ vehicles'[v].status = NULL => vehicles'[v].station = NULL
      <4>1. CASE v = arg[q].vehicle
        <5>1. ActiveOn(v)' = {}
          BY <2>9, <4>1, EndAgrees
        <5>2. vehicles'[v] = [status |-> "available", station |-> arg[q].station]
          BY <2>9, <4>1, EndAgrees DEF Sound, TypeOK
        <5>3. arg[q].station \in Stations
          BY <2>9, EndAgrees
        <5>4. QED
          BY <5>1, <5>2, <5>3, NullAssumption DEF VehicleStatus
      <4>2. CASE v # arg[q].vehicle
        <5>1. ActiveOn(v)' = ActiveOn(v)
          BY <2>9, <4>2, EndAgrees
        <5>2. vehicles'[v] = vehicles[v]
          BY <2>9, <4>2 DEF EndCommit, Sound, TypeOK
        <5>3. QED
          BY <5>1, <5>2 DEF RowsAgree
      <4>3. QED
        BY <4>1, <4>2
    <3>3. \A p \in RentalIds : rentals'[p].status = "active" => rentals'[p].end_station = NULL
      <4>1. \A p \in RentalIds : p # arg[q].rental => rentals'[p] = rentals[p]
        BY <2>9 DEF EndCommit, Sound, TypeOK
      <4>2. arg[q].rental \in RentalIds => rentals'[arg[q].rental].status = "completed"
        BY <2>9 DEF EndCommit, ReturnedRental, Sound, TypeOK
      <4>3. QED
        BY <4>1, <4>2 DEF RowsAgree
    <3>4. QED
      BY <3>1, <3>2, <3>3 DEF RowsAgree
  <2>10. QED
    BY <2>1, <2>2, <2>3, <2>4, <2>5, <2>6, <2>7, <2>8, <2>9
       DEF Next, Start, End, ReceiveStart, ReceiveEnd, StartForeignKeyError, Abort
<1>4. QED
  BY <1>1, <1>2, <1>3

-----------------------------------------------------------------------------
(* The refinement.                                                          *)

\* An empty database is an empty desk.
LEMMA DeskInit == Init => Desk!Init
BY NullAssumption
   DEF Init, Desk!Init, ActiveOn, NoVehicle, NoRental, VehicleStatus, RentalStatus

\* Every step is a step of the desk or leaves the desk unchanged: only the
\* three transactions that write vehicles or rentals are visible.
LEMMA DeskStep == SerialInv /\ [SerialNext]_vars => [Desk!Next]_(Desk!vars)
<1> SUFFICES ASSUME SerialInv, [SerialNext]_vars PROVE [Desk!Next]_(Desk!vars)
  OBVIOUS
<1> DEFINE At == [v \in Vehicles |->
                     IF vehicles[v].status = "available" THEN vehicles[v].station ELSE NULL]
           Open == [v \in Vehicles |-> ActiveOn(v)]
           Trip == [r \in RentalIds |->
                       IF rentals[r].status = NULL THEN NULL
                       ELSE [vehicle |-> rentals[r].vehicle, from |-> rentals[r].start_station,
                             to |-> rentals[r].end_station]]
<1>1. ASSUME UNCHANGED <<vehicles, rentals>> PROVE UNCHANGED Desk!vars
  BY <1>1 DEF Desk!vars, ActiveOn
<1>2. ASSUME NEW v \in Vehicles, NEW s \in Stations, CreateVehicle(v, s)
      PROVE  Desk!Next
  <2>1. vehicles' = [vehicles EXCEPT ![v] = [status |-> "available", station |-> s]]
        /\ rentals' = rentals /\ vehicles[v].status = NULL
    BY <1>2 DEF CreateVehicle
  <2>2. At[v] = NULL /\ Open[v] = {}
    BY <2>1, NullAssumption DEF SerialInv, RowsAgree, VehicleStatus
  <2>3. At' = [At EXCEPT ![v] = s]
    BY <2>1 DEF SerialInv, Sound, TypeOK
  <2>4. Open' = Open /\ Trip' = Trip
    BY <2>1 DEF ActiveOn
  <2>5. Desk!Acquire(v, s)
    BY <2>2, <2>3, <2>4 DEF Desk!Acquire
  <2>6. QED
    BY <2>5 DEF Desk!Next
<1>3. ASSUME NEW q \in Requests, NEW r \in RentalIds, StartCommit(q, r)
      PROVE  Desk!Next
  <2> DEFINE v == arg[q].vehicle
  <2> HIDE DEF v
  <2>1. /\ v \in Vehicles
        /\ vehicles[v].status = "available"
        /\ vehicles' = [vehicles EXCEPT ![v] = [status |-> "rented", station |-> vehicles[v].station]]
        /\ rentals[r].status = NULL
        /\ rentals' = [rentals EXCEPT ![r] =
              [status |-> "active", vehicle |-> v, renter |-> arg[q].renter,
               start_station |-> vehicles[v].station, end_station |-> NULL]]
        /\ \A u \in Vehicles : ActiveOn(u)' = IF u = v THEN {r} ELSE ActiveOn(u)
    BY <1>3, StartAgrees DEF v
  <2>2. At[v] = vehicles[v].station /\ At[v] # NULL /\ Open[v] = {} /\ Trip[r] = NULL
    BY <2>1, NullAssumption DEF SerialInv, RowsAgree, VehicleStatus
  <2>3. At' = [At EXCEPT ![v] = NULL]
    BY <2>1 DEF SerialInv, Sound, TypeOK
  <2>4. Open' = [Open EXCEPT ![v] = {r}]
    BY <2>1
  <2>5. Trip' = [Trip EXCEPT ![r] = [vehicle |-> v, from |-> At[v], to |-> NULL]]
    BY <2>1, <2>2, NullAssumption DEF SerialInv, Sound, TypeOK, RentalStatus
  <2>6. Desk!Rent(v, r)
    BY <2>2, <2>3, <2>4, <2>5 DEF Desk!Rent
  <2>7. QED
    BY <2>1, <2>6 DEF Desk!Next
<1>4. ASSUME NEW q \in Requests, EndCommit(q)
      PROVE  Desk!Next
  <2> PICK v \in Vehicles, r \in RentalIds, s \in Stations :
            v = arg[q].vehicle /\ r = arg[q].rental /\ s = arg[q].station
    BY <1>4, EndAgrees
  <2>1. /\ v \in Vehicles /\ r \in RentalIds /\ s \in Stations
        /\ vehicles[v].status = "rented"
        /\ ActiveOn(v) = {r}
        /\ vehicles' = [vehicles EXCEPT ![v] = [status |-> "available", station |-> s]]
        /\ rentals' = [rentals EXCEPT ![r] =
              [status |-> "completed", vehicle |-> rentals[r].vehicle, renter |-> rentals[r].renter,
               start_station |-> rentals[r].start_station, end_station |-> s]]
        /\ \A u \in Vehicles : ActiveOn(u)' = IF u = v THEN {} ELSE ActiveOn(u)
    BY <1>4, EndAgrees DEF ReturnedRental
  <2>2. HasFreeSlot(s)
    BY <1>4 DEF EndCommit, SerialInv, ChecksHold
  <2>3. {u \in Vehicles : At[u] = s} = Parked(s)
    BY <2>1, NullAssumption DEF Parked, SerialInv, RowsAgree, Sound, TypeOK, VehicleRow, VehicleStatus
  <2>4. Open[v] = {r} /\ rentals[r].status = "active"
    BY <2>1 DEF ActiveOn
  <2>5. At' = [At EXCEPT ![v] = s]
    BY <2>1 DEF SerialInv, Sound, TypeOK
  <2>6. Open' = [Open EXCEPT ![v] = {}]
    BY <2>1
  <2>7. Trip' = [Trip EXCEPT ![r] = [vehicle |-> v, from |-> Trip[r].from, to |-> s]]
    <3>1. rentals[r].vehicle = v /\ Trip[r].from = rentals[r].start_station
      BY <2>1, <2>4, NullAssumption DEF ActiveOn, RentalStatus
    <3>2. QED
      BY <2>1, <2>4, <3>1, NullAssumption DEF SerialInv, Sound, TypeOK, RentalStatus
  <2>8. Desk!Return(v, r, s)
    <3>1. Desk!Standing(s) = Parked(s)
      BY <2>3 DEF Desk!Standing
    <3>2. Desk!Cardinality(Parked(s)) = Cardinality(Parked(s))
      BY DEF Desk!Cardinality, Cardinality, Desk!IsFiniteSet, IsFiniteSet
    <3>3. Desk!Cardinality(Desk!Standing(s)) < Capacity[s]
      BY <2>2, <3>1, <3>2 DEF HasFreeSlot
    <3>4. QED
      BY <2>4, <2>5, <2>6, <2>7, <3>3 DEF Desk!Return
  <2>9. QED
    BY <2>8 DEF Desk!Next
<1>5. QED
  BY <1>1, <1>2, <1>3, <1>4
     DEF SerialNext, Next, Start, End, Setup, CreateStation, CreateRenter, ReceiveStart,
         ReceiveEnd, StartReadVehicle, StartForeignKeyError, EndReadRental, EndCheckSlot,
         EndLoadVehicle, Abort, tables, vars

\* When requests do not overlap, start_rental and end_rental keep what the
\* rental desk promises: one rental per vehicle out, returns only to free
\* slots, and the same end station on the vehicle and on the rental.
THEOREM SerialImplementsDesk == SerialSpec => ImplementsDesk
<1>1. SerialSpec => []SerialInv
  BY SerialInit, SerialStep, PTL DEF SerialSpec, SerialNext
<1>2. QED
  BY <1>1, DeskInit, DeskStep, PTL DEF SerialSpec, SerialNext, ImplementsDesk, Desk!Spec

=============================================================================
