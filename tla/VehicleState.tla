----------------------------- MODULE VehicleState -----------------------------
(***************************************************************************)
(* Reading vehicle states while the telemetry pipeline runs: GET           *)
(* /vehicles/{id}/state and GET /vehicles/positions                        *)
(* (services/vehicle_state_service.py with resilience.call_with_retry).    *)
(* Redis is read first, with retries for a single vehicle; what it does    *)
(* not have, or all of it when Redis cannot be read, comes from PostgreSQL *)
(* in a later step, so workers may run in between.                         *)
(***************************************************************************)
EXTENDS Telemetry

CONSTANTS
    Clients,        \* concurrent read requests
    MaxAttempts     \* RetryPolicy.max_attempts

ASSUME AttemptsAssumption == MaxAttempts \in Nat \ {0}

VARIABLES
    cpc,        \* per client: where its handler stands
    wanted,     \* per client: the vehicles it asked for
    attempt,    \* per client: the attempt at Redis under way
    degraded,   \* per client: Redis could not be read
    found,      \* per client: the reading found for each vehicle
    acked,      \* history, per client: readings acknowledged when it asked
    had         \* history, per client: vehicles with a stored reading when it asked

clientVars == <<cpc, wanted, attempt, degraded, found, acked, had>>
allVars == <<vars, clientVars>>

Nothing == [v \in Vehicles |-> NONE]

ClientTypeOK ==
    /\ TypeOK
    /\ cpc \in [Clients -> {"idle", "state", "fleet", "lookup", "answered"}]
    /\ wanted \in [Clients -> SUBSET Vehicles]
    /\ attempt \in [Clients -> 1..MaxAttempts]
    /\ degraded \in [Clients -> BOOLEAN]
    /\ found \in [Clients -> [Vehicles -> Messages \cup {NONE}]]
    /\ acked \in [Clients -> SUBSET Messages]
    /\ had \in [Clients -> SUBSET Vehicles]

ClientInit ==
    /\ Init
    /\ cpc = [c \in Clients |-> "idle"]
    /\ wanted = [c \in Clients |-> {}]
    /\ attempt = [c \in Clients |-> 1]
    /\ degraded = [c \in Clients |-> FALSE]
    /\ found = [c \in Clients |-> Nothing]
    /\ acked = [c \in Clients |-> {}]
    /\ had = [c \in Clients |-> {}]

-----------------------------------------------------------------------------
ReadingsOf(v) == {m \in readings : Vehicle(m) = v}

\* The newest row of a vehicle (latest_reading, _latest_readings), and a
\* mutant of it: the sort order reversed.
EarliestReading(v) ==
    IF ReadingsOf(v) = {} THEN NONE
    ELSE CHOOSE m \in ReadingsOf(v) : \A n \in ReadingsOf(v) : At(m) <= At(n)

LatestReading(v) ==
    IF ReadingsOf(v) = {} THEN NONE
    ELSE CHOOSE m \in ReadingsOf(v) : \A n \in ReadingsOf(v) : At(m) >= At(n)

Step(c, step) == cpc' = [cpc EXCEPT ![c] = step]

Ask(c, vs, step) ==
    /\ cpc[c] \in {"idle", "answered"}
    /\ Step(c, step)
    /\ wanted' = [wanted EXCEPT ![c] = vs]
    /\ attempt' = [attempt EXCEPT ![c] = 1]
    /\ degraded' = [degraded EXCEPT ![c] = FALSE]
    /\ found' = [found EXCEPT ![c] = Nothing]
    /\ acked' = [acked EXCEPT ![c] = {m \in Messages : broker[m] = "acked"}]
    /\ had' = [had EXCEPT ![c] = {v \in vs : ReadingsOf(v) # {}}]

\* get_vehicle_state is asked for any id, registered or not.
AskState(c, v) == Ask(c, {v}, "state")

\* get_fleet_positions starts with the list of all vehicles.
AskFleet(c) == Ask(c, registered, "fleet")

\* Redis answers.  A vehicle it has no state of is looked up.  A fleet read
\* is one pipeline; vehicles are independent, so it is one step here.
ReadRedis(c) ==
    LET cached == [v \in Vehicles |-> IF v \in wanted[c] THEN cache[v] ELSE NONE]
    IN /\ cpc[c] \in {"state", "fleet"}
       /\ found' = [found EXCEPT ![c] = cached]
       /\ Step(c, IF \A v \in wanted[c] : cached[v] # NONE THEN "answered" ELSE "lookup")
       /\ UNCHANGED <<wanted, attempt, degraded, acked, had>>

\* Redis is asked at all: a fleet without vehicles is not.
AtRedis(c) == cpc[c] \in {"state", "fleet"} /\ wanted[c] # {}

\* Redis fails or times out: a state read is tried again up to max_attempts
\* times, a fleet read is not.
RedisFails(c) ==
    /\ AtRedis(c)
    /\ \/ /\ cpc[c] = "state" /\ attempt[c] < MaxAttempts
          /\ attempt' = [attempt EXCEPT ![c] = @ + 1]
          /\ UNCHANGED <<cpc, degraded>>
       \/ /\ cpc[c] = "fleet" \/ attempt[c] = MaxAttempts
          /\ degraded' = [degraded EXCEPT ![c] = TRUE]
          /\ Step(c, "lookup")
          /\ UNCHANGED attempt
    /\ UNCHANGED <<wanted, found, acked, had>>

\* An error that is not transient, or any error with resilience disabled,
\* is not caught: the request ends with a 500.
RedisErrorPropagates(c) ==
    /\ AtRedis(c)
    /\ Step(c, "idle")
    /\ UNCHANGED <<wanted, attempt, degraded, found, acked, had>>

\* Mutant of LookUp: only a degraded answer asks PostgreSQL.
LookUpWhenDegraded(c) ==
    /\ cpc[c] = "lookup"
    /\ found' = [found EXCEPT ![c] = [v \in Vehicles |->
           IF v \in wanted[c] /\ degraded[c] THEN LatestReading(v) ELSE @[v]]]
    /\ Step(c, "answered")
    /\ UNCHANGED <<wanted, attempt, degraded, acked, had>>

\* A vehicle without a row is reported as having no telemetry (404), or, if
\* Redis could not be read, as unavailable (503).
LookUp(c) ==
    /\ cpc[c] = "lookup"
    /\ found' = [found EXCEPT ![c] = [v \in Vehicles |->
           IF v \in wanted[c] /\ @[v] = NONE THEN LatestReading(v) ELSE @[v]]]
    /\ Step(c, "answered")
    /\ UNCHANGED <<wanted, attempt, degraded, acked, had>>

Client(c) ==
    \/ \E v \in Vehicles : AskState(c, v)
    \/ AskFleet(c)
    \/ ReadRedis(c)
    \/ RedisFails(c)
    \/ RedisErrorPropagates(c)
    \/ LookUp(c)

ClientNext ==
    \/ Next /\ UNCHANGED clientVars
    \/ (\E c \in Clients : Client(c)) /\ UNCHANGED vars

ClientSpec == ClientInit /\ [][ClientNext]_allVars

-----------------------------------------------------------------------------
(***************************************************************************)
(* Whatever an answer shows was stored in PostgreSQL, "the source of       *)
(* truth", for the vehicle asked about (get_vehicle_state).                *)
(***************************************************************************)
AnswerIsStored ==
    \A c \in Clients, v \in Vehicles :
        found[c][v] # NONE => v \in wanted[c] /\ Vehicle(found[c][v]) = v /\ Stored(found[c][v])

\* Readers and pipeline keep their types and no answer shows anything but
\* stored readings of the vehicles asked about (get_vehicle_state,
\* get_fleet_positions).
AnswerInv == ClientTypeOK /\ AnswerIsStored

(***************************************************************************)
(* No vehicle is reported without telemetry when a reading of it had been  *)
(* stored before the request came in: between the two reads a state can    *)
(* appear, never disappear (get_vehicle_state, get_fleet_positions).       *)
(***************************************************************************)
NoFalseAbsence ==
    \A c \in Clients : cpc[c] = "answered" => \A v \in had[c] : found[c][v] # NONE

(***************************************************************************)
(* While Redis keeps its data and one worker runs, an answer is at least   *)
(* as new as every reading acknowledged before the request came in,        *)
(* whether it comes from Redis, from PostgreSQL or is degraded             *)
(* (get_vehicle_state, get_fleet_positions).                               *)
(***************************************************************************)
AnswerIsCurrent ==
    \A c \in Clients :
        cpc[c] = "answered" /\ restarts = 0 =>
            \A m \in acked[c] :
                Vehicle(m) \in wanted[c] =>
                    found[c][Vehicle(m)] # NONE /\ At(found[c][Vehicle(m)]) >= At(m)
=============================================================================
