------------------------------ MODULE Telemetry ------------------------------
(***************************************************************************)
(* The telemetry pipeline: trackers publish readings to a RabbitMQ queue,  *)
(* telemetry workers (telemetry/worker.py, telemetry/processor.py) consume *)
(* them, store each one in PostgreSQL and keep the newest one per vehicle  *)
(* in a Redis hash.                                                        *)
(*                                                                         *)
(* Each await of handle_message is one action, so workers interleave       *)
(* there; a worker handles one message at a time.  The queue is durable    *)
(* and delivers at least once: a message that was not acknowledged goes    *)
(* back to it.  Its order is left open, since requeueing and concurrent    *)
(* consumers reorder messages; a prefetched message counts as queued until *)
(* handle_message is called with it.                                       *)
(***************************************************************************)
EXTENDS Integers

CONSTANTS
    Vehicles,
    Workers,
    Messages,       \* messages that may be published, duplicates included
    Body,           \* the body of each message
    NONE,           \* no message; no cached state
    MaxFaults,      \* bound on errors and crashes
    MaxRestarts     \* bound on restarts of Redis

(***************************************************************************)
(* A body that fails TelemetryMessage's validation is "malformed"; one     *)
(* that passes but that the database rejects on every attempt, such as a   *)
(* vehicle id beyond the column's range, is "unstorable".                  *)
(***************************************************************************)
ASSUME BodyAssumption ==
    Body \in [Messages -> [vehicle: Vehicles, recorded_at: Int,
                           kind: {"ok", "malformed", "unstorable"}]]

ASSUME NoneAssumption == NONE \notin Messages

ASSUME BoundAssumption == MaxFaults \in Nat /\ MaxRestarts \in Nat

VARIABLES
    registered, \* vehicles with a row
    broker,     \* where each message is
    readings,   \* telemetry_readings rows, each named by the message it came from
    cache,      \* vehicle:<id>:state, named by the message last written to it
    wpc,        \* per worker: the await its handle_message stands at
    wmsg,       \* per worker: the message it handles
    faults, restarts

vars == <<registered, broker, readings, cache, wpc, wmsg, faults, restarts>>

WorkerSteps == {"idle", "validate", "save", "cache_read", "cache_write", "ack", "nack"}

Vehicle(m) == Body[m].vehicle
At(m)      == Body[m].recorded_at

\* The unique key of telemetry_readings.
SameKey(m, n) == Vehicle(m) = Vehicle(n) /\ At(m) = At(n)

Stored(m) == \E n \in readings : SameKey(m, n)

TypeOK ==
    /\ registered \subseteq Vehicles
    /\ broker \in [Messages -> {"unsent", "queued", "held", "acked", "dropped"}]
    /\ readings \subseteq Messages
    /\ cache \in [Vehicles -> Messages \cup {NONE}]
    /\ wpc \in [Workers -> WorkerSteps]
    /\ wmsg \in [Workers -> Messages \cup {NONE}]
    /\ faults \in 0..MaxFaults
    /\ restarts \in 0..MaxRestarts

Init ==
    /\ registered = {}
    /\ broker = [m \in Messages |-> "unsent"]
    /\ readings = {}
    /\ cache = [v \in Vehicles |-> NONE]
    /\ wpc = [w \in Workers |-> "idle"]
    /\ wmsg = [w \in Workers |-> NONE]
    /\ faults = 0
    /\ restarts = 0

-----------------------------------------------------------------------------
Register(v) ==
    /\ v \notin registered
    /\ registered' = registered \cup {v}
    /\ UNCHANGED <<broker, readings, cache, wpc, wmsg, faults, restarts>>

Publish(m) ==
    /\ broker[m] = "unsent"
    /\ broker' = [broker EXCEPT ![m] = "queued"]
    /\ UNCHANGED <<registered, readings, cache, wpc, wmsg, faults, restarts>>

-----------------------------------------------------------------------------
(* handle_message                                                          *)

Advance(w, step) == wpc' = [wpc EXCEPT ![w] = step]

\* The worker is done with its message, which the broker files as fate.
Settle(w, fate) ==
    /\ broker' = [broker EXCEPT ![wmsg[w]] = fate]
    /\ Advance(w, "idle")
    /\ wmsg' = [wmsg EXCEPT ![w] = NONE]

Deliver(w, m) ==
    /\ wpc[w] = "idle"
    /\ broker[m] = "queued"
    /\ broker' = [broker EXCEPT ![m] = "held"]
    /\ Advance(w, "validate")
    /\ wmsg' = [wmsg EXCEPT ![w] = m]
    /\ UNCHANGED <<registered, readings, cache, faults, restarts>>

\* Mutant of Validate: the cache is updated before the reading is saved.
ValidateCacheFirst(w) ==
    /\ wpc[w] = "validate"
    /\ \/ Body[wmsg[w]].kind = "malformed" /\ Settle(w, "dropped")
       \/ /\ Body[wmsg[w]].kind # "malformed"
          /\ Advance(w, "cache_read")
          /\ UNCHANGED <<broker, wmsg>>
    /\ UNCHANGED <<registered, readings, cache, faults, restarts>>

\* model_validate_json; an invalid message is rejected for good.
Validate(w) ==
    /\ wpc[w] = "validate"
    /\ \/ Body[wmsg[w]].kind = "malformed" /\ Settle(w, "dropped")
       \/ Body[wmsg[w]].kind # "malformed" /\ Advance(w, "save") /\ UNCHANGED <<broker, wmsg>>
    /\ UNCHANGED <<registered, readings, cache, faults, restarts>>

\* The rows after an INSERT ... ON CONFLICT DO NOTHING of m.
InsertOnce(m) == IF Stored(m) THEN readings ELSE readings \cup {m}

\* save_reading: the statement fails, the vehicle is unknown (rejected for
\* good), or the row is inserted unless its key is taken.
SaveReading(w) ==
    /\ wpc[w] = "save"
    /\ \/ /\ Body[wmsg[w]].kind = "unstorable"
          /\ Advance(w, "nack")
          /\ UNCHANGED <<broker, wmsg, readings>>
       \/ /\ Body[wmsg[w]].kind = "ok"
          /\ Vehicle(wmsg[w]) \notin registered
          /\ Settle(w, "dropped")
          /\ UNCHANGED readings
       \/ /\ Body[wmsg[w]].kind = "ok"
          /\ Vehicle(wmsg[w]) \in registered
          /\ readings' = InsertOnce(wmsg[w])
          /\ Advance(w, "cache_read")
          /\ UNCHANGED <<broker, wmsg>>
    /\ UNCHANGED <<registered, cache, faults, restarts>>

\* The cached state of the message's vehicle is at least as new.
CacheIsNewer(m) == cache[Vehicle(m)] # NONE /\ At(cache[Vehicle(m)]) >= At(m)

\* Mutant of ReadCache: the cached time is not compared.
ReadCacheUnconditional(w) ==
    /\ wpc[w] = "cache_read"
    /\ Advance(w, "cache_write")
    /\ UNCHANGED <<registered, broker, readings, cache, wmsg, faults, restarts>>

\* update_vehicle_state, up to the comparison with the time HGET returned.
ReadCache(w) ==
    /\ wpc[w] = "cache_read"
    /\ Advance(w, IF CacheIsNewer(wmsg[w]) THEN "ack" ELSE "cache_write")
    /\ UNCHANGED <<registered, broker, readings, cache, wmsg, faults, restarts>>

\* HSET, whatever the hash holds by now.
WriteCache(w) ==
    /\ wpc[w] = "cache_write"
    /\ cache' = [cache EXCEPT ![Vehicle(wmsg[w])] = wmsg[w]]
    /\ Advance(w, "ack")
    /\ UNCHANGED <<registered, broker, readings, wmsg, faults, restarts>>

Ack(w) ==
    /\ wpc[w] = "ack"
    /\ Settle(w, "acked")
    /\ UNCHANGED <<registered, readings, cache, faults, restarts>>

\* Mutant of Nack: the broker is never told.
NackForgotten(w) ==
    /\ wpc[w] = "nack"
    /\ Settle(w, "held")
    /\ UNCHANGED <<registered, readings, cache, faults, restarts>>

\* After NACK_DELAY_SECONDS the failed message is requeued.
Nack(w) ==
    /\ wpc[w] = "nack"
    /\ Settle(w, "queued")
    /\ UNCHANGED <<registered, readings, cache, faults, restarts>>

-----------------------------------------------------------------------------
(* Faults                                                                  *)

\* Mutant of Fail: the error is swallowed and the message acknowledged.
FailSwallowed(w) ==
    /\ faults < MaxFaults
    /\ wpc[w] \in {"save", "cache_read", "cache_write"}
    /\ Advance(w, "ack")
    /\ faults' = faults + 1
    /\ UNCHANGED <<registered, broker, readings, cache, wmsg, restarts>>

\* The database or Redis raises an error (except Exception).
Fail(w) ==
    /\ faults < MaxFaults
    /\ wpc[w] \in {"save", "cache_read", "cache_write"}
    /\ Advance(w, "nack")
    /\ faults' = faults + 1
    /\ UNCHANGED <<registered, broker, readings, cache, wmsg, restarts>>

\* The worker, or its connection, dies: the broker requeues what was not
\* acknowledged.
Crash(w) ==
    /\ faults < MaxFaults
    /\ wpc[w] # "idle"
    /\ Settle(w, "queued")
    /\ faults' = faults + 1
    /\ UNCHANGED <<registered, readings, cache, restarts>>

\* Redis keeps nothing across a restart.
RestartRedis ==
    /\ restarts < MaxRestarts
    /\ cache' = [v \in Vehicles |-> NONE]
    /\ restarts' = restarts + 1
    /\ UNCHANGED <<registered, broker, readings, wpc, wmsg, faults>>

-----------------------------------------------------------------------------
Handle(w) ==
    \/ Validate(w)
    \/ SaveReading(w)
    \/ ReadCache(w)
    \/ WriteCache(w)
    \/ Ack(w)
    \/ Nack(w)

Next ==
    \/ \E v \in Vehicles : Register(v)
    \/ \E m \in Messages : Publish(m)
    \/ \E w \in Workers :
        \/ \E m \in Messages : Deliver(w, m)
        \/ Handle(w)
        \/ Fail(w)
        \/ Crash(w)
    \/ RestartRedis

Spec == Init /\ [][Next]_vars

(***************************************************************************)
(* A worker's event loop goes on with the message it handles, and a queued *)
(* message is delivered again and again as long as it is queued: the       *)
(* broker serves the queue in order, and a requeued message cannot hold    *)
(* back the others while fewer than PREFETCH_COUNT messages fail for good. *)
(***************************************************************************)
Fairness ==
    /\ \A w \in Workers : WF_vars(Handle(w))
    /\ \A m \in Messages : SF_vars(\E w \in Workers : Deliver(w, m))

FairSpec == Spec /\ Fairness

-----------------------------------------------------------------------------
(* Properties                                                              *)

(***************************************************************************)
(* At-least-once delivery plus the unique key lose nothing: a reading that *)
(* was acknowledged is stored, and so is everything Redis shows, however   *)
(* many workers run and wherever they fail (handle_message: save, then     *)
(* cache, then ack).                                                       *)
(***************************************************************************)
AckedIsStored == \A m \in Messages : broker[m] = "acked" => Stored(m)

CachedIsStored == \A v \in Vehicles : cache[v] # NONE => Stored(cache[v]) /\ Vehicle(cache[v]) = v

\* A reading is stored once, however often its message is delivered or
\* published (save_reading: "return False if the same reading was already
\* stored").
StoredOnce == \A m, n \in readings : SameKey(m, n) => m = n

\* What the pipeline promises of the readings: rows and messages keep their
\* types, nothing acknowledged is lost or stored twice, and Redis shows only
\* what is stored (handle_message, save_reading, update_vehicle_state).
ReadingsAreSafe == TypeOK /\ AckedIsStored /\ CachedIsStored /\ StoredOnce

(***************************************************************************)
(* The cached state never moves back in time except by losing the hash     *)
(* (update_vehicle_state: "return False if the cache already has newer     *)
(* data").                                                                 *)
(***************************************************************************)
CacheNeverGoesBack ==
    [][\A v \in Vehicles :
        cache[v] # NONE /\ cache'[v] # NONE => At(cache'[v]) >= At(cache[v])]_vars

(***************************************************************************)
(* Every message the database can take is eventually acknowledged or       *)
(* rejected, although errors and crashes requeue it and a message that can *)
(* never be stored keeps coming back (handle_message).                     *)
(***************************************************************************)
EverySettled ==
    \A m \in Messages :
        broker[m] = "queued" /\ Body[m].kind # "unstorable" ~> broker[m] \in {"acked", "dropped"}
=============================================================================
