-------------------------- MODULE TelemetryProofs --------------------------
(***************************************************************************)
(* Proofs about Telemetry and VehicleState for any fleet, any messages and *)
(* any number of workers, clients and faults.                              *)
(***************************************************************************)
EXTENDS VehicleState, FiniteSetTheorems, TLAPS

\* A worker that is not idle holds a message; past the save, that message's
\* reading is stored.
WorkersOK ==
    \A w \in Workers :
        /\ wpc[w] # "idle" => wmsg[w] \in Messages
        /\ wpc[w] \in {"cache_read", "cache_write", "ack"} => Stored(wmsg[w])

Inv == TypeOK /\ WorkersOK /\ AckedIsStored /\ CachedIsStored /\ StoredOnce

\* The pipeline starts empty.
LEMMA InvInit == Init => Inv
BY BodyAssumption, NoneAssumption, BoundAssumption
   DEF Init, Inv, TypeOK, WorkersOK, AckedIsStored, CachedIsStored, StoredOnce, WorkerSteps

\* Rows are never deleted: what is stored stays stored.
LEMMA StoredStays ==
    ASSUME readings \subseteq readings'
    PROVE  \A m : Stored(m) => Stored(m)'
BY DEF Stored, SameKey, Vehicle, At

\* Giving a message back, or rejecting it, keeps the invariant.
LEMMA SettleKeeps ==
    ASSUME Inv, NEW w \in Workers, wpc[w] # "idle", NEW fate \in {"queued", "dropped"},
           Settle(w, fate), UNCHANGED <<registered, readings, cache, restarts>>,
           faults' \in 0..MaxFaults
    PROVE  Inv'
BY NoneAssumption
   DEF Inv, Settle, Advance, TypeOK, WorkersOK, AckedIsStored, CachedIsStored, StoredOnce, Stored,
       WorkerSteps

\* Every step of the pipeline preserves the invariant.
LEMMA InvNext == Inv /\ [Next]_vars => Inv'
<1> SUFFICES ASSUME Inv, [Next]_vars PROVE Inv'
  OBVIOUS
<1> USE BodyAssumption, NoneAssumption, BoundAssumption DEF Inv
<1>0. CASE UNCHANGED vars
  BY <1>0 DEF vars, TypeOK, WorkersOK, AckedIsStored, CachedIsStored, StoredOnce, Stored
<1>1. ASSUME NEW v \in Vehicles, Register(v) PROVE Inv'
  BY <1>1 DEF Register, TypeOK, WorkersOK, AckedIsStored, CachedIsStored, StoredOnce, Stored
<1>2. ASSUME NEW m \in Messages, Publish(m) PROVE Inv'
  BY <1>2 DEF Publish, TypeOK, WorkersOK, AckedIsStored, CachedIsStored, StoredOnce, Stored
<1>3. ASSUME NEW w \in Workers, NEW m \in Messages, Deliver(w, m) PROVE Inv'
  BY <1>3 DEF Deliver, Advance, TypeOK, WorkersOK, AckedIsStored, CachedIsStored, StoredOnce,
              Stored, WorkerSteps
<1>4. ASSUME NEW w \in Workers, Validate(w) PROVE Inv'
  <2>1. CASE Settle(w, "dropped")
    BY <1>4, <2>1, SettleKeeps DEF Validate, TypeOK
  <2>2. CASE Advance(w, "save") /\ UNCHANGED <<broker, wmsg>>
    BY <1>4, <2>2 DEF Validate, Advance, TypeOK, WorkersOK, AckedIsStored, CachedIsStored,
                      StoredOnce, Stored, WorkerSteps
  <2>3. QED
    BY <1>4, <2>1, <2>2 DEF Validate
<1>5. ASSUME NEW w \in Workers, SaveReading(w) PROVE Inv'
  <2>0. CASE Settle(w, "dropped") /\ UNCHANGED readings
    BY <1>5, <2>0, SettleKeeps DEF SaveReading, TypeOK
  <2>1. CASE Advance(w, "nack") /\ UNCHANGED <<broker, wmsg, readings>>
    BY <1>5, <2>1 DEF SaveReading, Advance, TypeOK, WorkersOK, AckedIsStored, CachedIsStored,
                      StoredOnce, Stored, WorkerSteps
  <2>2. ASSUME readings' = InsertOnce(wmsg[w]), Advance(w, "cache_read"), UNCHANGED <<broker, wmsg>>
        PROVE  Inv'
    <3>1. wmsg[w] \in Messages /\ UNCHANGED <<registered, cache, faults, restarts>>
      BY <1>5 DEF SaveReading, WorkersOK
    <3>2. readings \subseteq readings' /\ readings' \subseteq readings \cup {wmsg[w]}
      BY <2>2 DEF InsertOnce
    <3>3. Stored(wmsg[w])'
      BY <2>2, <3>1, StoredStays DEF InsertOnce, Stored, SameKey, Vehicle, At
    <3>4. TypeOK'
      BY <2>2, <3>1, <3>2 DEF TypeOK, Advance, WorkerSteps
    <3>5. WorkersOK'
      BY <2>2, <3>1, <3>2, <3>3, StoredStays DEF WorkersOK, Advance, TypeOK, Stored
    <3>6. AckedIsStored' /\ CachedIsStored'
      BY <2>2, <3>1, <3>2, StoredStays DEF AckedIsStored, CachedIsStored, Stored
    <3>7. StoredOnce'
      BY <2>2, <3>1 DEF StoredOnce, InsertOnce, Stored, SameKey
    <3>8. QED
      BY <3>4, <3>5, <3>6, <3>7
  <2>3. QED
    BY <1>5, <2>0, <2>1, <2>2 DEF SaveReading
<1>6. ASSUME NEW w \in Workers, ReadCache(w) PROVE Inv'
  BY <1>6 DEF ReadCache, Advance, TypeOK, WorkersOK, AckedIsStored, CachedIsStored, StoredOnce,
              Stored, WorkerSteps
<1>7. ASSUME NEW w \in Workers, WriteCache(w) PROVE Inv'
  BY <1>7 DEF WriteCache, Advance, TypeOK, WorkersOK, AckedIsStored, CachedIsStored, StoredOnce,
              Stored, WorkerSteps, Vehicle
<1>8. ASSUME NEW w \in Workers, Ack(w) PROVE Inv'
  BY <1>8 DEF Ack, Advance, Settle, TypeOK, WorkersOK, AckedIsStored, CachedIsStored, StoredOnce,
              Stored, WorkerSteps
<1>9. ASSUME NEW w \in Workers, Nack(w) PROVE Inv'
  BY <1>9, SettleKeeps DEF Nack, TypeOK
<1>10. ASSUME NEW w \in Workers, Fail(w) PROVE Inv'
  BY <1>10 DEF Fail, Advance, TypeOK, WorkersOK, AckedIsStored, CachedIsStored, StoredOnce,
               Stored, WorkerSteps
<1>11. ASSUME NEW w \in Workers, Crash(w) PROVE Inv'
  BY <1>11, SettleKeeps DEF Crash, TypeOK
<1>12. CASE RestartRedis
  BY <1>12 DEF RestartRedis, TypeOK, WorkersOK, AckedIsStored, CachedIsStored, StoredOnce, Stored
<1>13. QED
  BY <1>0, <1>1, <1>2, <1>3, <1>4, <1>5, <1>6, <1>7, <1>8, <1>9, <1>10, <1>11, <1>12
     DEF Next, Handle

\* The pipeline loses and duplicates nothing: an acknowledged reading is
\* stored, Redis shows only stored readings, and no reading is stored twice,
\* whatever workers overlap, fail or crash in handle_message.
THEOREM NothingLost == Spec => []ReadingsAreSafe
<1>1. Inv => ReadingsAreSafe
  BY DEF Inv, ReadingsAreSafe
<1>2. QED
  BY <1>1, InvInit, InvNext, PTL DEF Spec

-----------------------------------------------------------------------------
(* One worker.                                                              *)

\* The worker about to write found no newer state, and nobody else writes.
ComparisonHolds ==
    \A w \in Workers : wpc[w] = "cache_write" => ~ CacheIsNewer(wmsg[w])

\* With one worker, what its comparison in update_vehicle_state found stays
\* true until its HSET.
LEMMA ComparisonNext ==
    ASSUME \A w, x \in Workers : w = x, Inv, ComparisonHolds, [Next]_vars
    PROVE  ComparisonHolds'
<1> USE DEF Inv, ComparisonHolds
<1>1. ASSUME NEW w \in Workers, ReadCache(w) PROVE ComparisonHolds'
  BY <1>1 DEF ReadCache, Advance, CacheIsNewer, TypeOK
<1>2. CASE RestartRedis
  BY <1>2, BodyAssumption DEF RestartRedis, CacheIsNewer, TypeOK, WorkersOK, Vehicle
<1>3. ASSUME NEW w \in Workers, \/ Validate(w) \/ SaveReading(w) \/ WriteCache(w) \/ Ack(w)
                              \/ Nack(w) \/ Fail(w) \/ Crash(w)
                              \/ \E m \in Messages : Deliver(w, m)
      PROVE  ComparisonHolds'
  <2>1. wpc'[w] # "cache_write"
    BY <1>3 DEF Validate, SaveReading, WriteCache, Ack, Nack, Fail, Crash, Deliver, Advance,
                Settle, TypeOK
  <2>2. QED
    BY <2>1
<1>4. CASE \/ UNCHANGED vars \/ (\E v \in Vehicles : Register(v))
           \/ (\E m \in Messages : Publish(m))
  BY <1>4 DEF vars, Register, Publish, CacheIsNewer
<1>5. QED
  BY <1>1, <1>2, <1>3, <1>4 DEF Next, Handle

\* With one worker the cached state of a vehicle never moves back in time,
\* although messages are redelivered and reordered (update_vehicle_state).
THEOREM OneWorkerKeepsNewest ==
    ASSUME \A w, x \in Workers : w = x
    PROVE  Spec => CacheNeverGoesBack
<1> DEFINE Forward ==
        \A v \in Vehicles : cache[v] # NONE /\ cache'[v] # NONE => At(cache'[v]) >= At(cache[v])
<1>1. Init => ComparisonHolds
  BY DEF Init, ComparisonHolds
<1>2. Inv /\ ComparisonHolds /\ [Next]_vars => ComparisonHolds'
  BY ComparisonNext
<1>3. ASSUME Inv, ComparisonHolds, [Next]_vars PROVE [Forward]_vars
  <2> USE BodyAssumption, NoneAssumption
  <2>1. ASSUME NEW w \in Workers, WriteCache(w) PROVE Forward
    BY <1>3, <2>1 DEF WriteCache, ComparisonHolds, CacheIsNewer, Inv, TypeOK, WorkersOK, Vehicle, At
  <2>2. CASE RestartRedis
    BY <2>2 DEF RestartRedis
  <2>3. CASE UNCHANGED cache
    BY <1>3, <2>3 DEF Inv, TypeOK, At
  <2>4. QED
    BY <1>3, <2>1, <2>2, <2>3
       DEF Next, Handle, Register, Publish, Deliver, Validate, SaveReading, ReadCache, Ack, Nack,
           Fail, Crash, vars
<1>4. QED
  BY <1>1, <1>2, <1>3, InvInit, InvNext, PTL DEF Spec, CacheNeverGoesBack

-----------------------------------------------------------------------------
(* Reading vehicle states.                                                  *)

\* Every non-empty set of naturals has a least element.
LEMMA LeastNatural ==
    ASSUME NEW T \in SUBSET Nat, T # {}
    PROVE  \E x \in T : \A y \in T : x <= y
<1>1. PICK x \in T : \A y \in T : ~(<<y, x>> \in OpToRel(<, Nat))
  BY NatLessThanWellFounded, WFMin
<1>2. \A y \in T : ~(y < x)
  BY <1>1 DEF OpToRel
<1>3. QED
  BY <1>2

\* ORDER BY recorded_at DESC LIMIT 1 finds a newest row whenever there is a
\* row: of finitely many readings one has no newer one (latest_reading).
LEMMA NewestExists ==
    ASSUME NEW S \in SUBSET Messages, IsFiniteSet(S), S # {}
    PROVE  \E m \in S : \A n \in S : At(m) >= At(n)
<1> DEFINE Newer(m) == {n \in S : At(n) > At(m)}
           T == {Cardinality(Newer(m)) : m \in S}
<1>1. \A m \in S : At(m) \in Int
  BY BodyAssumption DEF At
<1>2. ASSUME NEW m \in S PROVE IsFiniteSet(Newer(m)) /\ Cardinality(Newer(m)) \in Nat
  <2>1. Newer(m) \in SUBSET S
    OBVIOUS
  <2>2. QED
    BY <2>1, FS_Subset, FS_CardinalityType
<1>3. T \in SUBSET Nat /\ T # {}
  BY <1>2
<1>4. PICK m \in S : \A n \in S : Cardinality(Newer(m)) <= Cardinality(Newer(n))
  <2>1. PICK x \in T : \A y \in T : x <= y
    BY <1>3, LeastNatural
  <2>2. QED
    BY <2>1
<1>5. ASSUME NEW n \in S, At(n) > At(m) PROVE FALSE
  <2>1. Newer(n) \in SUBSET Newer(m) /\ n \in Newer(m) /\ n \notin Newer(n)
    BY <1>1, <1>5
  <2>2. Cardinality(Newer(n)) <= Cardinality(Newer(m))
        /\ (Cardinality(Newer(m)) = Cardinality(Newer(n)) => Newer(m) = Newer(n))
    BY <1>2, <2>1, FS_Subset
  <2>3. Cardinality(Newer(m)) = Cardinality(Newer(n))
    <3>1. /\ Cardinality(Newer(m)) \in Nat /\ Cardinality(Newer(n)) \in Nat
          /\ Cardinality(Newer(m)) <= Cardinality(Newer(n))
      BY <1>2, <1>4
    <3>2. QED
      BY <2>2, <3>1
  <2>4. QED
    BY <2>1, <2>2, <2>3
<1>6. QED
  BY <1>1, <1>5

\* What latest_reading returns: none for a vehicle without rows, else a row
\* of the vehicle as new as any.
LEMMA LatestReadingFacts ==
    ASSUME TypeOK, IsFiniteSet(readings), NEW v \in Vehicles
    PROVE  /\ ReadingsOf(v) = {} => LatestReading(v) = NONE
           /\ ReadingsOf(v) # {} =>
                 /\ LatestReading(v) \in ReadingsOf(v)
                 /\ \A n \in ReadingsOf(v) : At(LatestReading(v)) >= At(n)
<1>1. ReadingsOf(v) \in SUBSET readings /\ ReadingsOf(v) \in SUBSET Messages
  BY DEF ReadingsOf, TypeOK
<1>2. IsFiniteSet(ReadingsOf(v))
  BY <1>1, FS_Subset
<1>3. ReadingsOf(v) # {} => \E m \in ReadingsOf(v) : \A n \in ReadingsOf(v) : At(m) >= At(n)
  BY <1>1, <1>2, NewestExists
<1>4. QED
  BY <1>3 DEF LatestReading

\* Only finitely many readings are ever stored, answers show stored readings
\* of what was asked about, and what had a reading keeps one.
ReadersOK ==
    /\ ClientTypeOK
    /\ AnswerIsStored
    /\ IsFiniteSet(readings)
    /\ \A c \in Clients : \A v \in had[c] : v \in wanted[c] /\ ReadingsOf(v) # {}
    /\ \A c \in Clients : \A m \in acked[c] : Stored(m)

CInv == Inv /\ ReadersOK /\ NoFalseAbsence

\* The pipeline's steps are the same whether anyone reads or not.
THEOREM ReadersOnlyRead == ClientSpec => Spec
<1>1. [ClientNext]_allVars => [Next]_vars
  BY DEF ClientNext, allVars
<1>2. QED
  BY <1>1, PTL DEF ClientSpec, ClientInit, Spec

\* Rows are only ever added, one at a time (save_reading).
LEMMA ReadingsGrow ==
    ASSUME Inv, [Next]_vars
    PROVE  /\ readings \subseteq readings'
           /\ IsFiniteSet(readings) => IsFiniteSet(readings')
           /\ \A v \in Vehicles : ReadingsOf(v) # {} => ReadingsOf(v)' # {}
<1>1. readings' = readings \/ \E m \in Messages : readings' = readings \cup {m}
  BY DEF Next, Handle, Register, Publish, Deliver, Validate, SaveReading, ReadCache, WriteCache,
         Ack, Nack, Fail, Crash, RestartRedis, vars, InsertOnce, Inv, WorkersOK
<1>2. QED
  BY <1>1, FS_AddElement DEF ReadingsOf

\* The readers start with nothing.
LEMMA CInvInit == ClientInit => CInv
<1> SUFFICES ASSUME ClientInit PROVE CInv
  OBVIOUS
<1>1. Inv
  BY InvInit DEF ClientInit
<1>2. ReadersOK
  BY <1>1, FS_EmptySet, AttemptsAssumption
     DEF ClientInit, Init, Inv, ReadersOK, ClientTypeOK, AnswerIsStored, Nothing
<1>3. NoFalseAbsence
  BY DEF ClientInit, NoFalseAbsence
<1>4. QED
  BY <1>1, <1>2, <1>3 DEF CInv

\* The pipeline's steps disturb no reader: rows stay.
LEMMA PipelineKeepsReaders ==
    ASSUME CInv, [Next]_vars, UNCHANGED clientVars
    PROVE  CInv'
<1>1. Inv'
  BY InvNext DEF CInv
<1>2. readings \subseteq readings' /\ IsFiniteSet(readings')
      /\ \A v \in Vehicles : ReadingsOf(v) # {} => ReadingsOf(v)' # {}
  BY ReadingsGrow DEF CInv, ReadersOK
<1>3. ClientTypeOK'
  BY <1>1 DEF Inv, CInv, ReadersOK, ClientTypeOK, clientVars
<1>4. AnswerIsStored' /\ \A c \in Clients : \A m \in acked'[c] : Stored(m)'
  BY <1>2, StoredStays DEF CInv, ReadersOK, AnswerIsStored, clientVars
<1>5. \A c \in Clients : \A v \in had'[c] : v \in wanted'[c] /\ ReadingsOf(v)' # {}
  BY <1>2 DEF CInv, ReadersOK, ClientTypeOK, clientVars
<1>6. NoFalseAbsence'
  BY DEF CInv, NoFalseAbsence, clientVars
<1>7. QED
  BY <1>1, <1>2, <1>3, <1>4, <1>5, <1>6 DEF CInv, ReadersOK

\* A reader's step keeps the readers' invariant, wherever the workers stand.
LEMMA ClientKeeps ==
    ASSUME CInv, NEW c \in Clients, Client(c), UNCHANGED vars
    PROVE  CInv'
<1>0. /\ UNCHANGED <<registered, broker, readings, cache, wpc, wmsg, faults, restarts>>
      /\ TypeOK /\ TypeOK' /\ Inv' /\ IsFiniteSet(readings')
      /\ \A v : ReadingsOf(v)' = ReadingsOf(v)
      /\ \A m : Stored(m)' <=> Stored(m)
  BY InvNext DEF vars, CInv, Inv, ReadersOK, ReadingsOf, Stored
<1>1. ASSUME NEW vs \in SUBSET Vehicles, NEW step \in {"state", "fleet"}, Ask(c, vs, step)
      PROVE  CInv'
  <2>1. ClientTypeOK'
    BY <1>0, <1>1, AttemptsAssumption DEF Ask, Step, Nothing, CInv, ReadersOK, ClientTypeOK
  <2>2. AnswerIsStored'
    BY <1>0, <1>1 DEF Ask, Nothing, CInv, ReadersOK, ClientTypeOK, AnswerIsStored
  <2>3. \A d \in Clients : \A v \in had'[d] : v \in wanted'[d] /\ ReadingsOf(v)' # {}
    BY <1>0, <1>1 DEF Ask, CInv, ReadersOK, ClientTypeOK
  <2>4. \A d \in Clients : \A m \in acked'[d] : Stored(m)'
    BY <1>0, <1>1 DEF Ask, CInv, Inv, AckedIsStored, ReadersOK, ClientTypeOK
  <2>5. NoFalseAbsence'
    BY <1>1 DEF Ask, Step, CInv, ReadersOK, ClientTypeOK, NoFalseAbsence
  <2>6. QED
    BY <1>0, <2>1, <2>2, <2>3, <2>4, <2>5 DEF CInv, ReadersOK
<1>2. ASSUME NEW g \in [Vehicles -> Messages \cup {NONE}],
             NEW step \in {"idle", "state", "fleet", "lookup", "answered"},
             found' = [found EXCEPT ![c] = g], Step(c, step), UNCHANGED <<wanted, acked, had>>,
             attempt' \in [Clients -> 1..MaxAttempts], degraded' \in [Clients -> BOOLEAN],
             \A v \in Vehicles : g[v] # NONE => v \in wanted[c] /\ Vehicle(g[v]) = v /\ Stored(g[v]),
             step = "answered" => \A v \in had[c] : g[v] # NONE
      PROVE  CInv'
  <2>1. ClientTypeOK'
    BY <1>0, <1>2 DEF Step, CInv, ReadersOK, ClientTypeOK
  <2>2. AnswerIsStored'
    BY <1>0, <1>2 DEF CInv, ReadersOK, ClientTypeOK, AnswerIsStored
  <2>3. \A d \in Clients : \A v \in had'[d] : v \in wanted'[d] /\ ReadingsOf(v)' # {}
    BY <1>0, <1>2 DEF CInv, ReadersOK
  <2>4. \A d \in Clients : \A m \in acked'[d] : Stored(m)'
    BY <1>0, <1>2 DEF CInv, ReadersOK
  <2>5. NoFalseAbsence'
    BY <1>2 DEF Step, CInv, ReadersOK, ClientTypeOK, NoFalseAbsence
  <2>6. QED
    BY <1>0, <2>1, <2>2, <2>3, <2>4, <2>5 DEF CInv, ReadersOK
<1>3. ASSUME NEW v \in Vehicles, AskState(c, v) PROVE CInv'
  BY <1>1, <1>3 DEF AskState
<1>4. CASE AskFleet(c)
  BY <1>0, <1>1, <1>4 DEF AskFleet, TypeOK
<1>5. CASE ReadRedis(c)
  <2> DEFINE g == [v \in Vehicles |-> IF v \in wanted[c] THEN cache[v] ELSE NONE]
             step == IF \A v \in wanted[c] : g[v] # NONE THEN "answered" ELSE "lookup"
  <2>1. g \in [Vehicles -> Messages \cup {NONE}]
    BY <1>0 DEF TypeOK
  <2>2. \A v \in Vehicles : g[v] # NONE => v \in wanted[c] /\ Vehicle(g[v]) = v /\ Stored(g[v])
    BY DEF CInv, Inv, CachedIsStored
  <2>3. step = "answered" => \A v \in had[c] : g[v] # NONE
    BY DEF CInv, ReadersOK
  <2>4. /\ found' = [found EXCEPT ![c] = g] /\ Step(c, step)
        /\ UNCHANGED <<wanted, acked, had, attempt, degraded>>
    BY <1>5 DEF ReadRedis
  <2>5. attempt' \in [Clients -> 1..MaxAttempts] /\ degraded' \in [Clients -> BOOLEAN]
    BY <2>4 DEF CInv, ReadersOK, ClientTypeOK
  <2>6. step \in {"idle", "state", "fleet", "lookup", "answered"}
    OBVIOUS
  <2> HIDE DEF g, step
  <2>7. QED
    BY <1>2, <2>1, <2>2, <2>3, <2>4, <2>5, <2>6
<1>6. ASSUME NEW step \in {"idle", "state", "fleet", "lookup"}, Step(c, step),
             UNCHANGED <<wanted, found, acked, had>>,
             attempt' \in [Clients -> 1..MaxAttempts], degraded' \in [Clients -> BOOLEAN]
      PROVE  CInv'
  <2>1. found[c] \in [Vehicles -> Messages \cup {NONE}] /\ found' = [found EXCEPT ![c] = found[c]]
    BY <1>6 DEF CInv, ReadersOK, ClientTypeOK
  <2>2. \A v \in Vehicles :
           found[c][v] # NONE => v \in wanted[c] /\ Vehicle(found[c][v]) = v /\ Stored(found[c][v])
    BY DEF CInv, ReadersOK, AnswerIsStored
  <2>3. QED
    BY <1>2, <1>6, <2>1, <2>2
<1>7. CASE RedisFails(c)
  <2>1. CASE attempt[c] < MaxAttempts /\ attempt' = [attempt EXCEPT ![c] = @ + 1]
             /\ UNCHANGED <<cpc, degraded>> /\ cpc[c] = "state"
    <3>1. Step(c, "state")
      BY <2>1 DEF Step, CInv, ReadersOK, ClientTypeOK
    <3>2. attempt' \in [Clients -> 1..MaxAttempts] /\ degraded' \in [Clients -> BOOLEAN]
      BY <2>1, AttemptsAssumption DEF CInv, ReadersOK, ClientTypeOK
    <3>3. QED
      BY <1>6, <1>7, <3>1, <3>2 DEF RedisFails
  <2>2. CASE degraded' = [degraded EXCEPT ![c] = TRUE] /\ Step(c, "lookup") /\ UNCHANGED attempt
    <3>1. attempt' \in [Clients -> 1..MaxAttempts] /\ degraded' \in [Clients -> BOOLEAN]
      BY <2>2 DEF CInv, ReadersOK, ClientTypeOK
    <3>2. QED
      BY <1>6, <1>7, <2>2, <3>1 DEF RedisFails
  <2>3. QED
    BY <1>7, <2>1, <2>2 DEF RedisFails
<1>8. CASE RedisErrorPropagates(c)
  <2>1. attempt' \in [Clients -> 1..MaxAttempts] /\ degraded' \in [Clients -> BOOLEAN]
    BY <1>8 DEF RedisErrorPropagates, CInv, ReadersOK, ClientTypeOK
  <2>2. QED
    BY <1>6, <1>8, <2>1 DEF RedisErrorPropagates
<1>9. CASE LookUp(c)
  <2> DEFINE g == [v \in Vehicles |->
                      IF v \in wanted[c] /\ found[c][v] = NONE THEN LatestReading(v) ELSE found[c][v]]
  <2>1. ASSUME NEW v \in Vehicles
        PROVE  /\ g[v] \in Messages \cup {NONE}
               /\ g[v] # NONE => v \in wanted[c] /\ Vehicle(g[v]) = v /\ Stored(g[v])
               /\ v \in had[c] => g[v] # NONE
    <3>1. /\ ReadingsOf(v) = {} => LatestReading(v) = NONE
          /\ ReadingsOf(v) # {} => LatestReading(v) \in ReadingsOf(v)
      BY <1>0, LatestReadingFacts DEF CInv, ReadersOK
    <3>2. ASSUME NEW m \in ReadingsOf(v)
          PROVE  m \in Messages /\ m # NONE /\ Vehicle(m) = v /\ Stored(m)
      BY <1>0, NoneAssumption DEF ReadingsOf, TypeOK, Stored, SameKey
    <3>3. v \in had[c] => v \in wanted[c] /\ ReadingsOf(v) # {}
      BY DEF CInv, ReadersOK
    <3>4. found[c][v] \in Messages \cup {NONE}
          /\ (found[c][v] # NONE => v \in wanted[c] /\ Vehicle(found[c][v]) = v /\ Stored(found[c][v]))
      BY DEF CInv, ReadersOK, ClientTypeOK, AnswerIsStored
    <3>5. QED
      BY <3>1, <3>2, <3>3, <3>4
  <2>2. had[c] \subseteq Vehicles
    BY DEF CInv, ReadersOK, ClientTypeOK
  <2>3. g \in [Vehicles -> Messages \cup {NONE}]
    BY <2>1
  <2>4. /\ found' = [found EXCEPT ![c] = g] /\ Step(c, "answered")
        /\ UNCHANGED <<wanted, acked, had, attempt, degraded>>
    BY <1>9 DEF LookUp, CInv, ReadersOK, ClientTypeOK
  <2>5. attempt' \in [Clients -> 1..MaxAttempts] /\ degraded' \in [Clients -> BOOLEAN]
    BY <2>4 DEF CInv, ReadersOK, ClientTypeOK
  <2> HIDE DEF g
  <2>6. QED
    BY <1>2, <2>1, <2>2, <2>3, <2>4, <2>5
<1>10. QED
  BY <1>3, <1>4, <1>5, <1>7, <1>8, <1>9 DEF Client

\* Pipeline and readers together preserve the invariant.
LEMMA CInvNext == CInv /\ [ClientNext]_allVars => CInv'
<1> SUFFICES ASSUME CInv, [ClientNext]_allVars PROVE CInv'
  OBVIOUS
<1>1. CASE UNCHANGED allVars
  BY <1>1, PipelineKeepsReaders DEF allVars
<1>2. CASE Next /\ UNCHANGED clientVars
  BY <1>2, PipelineKeepsReaders
<1>3. CASE (\E c \in Clients : Client(c)) /\ UNCHANGED vars
  BY <1>3, ClientKeeps
<1>4. QED
  BY <1>1, <1>2, <1>3 DEF ClientNext

\* Whatever workers and readers overlap, fail or retry, an answer shows only
\* stored readings of the vehicles asked about (get_vehicle_state,
\* get_fleet_positions).
THEOREM AnswersAreStored == ClientSpec => []AnswerInv
<1>1. CInv => AnswerInv
  BY DEF CInv, ReadersOK, AnswerInv
<1>2. QED
  BY <1>1, CInvInit, CInvNext, PTL DEF ClientSpec

\* A vehicle with a stored reading is never reported without telemetry,
\* although Redis may be empty, fail or lose its data between the two reads
\* (get_vehicle_state, get_fleet_positions).
THEOREM NoReadingOverlooked == ClientSpec => []NoFalseAbsence
<1>1. CInv => NoFalseAbsence
  BY DEF CInv
<1>2. QED
  BY <1>1, CInvInit, CInvNext, PTL DEF ClientSpec

-----------------------------------------------------------------------------
(* Reading vehicle states, one worker.                                      *)

\* While Redis keeps its data, what it shows is at least as new as every
\* acknowledged reading, as the one about to be acknowledged, as what was
\* acknowledged when a reader came, and an answer no older than the latter.
CacheCovers ==
    restarts = 0 =>
        /\ \A m \in Messages : broker[m] = "acked" => CacheIsNewer(m)
        /\ \A w \in Workers : wpc[w] = "ack" => CacheIsNewer(wmsg[w])
        /\ \A c \in Clients : \A m \in acked[c] : CacheIsNewer(m)

FoundCovers ==
    restarts = 0 =>
        \A c \in Clients : \A m \in acked[c] :
            Vehicle(m) \in wanted[c] =>
                \/ cpc[c] # "answered" /\ found[c][Vehicle(m)] = NONE
                \/ found[c][Vehicle(m)] # NONE /\ At(found[c][Vehicle(m)]) >= At(m)

CurrentInv == CInv /\ ComparisonHolds /\ CacheCovers /\ FoundCovers

\* What Redis shows only gets newer, short of a restart (update_vehicle_state).
LEMMA NewerStays ==
    ASSUME Inv, ComparisonHolds, [Next]_vars, restarts' = 0, NEW m \in Messages, CacheIsNewer(m)
    PROVE  CacheIsNewer(m)'
<1> USE BodyAssumption, NoneAssumption
<1>1. ASSUME NEW w \in Workers, WriteCache(w) PROVE CacheIsNewer(m)'
  <2>1. wmsg[w] \in Messages /\ ~CacheIsNewer(wmsg[w])
    BY <1>1 DEF WriteCache, Inv, WorkersOK, ComparisonHolds
  <2>2. CASE Vehicle(wmsg[w]) = Vehicle(m)
    BY <1>1, <2>1, <2>2 DEF WriteCache, CacheIsNewer, Inv, TypeOK, Vehicle, At
  <2>3. CASE Vehicle(wmsg[w]) # Vehicle(m)
    BY <1>1, <2>1, <2>3 DEF WriteCache, CacheIsNewer, Inv, TypeOK, Vehicle
  <2>4. QED
    BY <2>2, <2>3
<1>2. ~RestartRedis
  BY DEF RestartRedis, Inv, TypeOK
<1>3. CASE UNCHANGED cache
  BY <1>3 DEF CacheIsNewer
<1>4. QED
  BY <1>1, <1>2, <1>3
     DEF Next, Handle, Register, Publish, Deliver, Validate, SaveReading, ReadCache, Ack, Nack,
         Fail, Crash, vars

\* A worker acknowledges only what Redis covers (handle_message).
LEMMA PipelineCovers ==
    ASSUME CurrentInv, [Next]_vars, UNCHANGED clientVars
    PROVE  CacheCovers' /\ FoundCovers'
<1> SUFFICES ASSUME restarts' = 0 PROVE CacheCovers' /\ FoundCovers'
  BY DEF CacheCovers, FoundCovers
<1>0. restarts = 0 /\ Inv /\ ComparisonHolds
  BY DEF CurrentInv, CInv, Inv, TypeOK, Next, Handle, Register, Publish, Deliver, Validate,
         SaveReading, ReadCache, WriteCache, Ack, Nack, Fail, Crash, RestartRedis, vars
<1>1. \A m \in Messages : CacheIsNewer(m) => CacheIsNewer(m)'
  BY <1>0, NewerStays
<1>2. FoundCovers'
  BY <1>0 DEF CurrentInv, FoundCovers, clientVars
<1>3. \A c \in Clients : \A m \in acked'[c] : CacheIsNewer(m)'
  BY <1>0, <1>1 DEF CurrentInv, CInv, ReadersOK, ClientTypeOK, CacheCovers, clientVars
<1>4. ASSUME NEW w \in Workers, wpc'[w] = "ack" PROVE CacheIsNewer(wmsg[w])'
  <2>1. CASE wpc[w] = "ack" /\ wmsg'[w] = wmsg[w]
    <3>1. wmsg[w] \in Messages /\ CacheIsNewer(wmsg[w])
      BY <1>0, <2>1 DEF Inv, WorkersOK, CurrentInv, CacheCovers
    <3>2. QED
      BY <1>1, <2>1, <3>1 DEF CacheIsNewer
  <2>2. CASE ReadCache(w)
    <3>1. CacheIsNewer(wmsg[w])
      BY <1>0, <1>4, <2>2 DEF ReadCache, Advance, Inv, TypeOK
    <3>2. QED
      BY <2>2, <3>1 DEF ReadCache, CacheIsNewer
  <2>3. CASE WriteCache(w)
    <3>1. wmsg[w] \in Messages /\ wmsg'[w] = wmsg[w] /\ Vehicle(wmsg[w]) \in Vehicles
      BY <1>0, <2>3, BodyAssumption DEF WriteCache, Inv, WorkersOK, Vehicle
    <3>2. cache'[Vehicle(wmsg[w])] = wmsg[w]
      BY <1>0, <2>3, <3>1 DEF WriteCache, Inv, TypeOK
    <3>3. QED
      BY <3>1, <3>2, BodyAssumption, NoneAssumption DEF CacheIsNewer, At
  <2>4. ASSUME NEW x \in Workers, Settle(x, "queued") \/ Settle(x, "dropped") \/ Settle(x, "acked")
        PROVE  wpc[w] = "ack" /\ wmsg'[w] = wmsg[w]
    BY <1>0, <1>4, <2>4 DEF Settle, Advance, Inv, TypeOK
  <2>5. ASSUME NEW x \in Workers, NEW s \in {"save", "nack", "cache_read"}, Advance(x, s),
               UNCHANGED wmsg
        PROVE  wpc[w] = "ack" /\ wmsg'[w] = wmsg[w]
    BY <1>0, <1>4, <2>5 DEF Advance, Inv, TypeOK
  <2>6. ASSUME NEW x \in Workers, NEW m \in Messages, Deliver(x, m)
        PROVE  wpc[w] = "ack" /\ wmsg'[w] = wmsg[w]
    BY <1>0, <1>4, <2>6 DEF Deliver, Advance, Inv, TypeOK
  <2>7. ASSUME NEW x \in Workers, x # w, ReadCache(x) \/ WriteCache(x)
        PROVE  wpc[w] = "ack" /\ wmsg'[w] = wmsg[w]
    BY <1>0, <1>4, <2>7 DEF ReadCache, WriteCache, Advance, Inv, TypeOK
  <2>8. CASE UNCHANGED <<wpc, wmsg>>
    BY <1>4, <2>1, <2>8
  <2>9. QED
    BY <2>1, <2>2, <2>3, <2>4, <2>5, <2>6, <2>7, <2>8
       DEF Next, Handle, Register, Publish, Validate, SaveReading, Ack, Nack, Fail, Crash,
           RestartRedis, vars
<1>5. ASSUME NEW m \in Messages, broker'[m] = "acked" PROVE CacheIsNewer(m)'
  <2>1. CASE broker[m] = "acked"
    BY <1>0, <1>1, <2>1 DEF CurrentInv, CacheCovers
  <2>2. ASSUME NEW w \in Workers, Ack(w), m = wmsg[w] PROVE CacheIsNewer(m)'
    BY <1>0, <1>1, <2>2 DEF Ack, CurrentInv, CacheCovers
  <2>3. broker[m] = "acked" \/ \E w \in Workers : Ack(w) /\ m = wmsg[w]
    <3>1. ASSUME NEW w \in Workers, NEW fate \in {"queued", "dropped"}, Settle(w, fate)
          PROVE  broker[m] = "acked"
      BY <1>0, <1>5, <3>1 DEF Settle, Inv, TypeOK
    <3>2. ASSUME NEW w \in Workers, Ack(w) PROVE broker[m] = "acked" \/ m = wmsg[w]
      BY <1>0, <1>5, <3>2 DEF Ack, Settle, Inv, TypeOK
    <3>3. ASSUME NEW n \in Messages, Publish(n) PROVE broker[m] = "acked"
      BY <1>0, <1>5, <3>3 DEF Publish, Inv, TypeOK
    <3>4. ASSUME NEW w \in Workers, NEW n \in Messages, Deliver(w, n) PROVE broker[m] = "acked"
      BY <1>0, <1>5, <3>4 DEF Deliver, Inv, TypeOK
    <3>5. CASE UNCHANGED broker
      BY <1>5, <3>5
    <3>6. QED
      BY <3>1, <3>2, <3>3, <3>4, <3>5
         DEF Next, Handle, Register, Validate, SaveReading, ReadCache, WriteCache, Nack, Fail,
             Crash, RestartRedis, vars
  <2>4. QED
    BY <2>1, <2>2, <2>3
<1>6. QED
  BY <1>2, <1>3, <1>4, <1>5 DEF CacheCovers

\* A reader asks after Redis was written, and falls back on the newest row.
LEMMA ClientCovers ==
    ASSUME CurrentInv, NEW c \in Clients, Client(c), UNCHANGED vars
    PROVE  CacheCovers' /\ FoundCovers'
<1> USE BodyAssumption, NoneAssumption
<1> SUFFICES ASSUME restarts' = 0 PROVE CacheCovers' /\ FoundCovers'
  BY DEF CacheCovers, FoundCovers
<1>0. /\ UNCHANGED <<registered, broker, readings, cache, wpc, wmsg, faults, restarts>>
      /\ restarts = 0 /\ TypeOK /\ ClientTypeOK /\ \A m : CacheIsNewer(m)' <=> CacheIsNewer(m)
  BY DEF vars, CurrentInv, CInv, ReadersOK, Inv, CacheIsNewer
<1>1. ASSUME NEW vs \in SUBSET Vehicles, NEW step \in {"state", "fleet"}, Ask(c, vs, step)
      PROVE  CacheCovers' /\ FoundCovers'
  <2>1. \A d \in Clients : \A m \in acked'[d] : CacheIsNewer(m)'
    BY <1>0, <1>1 DEF Ask, CurrentInv, CacheCovers, ClientTypeOK
  <2>2. CacheCovers'
    BY <1>0, <2>1 DEF CurrentInv, CacheCovers
  <2>3. ASSUME NEW d \in Clients, NEW m \in acked'[d], Vehicle(m) \in wanted'[d]
        PROVE  \/ cpc'[d] # "answered" /\ found'[d][Vehicle(m)] = NONE
               \/ found'[d][Vehicle(m)] # NONE /\ At(found'[d][Vehicle(m)]) >= At(m)
    <3>1. CASE d = c
      <4>1. m \in Messages /\ cpc'[c] = step /\ found'[c] = Nothing
        BY <1>0, <1>1, <2>3, <3>1 DEF Ask, Step, ClientTypeOK
      <4>2. Vehicle(m) \in Vehicles
        BY <4>1 DEF Vehicle
      <4>3. QED
        BY <3>1, <4>1, <4>2 DEF Nothing
    <3>2. CASE d # c
      <4>1. /\ acked'[d] = acked[d] /\ wanted'[d] = wanted[d] /\ cpc'[d] = cpc[d]
            /\ found'[d] = found[d]
        BY <1>0, <1>1, <3>2 DEF Ask, Step, ClientTypeOK
      <4>2. QED
        BY <1>0, <2>3, <4>1 DEF CurrentInv, FoundCovers
    <3>3. QED
      BY <3>1, <3>2
  <2>4. QED
    BY <2>2, <2>3 DEF FoundCovers
<1>2. ASSUME NEW g \in [Vehicles -> Messages \cup {NONE}],
             NEW step \in {"idle", "state", "fleet", "lookup", "answered"},
             found' = [found EXCEPT ![c] = g], Step(c, step), UNCHANGED <<wanted, acked>>,
             \A m \in acked[c] : Vehicle(m) \in wanted[c] =>
                 \/ step # "answered" /\ g[Vehicle(m)] = NONE
                 \/ g[Vehicle(m)] # NONE /\ At(g[Vehicle(m)]) >= At(m)
      PROVE  CacheCovers' /\ FoundCovers'
  <2>1. CacheCovers'
    BY <1>0, <1>2 DEF CurrentInv, CacheCovers
  <2>2. ASSUME NEW d \in Clients, NEW m \in acked'[d], Vehicle(m) \in wanted'[d]
        PROVE  \/ cpc'[d] # "answered" /\ found'[d][Vehicle(m)] = NONE
               \/ found'[d][Vehicle(m)] # NONE /\ At(found'[d][Vehicle(m)]) >= At(m)
    <3>1. CASE d = c
      <4>1. cpc'[c] = step /\ found'[c] = g
        BY <1>0, <1>2 DEF Step, ClientTypeOK
      <4>2. QED
        BY <1>2, <2>2, <3>1, <4>1
    <3>2. CASE d # c
      <4>1. acked'[d] = acked[d] /\ wanted'[d] = wanted[d] /\ cpc'[d] = cpc[d] /\ found'[d] = found[d]
        BY <1>0, <1>2, <3>2 DEF Step, ClientTypeOK
      <4>2. QED
        BY <1>0, <2>2, <4>1 DEF CurrentInv, FoundCovers
    <3>3. QED
      BY <3>1, <3>2
  <2>3. QED
    BY <2>1, <2>2 DEF FoundCovers
<1>3. ASSUME NEW v \in Vehicles, AskState(c, v) PROVE CacheCovers' /\ FoundCovers'
  BY <1>1, <1>3 DEF AskState
<1>4. CASE AskFleet(c)
  BY <1>0, <1>1, <1>4 DEF AskFleet, TypeOK
<1>5. CASE ReadRedis(c)
  <2> DEFINE g == [v \in Vehicles |-> IF v \in wanted[c] THEN cache[v] ELSE NONE]
             step == IF \A v \in wanted[c] : g[v] # NONE THEN "answered" ELSE "lookup"
  <2>1. g \in [Vehicles -> Messages \cup {NONE}]
    BY <1>0 DEF TypeOK
  <2>2. ASSUME NEW m \in acked[c], Vehicle(m) \in wanted[c]
        PROVE  g[Vehicle(m)] # NONE /\ At(g[Vehicle(m)]) >= At(m)
    <3>1. CacheIsNewer(m)
      BY <1>0, <2>2 DEF CurrentInv, CacheCovers
    <3>2. Vehicle(m) \in Vehicles
      BY <1>0, <2>2 DEF ClientTypeOK
    <3>3. QED
      BY <2>2, <3>1, <3>2 DEF CacheIsNewer
  <2>3. found' = [found EXCEPT ![c] = g] /\ Step(c, step) /\ UNCHANGED <<wanted, acked>>
    BY <1>5 DEF ReadRedis
  <2>4. step \in {"idle", "state", "fleet", "lookup", "answered"}
    OBVIOUS
  <2> HIDE DEF g, step
  <2>5. QED
    BY <1>2, <2>1, <2>2, <2>3, <2>4
<1>6. ASSUME NEW step \in {"idle", "state", "fleet", "lookup"}, Step(c, step),
             UNCHANGED <<wanted, found, acked>>
      PROVE  CacheCovers' /\ FoundCovers'
  <2>1. found[c] \in [Vehicles -> Messages \cup {NONE}] /\ found' = [found EXCEPT ![c] = found[c]]
    BY <1>0, <1>6 DEF ClientTypeOK
  <2>2. \A m \in acked[c] : Vehicle(m) \in wanted[c] =>
           \/ step # "answered" /\ found[c][Vehicle(m)] = NONE
           \/ found[c][Vehicle(m)] # NONE /\ At(found[c][Vehicle(m)]) >= At(m)
    BY <1>0, <1>6 DEF CurrentInv, FoundCovers
  <2>3. QED
    BY <1>2, <1>6, <2>1, <2>2
<1>7. CASE RedisFails(c)
  <2>1. CASE UNCHANGED cpc /\ cpc[c] = "state"
    <3>1. Step(c, "state")
      BY <1>0, <2>1 DEF Step, ClientTypeOK
    <3>2. QED
      BY <1>6, <1>7, <3>1 DEF RedisFails
  <2>2. QED
    BY <1>6, <1>7, <2>1 DEF RedisFails
<1>8. CASE RedisErrorPropagates(c)
  BY <1>6, <1>8 DEF RedisErrorPropagates
<1>9. CASE LookUp(c)
  <2> DEFINE g == [v \in Vehicles |->
                      IF v \in wanted[c] /\ found[c][v] = NONE THEN LatestReading(v) ELSE found[c][v]]
  <2>1. ASSUME NEW v \in Vehicles
        PROVE  /\ ReadingsOf(v) = {} => LatestReading(v) = NONE
               /\ ReadingsOf(v) # {} =>
                     /\ LatestReading(v) \in ReadingsOf(v)
                     /\ \A n \in ReadingsOf(v) : At(LatestReading(v)) >= At(n)
    BY <1>0, LatestReadingFacts DEF CurrentInv, CInv, ReadersOK
  <2>2. ASSUME NEW v \in Vehicles PROVE LatestReading(v) \in Messages \cup {NONE}
    BY <1>0, <2>1 DEF ReadingsOf, TypeOK
  <2>3. g \in [Vehicles -> Messages \cup {NONE}]
    BY <1>0, <2>2 DEF ClientTypeOK
  <2>4. ASSUME NEW m \in acked[c], Vehicle(m) \in wanted[c]
        PROVE  g[Vehicle(m)] # NONE /\ At(g[Vehicle(m)]) >= At(m)
    <3>1. m \in Messages /\ Stored(m) /\ Vehicle(m) \in Vehicles
      BY <1>0 DEF CurrentInv, CInv, ReadersOK, ClientTypeOK, Vehicle
    <3>2. CASE found[c][Vehicle(m)] # NONE
      <4>1. g[Vehicle(m)] = found[c][Vehicle(m)]
        BY <3>1, <3>2
      <4>2. At(found[c][Vehicle(m)]) >= At(m)
        BY <1>0, <2>4, <3>2 DEF CurrentInv, FoundCovers
      <4>3. QED
        BY <3>2, <4>1, <4>2
    <3>3. CASE found[c][Vehicle(m)] = NONE
      <4>1. PICK n \in readings : Vehicle(m) = Vehicle(n) /\ At(m) = At(n)
        BY <3>1 DEF Stored, SameKey
      <4>2. n \in ReadingsOf(Vehicle(m))
        BY <4>1 DEF ReadingsOf
      <4>3. /\ LatestReading(Vehicle(m)) \in ReadingsOf(Vehicle(m))
            /\ At(LatestReading(Vehicle(m))) >= At(n)
        BY <2>1, <3>1, <4>2
      <4>4. LatestReading(Vehicle(m)) # NONE
        BY <1>0, <4>3 DEF ReadingsOf, TypeOK
      <4>5. g[Vehicle(m)] = LatestReading(Vehicle(m))
        BY <2>4, <3>1, <3>3
      <4>6. QED
        BY <4>1, <4>3, <4>4, <4>5
    <3>4. QED
      BY <3>2, <3>3
  <2>5. found' = [found EXCEPT ![c] = g] /\ Step(c, "answered") /\ UNCHANGED <<wanted, acked>>
    BY <1>0, <1>9 DEF LookUp, ClientTypeOK
  <2> HIDE DEF g
  <2>6. QED
    BY <1>2, <2>3, <2>4, <2>5
<1>10. QED
  BY <1>3, <1>4, <1>5, <1>7, <1>8, <1>9 DEF Client

(***************************************************************************)
(* While Redis keeps its data and one worker runs, every answer, degraded  *)
(* or not, is at least as new as every reading acknowledged before the     *)
(* request came in, however many clients ask and whatever fails            *)
(* (get_vehicle_state, get_fleet_positions, update_vehicle_state).         *)
(***************************************************************************)
THEOREM AnswersAreCurrent ==
    ASSUME \A w, x \in Workers : w = x
    PROVE  ClientSpec => []AnswerIsCurrent
<1>1. ClientInit => CurrentInv
  <2> SUFFICES ASSUME ClientInit PROVE CurrentInv
    OBVIOUS
  <2>1. CInv
    BY CInvInit
  <2>2. ComparisonHolds /\ CacheCovers /\ FoundCovers
    BY DEF ClientInit, Init, ComparisonHolds, CacheCovers, FoundCovers
  <2>3. QED
    BY <2>1, <2>2 DEF CurrentInv
<1>2. CurrentInv /\ [ClientNext]_allVars => CurrentInv'
  <2> SUFFICES ASSUME CurrentInv, [ClientNext]_allVars PROVE CurrentInv'
    OBVIOUS
  <2>1. CInv'
    BY CInvNext DEF CurrentInv
  <2>2. ComparisonHolds'
    <3>1. [Next]_vars
      BY DEF ClientNext, allVars
    <3>2. QED
      BY <3>1, ComparisonNext DEF CurrentInv, CInv
  <2>3. CacheCovers' /\ FoundCovers'
    BY PipelineCovers, ClientCovers DEF ClientNext, allVars
  <2>4. QED
    BY <2>1, <2>2, <2>3 DEF CurrentInv
<1>3. CurrentInv => AnswerIsCurrent
  BY DEF CurrentInv, FoundCovers, AnswerIsCurrent
<1>4. QED
  BY <1>1, <1>2, <1>3, PTL DEF ClientSpec
=============================================================================
