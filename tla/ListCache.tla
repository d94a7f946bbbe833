------------------------------ MODULE ListCache ------------------------------
(***************************************************************************)
(* The read-through cache of a list endpoint (cache.py): GET /vehicles and *)
(* GET /stations read the key through read_through_json; the handlers that *)
(* change the table commit and then call invalidate.  One instance is one  *)
(* key with the table behind it; the keys share nothing.                   *)
(*                                                                         *)
(* The table is represented by how often it was changed.  Time passes in   *)
(* ticks; the entry's remaining lifetime counts down (Redis EX).  How long *)
(* a reader may take between its SELECT and its SET is bounded by MaxDelay *)
(* ticks: the code has no such bound, so the staleness it allows grows     *)
(* with whatever delay the deployment sees.                                *)
(***************************************************************************)
EXTENDS Integers

CONSTANTS
    Readers, Writers,
    TTL,        \* list_cache_ttl_seconds
    MaxDelay,   \* bound on the time from a reader's SELECT to its SET
    MaxWrites,  \* bound on the changes of the table
    NONE        \* no entry

ASSUME ListCacheAssumption ==
    /\ TTL \in Nat \ {0}
    /\ MaxDelay \in Nat
    /\ MaxWrites \in Nat
    /\ NONE \notin Nat

VARIABLES
    table,      \* number of committed changes
    stale,      \* per version: ticks since it was superseded, capped at Cap
    entry,      \* the cached version, or NONE
    left,       \* ticks until the entry expires
    rpc,        \* per reader: where read_through_json stands
    loaded,     \* per reader: the version its SELECT returned
    delay,      \* per reader: ticks since its SELECT
    wpc         \* per writer: where the handler stands

vars == <<table, stale, entry, left, rpc, loaded, delay, wpc>>

Versions == 0..MaxWrites
Cap == TTL + MaxDelay + 1

TypeOK ==
    /\ table \in Versions
    /\ stale \in [Versions -> 0..Cap]
    /\ entry \in Versions \cup {NONE}
    /\ left \in 0..TTL
    /\ rpc \in [Readers -> {"idle", "get", "load", "set"}]
    /\ loaded \in [Readers -> Versions]
    /\ delay \in [Readers -> 0..MaxDelay]
    /\ wpc \in [Writers -> Versions \cup {NONE}]

Init ==
    /\ table = 0
    /\ stale = [n \in Versions |-> 0]
    /\ entry = NONE
    /\ left = 0
    /\ rpc = [r \in Readers |-> "idle"]
    /\ loaded = [r \in Readers |-> 0]
    /\ delay = [r \in Readers |-> 0]
    /\ wpc = [w \in Writers |-> NONE]

-----------------------------------------------------------------------------
(* read_through_json                                                       *)

Receive(r) ==
    /\ rpc[r] = "idle"
    /\ rpc' = [rpc EXCEPT ![r] = "get"]
    /\ UNCHANGED <<table, stale, entry, left, loaded, delay, wpc>>

\* A hit is the answer; a miss or a Redis error leads to the database.
Get(r) ==
    /\ rpc[r] = "get"
    /\ \/ entry # NONE /\ rpc' = [rpc EXCEPT ![r] = "idle"]
       \/ rpc' = [rpc EXCEPT ![r] = "load"]
    /\ UNCHANGED <<table, stale, entry, left, loaded, delay, wpc>>

Load(r) ==
    /\ rpc[r] = "load"
    /\ loaded' = [loaded EXCEPT ![r] = table]
    /\ delay' = [delay EXCEPT ![r] = 0]
    /\ rpc' = [rpc EXCEPT ![r] = "set"]
    /\ UNCHANGED <<table, stale, entry, left, wpc>>

\* Done with the SET, or the reader gave up on it: the SET failed (caught),
\* or the pod died first.
Forget(r) ==
    /\ rpc' = [rpc EXCEPT ![r] = "idle"]
    /\ loaded' = [loaded EXCEPT ![r] = 0]
    /\ delay' = [delay EXCEPT ![r] = 0]

Set(r) ==
    /\ rpc[r] = "set"
    /\ entry' = loaded[r]
    /\ left' = TTL
    /\ Forget(r)
    /\ UNCHANGED <<table, stale, wpc>>

SetFails(r) ==
    /\ rpc[r] = "set"
    /\ Forget(r)
    /\ UNCHANGED <<table, stale, entry, left, wpc>>

-----------------------------------------------------------------------------
(* A handler that changes the table                                        *)

Commit(w) ==
    /\ wpc[w] = NONE
    /\ table < MaxWrites
    /\ table' = table + 1
    /\ wpc' = [wpc EXCEPT ![w] = table + 1]
    /\ UNCHANGED <<stale, entry, left, rpc, loaded, delay>>

\* The key is deleted and the request answered.
Invalidate(w) ==
    /\ wpc[w] # NONE
    /\ entry' = NONE
    /\ left' = 0
    /\ wpc' = [wpc EXCEPT ![w] = NONE]
    /\ UNCHANGED <<table, stale, rpc, loaded, delay>>

\* The DELETE fails and is logged, or the pod dies before it.
InvalidateFails(w) ==
    /\ wpc[w] # NONE
    /\ wpc' = [wpc EXCEPT ![w] = NONE]
    /\ UNCHANGED <<table, stale, entry, left, rpc, loaded, delay>>

-----------------------------------------------------------------------------
CappedSucc(n) == IF n < Cap THEN n + 1 ELSE n

\* Mutant of Expire: the entry outlives its last tick.
ExpireNever ==
    /\ left' = IF left > 1 THEN left - 1 ELSE left
    /\ UNCHANGED entry

\* One tick of the entry's lifetime.
Expire ==
    IF left > 1 THEN left' = left - 1 /\ UNCHANGED entry ELSE left' = 0 /\ entry' = NONE

Tick ==
    /\ \A r \in Readers : rpc[r] = "set" => delay[r] < MaxDelay
    /\ delay' = [r \in Readers |-> IF rpc[r] = "set" THEN delay[r] + 1 ELSE 0]
    /\ stale' = [n \in Versions |-> IF n < table THEN CappedSucc(stale[n]) ELSE 0]
    /\ Expire
    /\ UNCHANGED <<table, rpc, loaded, wpc>>

Read(r) == Get(r) \/ Load(r) \/ Set(r) \/ SetFails(r)

Next ==
    \/ \E r \in Readers : Receive(r) \/ Read(r)
    \/ \E w \in Writers : Commit(w) \/ Invalidate(w) \/ InvalidateFails(w)
    \/ Tick

Spec == Init /\ [][Next]_vars

\* Time passes, and the event loop goes on with every request.
Fairness == WF_vars(Tick) /\ \A r \in Readers : WF_vars(Read(r))

FairSpec == Spec /\ Fairness

-----------------------------------------------------------------------------
(***************************************************************************)
(* A list no older than TTL plus the time a reader may stall is served,    *)
(* whatever invalidations fail or lose the race with a slow reader         *)
(* (cache.py: "The TTL still bounds how long a stale list can be served"). *)
(***************************************************************************)
StalenessBounded ==
    entry # NONE => stale[entry] + left <= TTL + MaxDelay

(***************************************************************************)
(* Once the table stops changing, the cache eventually holds nothing older *)
(* for good, even if no invalidation ever succeeds                         *)
(* (read_through_json: "the entry expires [...] even if an invalidation    *)
(* was missed").                                                           *)
(***************************************************************************)
EventuallyFresh == <>[](entry # NONE => entry = table)
=============================================================================
