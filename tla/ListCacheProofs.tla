-------------------------- MODULE ListCacheProofs --------------------------
(***************************************************************************)
(* Proofs about ListCache for every lifetime, every bound on a reader's    *)
(* delay and any number of readers, writers and changes.                   *)
(***************************************************************************)
EXTENDS ListCache, TLAPS

\* A version is not older than the time since a reader loaded it, because it
\* was current then.
LoadedIsRecent ==
    \A r \in Readers : rpc[r] = "set" => loaded[r] <= table /\ stale[loaded[r]] <= delay[r]

\* Only versions that were superseded age.
CurrentIsFresh == \A n \in Versions : n >= table => stale[n] = 0

Inv == TypeOK /\ LoadedIsRecent /\ CurrentIsFresh /\ StalenessBounded

\* The cache starts empty.
LEMMA InvInit == Init => Inv
BY ListCacheAssumption
   DEF Init, Inv, TypeOK, LoadedIsRecent, CurrentIsFresh, StalenessBounded, Versions, Cap

\* Every step of a reader, a writer or the clock preserves the invariant.
LEMMA InvNext == Inv /\ [Next]_vars => Inv'
<1> SUFFICES ASSUME Inv, [Next]_vars PROVE Inv'
  OBVIOUS
<1> USE ListCacheAssumption DEF Inv, TypeOK, LoadedIsRecent, CurrentIsFresh, StalenessBounded, Versions
<1>0. CASE UNCHANGED vars
  BY <1>0 DEF vars
<1>1. ASSUME NEW r \in Readers, Receive(r) PROVE Inv'
  BY <1>1 DEF Receive
<1>2. ASSUME NEW r \in Readers, Get(r) PROVE Inv'
  BY <1>2 DEF Get
<1>3. ASSUME NEW r \in Readers, Load(r) PROVE Inv'
  BY <1>3 DEF Load
<1>4. ASSUME NEW r \in Readers, Set(r) PROVE Inv'
  <2>1. /\ loaded[r] \in Versions /\ stale[loaded[r]] <= delay[r] /\ delay[r] <= MaxDelay
        /\ stale[loaded[r]] \in Nat
    BY <1>4 DEF Set, Cap
  <2>2. TypeOK'
    BY <1>4, <2>1 DEF Set, Forget
  <2>3. LoadedIsRecent' /\ CurrentIsFresh'
    BY <1>4 DEF Set, Forget
  <2>4. StalenessBounded'
    BY <1>4, <2>1 DEF Set, Forget
  <2>5. QED
    BY <2>2, <2>3, <2>4
<1>5. ASSUME NEW r \in Readers, SetFails(r) PROVE Inv'
  BY <1>5 DEF SetFails, Forget
<1>6. ASSUME NEW w \in Writers, Commit(w) PROVE Inv'
  BY <1>6 DEF Commit
<1>7. ASSUME NEW w \in Writers, Invalidate(w) PROVE Inv'
  BY <1>7 DEF Invalidate
<1>8. ASSUME NEW w \in Writers, InvalidateFails(w) PROVE Inv'
  BY <1>8 DEF InvalidateFails
<1>9. CASE Tick
  <2>1. TypeOK'
    <3>1. delay' \in [Readers -> 0..MaxDelay]
      BY <1>9 DEF Tick
    <3>2. stale' \in [Versions -> 0..Cap]
      BY <1>9 DEF Tick, CappedSucc, Cap
    <3>3. left' \in 0..TTL /\ entry' \in Versions \cup {NONE}
      BY <1>9 DEF Tick, Expire
    <3>4. QED
      BY <1>9, <3>1, <3>2, <3>3 DEF Tick
  <2>2. LoadedIsRecent'
    BY <1>9 DEF Tick, CappedSucc, Cap
  <2>3. CurrentIsFresh'
    BY <1>9 DEF Tick
  <2>4. StalenessBounded'
    BY <1>9 DEF Tick, Expire, CappedSucc, Cap
  <2>5. QED
    BY <2>1, <2>2, <2>3, <2>4
<1>10. QED
  BY <1>0, <1>1, <1>2, <1>3, <1>4, <1>5, <1>6, <1>7, <1>8, <1>9 DEF Next, Read

\* The lists served from the cache are never older than the lifetime of an
\* entry plus the longest delay of a reader between SELECT and SET, whatever
\* invalidations fail (read_through_json, invalidate).
THEOREM TTLBoundsStaleness == Spec => [](TypeOK /\ StalenessBounded)
<1>1. Inv => TypeOK /\ StalenessBounded
  BY DEF Inv
<1>2. QED
  BY <1>1, InvInit, InvNext, PTL DEF Spec

\* Entries, readers and writers of the cache keep their types
\* (read_through_json).
THEOREM CacheTypes == Spec => []TypeOK
BY TTLBoundsStaleness, PTL

=============================================================================
