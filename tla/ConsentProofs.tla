---------------------------- MODULE ConsentProofs ----------------------------
(***************************************************************************)
(* Proofs about the consent registry: for any number of users, purposes,   *)
(* versions and overlapping requests, the evidence log explains the rows,  *)
(* holds only events that changed something, and no grant fails because    *)
(* another one was first.                                                  *)
(***************************************************************************)
EXTENDS Consent, TLAPS

-----------------------------------------------------------------------------
(* The inductive invariant                                                 *)

\* A session about to update holds the row's lock, so what it read still
\* stands and its request still changes the row.
UpdatesOwn ==
    \A s \in Sessions :
        spc[s] = "update" => rowLock[req[s].key] = s /\ Exists(req[s].key) /\ Changes(s)

\* Only a first attempt of a grant inserts, and a second attempt finds a row,
\* for no row is ever deleted.
InsertsOnce ==
    \A s \in Sessions :
        /\ spc[s] # "idle" => req[s] \in Asked
        /\ spc[s] = "insert" => req[s].op = "grant" /\ ~req[s].again
        /\ req[s].again => Exists(req[s].key)

IInv ==
    /\ ConsentTypeOK
    /\ UpdatesOwn
    /\ InsertsOnce
    /\ HistoryExplainsRow
    /\ EveryEventChanges
    /\ GrantSurvivesRace

Events == [action: Actions, version: Versions]

-----------------------------------------------------------------------------
\* What an append to the log leaves of the rest of it (_history).
LEMMA AppendFacts ==
    ASSUME NEW S, NEW h \in Seq(S), NEW e \in S
    PROVE  /\ Append(h, e) \in Seq(S)
           /\ Append(h, e) # <<>>
           /\ Len(Append(h, e)) = Len(h) + 1
           /\ Append(h, e)[Len(h) + 1] = e
           /\ \A i \in 1..Len(h) : Append(h, e)[i] = h[i]
  OBVIOUS

\* An event that changes the row it is recorded for keeps the log of that
\* row in agreement with it and free of idle events (grant, revoke).
LEMMA ChangeIsEvidence ==
    ASSUME IInv, NEW s \in Sessions, req[s] \in Asked, Changes(s),
           req[s].op = "revoke" => Exists(req[s].key),
           Record(s)
    PROVE  /\ Outcome(s) \in Rows
           /\ Outcome(s).status # NONE
           /\ Event(s) \in Events
           /\ history' \in [Keys -> Seq(Events)]
           /\ consents' \in [Keys -> Rows]
           /\ HistoryExplainsRow'
           /\ EveryEventChanges'
  <1> DEFINE k == req[s].key
             o == Outcome(s)
             e == Event(s)
  <1>1. k \in Keys /\ req[s].op \in {"grant", "revoke"}
        /\ (req[s].op = "grant" => req[s].version \in Versions)
    BY DEF Asked
  <1>2. consents[k] \in Rows /\ history[k] \in Seq(Events)
    BY <1>1 DEF IInv, ConsentTypeOK, Events
  <1>3. consents[k].status # NONE => consents[k].version \in Versions
    BY <1>2 DEF Rows, NoConsent
  <1>4. /\ o \in [status: Status, version: Versions]
        /\ e \in Events
        /\ o.version = e.version
        /\ e.action = "GRANT" <=> o.status = "GRANTED"
        /\ e.action = "GRANT" \/ e.action = "REVOKE"
        /\ e.action = "REVOKE" => req[s].op = "revoke"
        /\ o = [status |-> IF e.action = "GRANT" THEN "GRANTED" ELSE "WITHDRAWN",
                version |-> e.version]
    <2>1. CASE req[s].op = "grant"
      BY <2>1, <1>1 DEF Outcome, Event, Events, Actions, Status
    <2>2. CASE req[s].op = "revoke"
      BY <2>2, <1>1, <1>3 DEF Outcome, Event, Events, Actions, Status, Exists
    <2> QED BY <2>1, <2>2, <1>1
  <1>5. o.status # NONE
    BY <1>4, ConsentAssumption
  <1>6. /\ consents' = [consents EXCEPT ![k] = o]
        /\ history' = [history EXCEPT ![k] = Append(history[k], e)]
    BY <1>1 DEF Record, IInv, ConsentTypeOK
  <1>7. Append(history[k], e) \in Seq(Events)
    BY <1>2, <1>4, AppendFacts
  <1>8. history' \in [Keys -> Seq(Events)] /\ consents' \in [Keys -> Rows]
    BY <1>1, <1>4, <1>6, <1>7 DEF IInv, ConsentTypeOK, Events, Rows
  <1>9. HistoryExplainsRow'
    <2> SUFFICES ASSUME NEW j \in Keys
                 PROVE  IF history'[j] = <<>> THEN ~(consents'[j].status # NONE)
                        ELSE consents'[j] =
                               [status |-> IF history'[j][Len(history'[j])].action = "GRANT"
                                           THEN "GRANTED" ELSE "WITHDRAWN",
                                version |-> history'[j][Len(history'[j])].version]
      BY DEF HistoryExplainsRow, Exists, LastEvent
    <2>1. CASE j = k
      <3>1. consents'[j] = o /\ history'[j] = Append(history[k], e)
        BY <2>1, <1>1, <1>6 DEF IInv, ConsentTypeOK
      <3>2. Append(history[k], e) # <<>>
            /\ Append(history[k], e)[Len(Append(history[k], e))] = e
        BY <1>2, <1>4, AppendFacts
      <3> QED BY <3>1, <3>2, <1>4
    <2>2. CASE j # k
      <3>1. consents'[j] = consents[j] /\ history'[j] = history[j]
        BY <2>2, <1>6 DEF IInv, ConsentTypeOK
      <3> QED BY <3>1 DEF IInv, HistoryExplainsRow, Exists, LastEvent
    <2> QED BY <2>1, <2>2
  <1>10. EveryEventChanges'
    <2> SUFFICES ASSUME NEW j \in Keys
                 PROVE  /\ history'[j] # <<>> => history'[j][1].action = "GRANT"
                        /\ \A i \in 1..(Len(history'[j]) - 1) :
                              /\ history'[j][i] # history'[j][i + 1]
                              /\ history'[j][i + 1].action = "REVOKE" =>
                                    history'[j][i] = [action |-> "GRANT",
                                                      version |-> history'[j][i + 1].version]
      BY DEF EveryEventChanges
    <2>1. CASE j # k
      <3>1. history'[j] = history[j]
        BY <2>1, <1>6 DEF IInv, ConsentTypeOK
      <3> QED BY <3>1 DEF IInv, EveryEventChanges
    <2>2. CASE j = k
      <3> DEFINE h == history[k]
                 g == Append(h, e)
      <3>1. history'[j] = g
        BY <2>2, <1>1, <1>6 DEF IInv, ConsentTypeOK
      <3>2. /\ g # <<>> /\ Len(g) = Len(h) + 1 /\ g[Len(h) + 1] = e
            /\ \A i \in 1..Len(h) : g[i] = h[i]
            /\ Len(h) \in Nat
        BY <1>2, <1>4, AppendFacts
      <3>3. h # <<>> <=> Len(h) > 0
        BY <1>2
      <3>4. CASE h = <<>>
        <4>1. ~Exists(k)
          BY <3>4, <1>1 DEF IInv, HistoryExplainsRow
        <4>2. e.action = "GRANT"
          BY <4>1, <1>4
        <4>3. Len(g) = 1 /\ g[1] = e
          BY <3>2, <3>4, <3>3
        <4> QED BY <4>2, <4>3, <3>1
      <3>5. CASE h # <<>>
        <4> DEFINE l == h[Len(h)]
        <4>1. l \in Events
          BY <1>2, <3>5, <3>3
        <4>2. consents[k] = [status |-> IF l.action = "GRANT" THEN "GRANTED" ELSE "WITHDRAWN",
                             version |-> l.version]
          BY <3>5, <1>1 DEF IInv, HistoryExplainsRow, LastEvent
        <4>3. l # e
          BY <4>2, <1>4 DEF Changes
        <4>4. e.action = "REVOKE" => l = [action |-> "GRANT", version |-> e.version]
          <5>1. SUFFICES ASSUME e.action = "REVOKE"
                         PROVE  l = [action |-> "GRANT", version |-> e.version]
            OBVIOUS
          <5>2. req[s].op = "revoke"
            BY <5>1, <1>4
          <5>3. e.version = consents[k].version
            BY <5>2 DEF Event
          <5>4. o = [status |-> "WITHDRAWN", version |-> consents[k].version]
            BY <5>2 DEF Outcome
          <5>5. l.version = e.version
            BY <5>3, <4>2
          <5>6. l.action = "GRANT"
            BY <5>4, <4>2, <5>5, <5>3 DEF Changes
          <5> QED BY <5>5, <5>6, <4>1 DEF Events
        <4>5. g[1].action = "GRANT"
          BY <3>2, <3>3, <3>5, <1>1 DEF IInv, EveryEventChanges
        <4>6. ASSUME NEW i \in 1..(Len(g) - 1)
              PROVE  /\ g[i] # g[i + 1]
                     /\ g[i + 1].action = "REVOKE" =>
                           g[i] = [action |-> "GRANT", version |-> g[i + 1].version]
          <5>1. CASE i = Len(h)
            BY <5>1, <3>2, <3>3, <3>5, <4>3, <4>4
          <5>2. CASE i # Len(h)
            <6>1. i \in 1..(Len(h) - 1) /\ g[i] = h[i] /\ g[i + 1] = h[i + 1]
              BY <5>2, <3>2
            <6> QED BY <6>1, <1>1 DEF IInv, EveryEventChanges
          <5> QED BY <5>1, <5>2
        <4> QED BY <4>5, <4>6, <3>1
      <3> QED BY <3>4, <3>5
    <2> QED BY <2>1, <2>2
  <1> QED BY <1>4, <1>5, <1>8, <1>9, <1>10 DEF Rows

\* A request that leaves the tables alone keeps what is said about them.
LEMMA TablesStand ==
    ASSUME IInv, UNCHANGED <<consents, history>>
    PROVE  HistoryExplainsRow' /\ EveryEventChanges'
  BY DEF IInv, HistoryExplainsRow, EveryEventChanges, Exists, LastEvent

\* The session that answers frees its own locks and nobody else's.
LEMMA AnswerFacts ==
    ASSUME IInv, NEW s \in Sessions, Answer(s)
    PROVE  /\ rowLock' \in [Keys -> Sessions \cup {NONE}]
           /\ spc' \in [Sessions -> {"idle", "read", "update", "insert", "failed"}]
           /\ req' \in [Sessions -> Asked \cup {NoRequest}]
           /\ spc'[s] = "idle" /\ req'[s] = NoRequest
           /\ \A t \in Sessions \ {s} : spc'[t] = spc[t] /\ req'[t] = req[t]
           /\ \A t \in Sessions \ {s}, j \in Keys : rowLock[j] = t => rowLock'[j] = t
           /\ GrantSurvivesRace'
  <1>1. /\ spc' = [spc EXCEPT ![s] = "idle"]
        /\ req' = [req EXCEPT ![s] = NoRequest]
        /\ rowLock' = [j \in Keys |-> IF rowLock[j] = s THEN NONE ELSE rowLock[j]]
    BY DEF Answer
  <1> QED BY <1>1 DEF IInv, ConsentTypeOK, GrantSurvivesRace

\* Once it has recorded its change, the session disturbs no other: nobody
\* else holds the row's lock.
LEMMA RecordKeepsIInv ==
    ASSUME IInv, NEW s \in Sessions, req[s] \in Asked, Changes(s),
           req[s].op = "revoke" => Exists(req[s].key),
           Record(s),
           \A t \in Sessions \ {s} : ~(spc[t] = "update" /\ req[t].key = req[s].key)
    PROVE  IInv'
  <1> DEFINE k == req[s].key
  <1>1. /\ Outcome(s) \in Rows
        /\ Outcome(s).status # NONE
        /\ Event(s) \in Events
        /\ history' \in [Keys -> Seq(Events)]
        /\ consents' \in [Keys -> Rows]
        /\ HistoryExplainsRow'
        /\ EveryEventChanges'
    BY ChangeIsEvidence
  <1>2. Answer(s) /\ erased' = erased
    BY DEF Record
  <1>3. /\ rowLock' \in [Keys -> Sessions \cup {NONE}]
        /\ spc' \in [Sessions -> {"idle", "read", "update", "insert", "failed"}]
        /\ req' \in [Sessions -> Asked \cup {NoRequest}]
        /\ spc'[s] = "idle" /\ req'[s] = NoRequest
        /\ \A t \in Sessions \ {s} : spc'[t] = spc[t] /\ req'[t] = req[t]
        /\ \A t \in Sessions \ {s}, j \in Keys : rowLock[j] = t => rowLock'[j] = t
        /\ GrantSurvivesRace'
    BY <1>2, AnswerFacts
  <1>4. ConsentTypeOK'
    BY <1>1, <1>2, <1>3 DEF IInv, ConsentTypeOK, Events
  <1>5. /\ \A j \in Keys \ {k} : consents'[j] = consents[j]
        /\ consents'[k] = Outcome(s)
        /\ \A j \in Keys : consents[j].status # NONE => consents'[j].status # NONE
    <2>1. consents' = [consents EXCEPT ![k] = Outcome(s)] /\ k \in Keys
      BY DEF Record, Asked
    <2> QED BY <2>1, <1>1 DEF IInv, ConsentTypeOK
  <1>6. UpdatesOwn'
    <2> SUFFICES ASSUME NEW t \in Sessions, spc'[t] = "update"
                 PROVE  (rowLock[req[t].key] = t /\ Exists(req[t].key) /\ Changes(t))'
      BY DEF UpdatesOwn
    <2>1. t # s /\ spc[t] = "update" /\ req'[t] = req[t]
      BY <1>3
    <2>2. /\ req[t] \in Asked /\ req[t].key \in Keys /\ req[t].key # k
          /\ rowLock[req[t].key] = t /\ Exists(req[t].key) /\ Changes(t)
      BY <2>1 DEF IInv, UpdatesOwn, InsertsOnce, Asked
    <2>3. consents'[req[t].key] = consents[req[t].key] /\ rowLock'[req[t].key] = t
      BY <2>1, <2>2, <1>3, <1>5
    <2> QED BY <2>1, <2>2, <2>3 DEF Exists, Changes, Outcome
  <1>7. InsertsOnce'
    <2> SUFFICES ASSUME NEW t \in Sessions
                 PROVE  /\ spc'[t] # "idle" => req'[t] \in Asked
                        /\ spc'[t] = "insert" => req'[t].op = "grant" /\ ~req'[t].again
                        /\ req'[t].again => consents'[req'[t].key].status # NONE
      BY DEF InsertsOnce, Exists
    <2>1. CASE t = s
      BY <2>1, <1>3 DEF NoRequest
    <2>2. CASE t # s
      <3>1. spc'[t] = spc[t] /\ req'[t] = req[t]
        BY <2>2, <1>3
      <3>2. req[t].again => req[t].key \in Keys
        <4>1. req[t] \in Asked \/ req[t] = NoRequest
          BY DEF IInv, ConsentTypeOK
        <4>2. req[t] \in Asked => req[t].key \in Keys
          BY DEF Asked
        <4>3. ~NoRequest.again
          BY DEF NoRequest
        <4> QED BY <4>1, <4>2, <4>3
      <3> QED BY <3>1, <3>2, <1>5 DEF IInv, InsertsOnce, Exists
    <2> QED BY <2>1, <2>2
  <1> QED BY <1>1, <1>3, <1>4, <1>6, <1>7 DEF IInv

\* A session that ends without writing disturbs nothing.
LEMMA AnswerKeepsIInv ==
    ASSUME IInv, NEW s \in Sessions, Answer(s), UNCHANGED <<erased, consents, history>>
    PROVE  IInv'
  <1>1. /\ rowLock' \in [Keys -> Sessions \cup {NONE}]
        /\ spc' \in [Sessions -> {"idle", "read", "update", "insert", "failed"}]
        /\ req' \in [Sessions -> Asked \cup {NoRequest}]
        /\ spc'[s] = "idle" /\ req'[s] = NoRequest
        /\ \A t \in Sessions \ {s} : spc'[t] = spc[t] /\ req'[t] = req[t]
        /\ \A t \in Sessions \ {s}, j \in Keys : rowLock[j] = t => rowLock'[j] = t
        /\ GrantSurvivesRace'
    BY AnswerFacts
  <1>2. ConsentTypeOK'
    BY <1>1 DEF IInv, ConsentTypeOK
  <1>3. UpdatesOwn'
    <2> SUFFICES ASSUME NEW t \in Sessions, spc'[t] = "update"
                 PROVE  (rowLock[req[t].key] = t /\ Exists(req[t].key) /\ Changes(t))'
      BY DEF UpdatesOwn
    <2>1. t # s /\ spc[t] = "update" /\ req'[t] = req[t] /\ req[t].key \in Keys
      BY <1>1 DEF IInv, InsertsOnce, Asked
    <2>2. rowLock[req[t].key] = t /\ Exists(req[t].key) /\ Changes(t)
      BY <2>1 DEF IInv, UpdatesOwn
    <2> QED BY <2>1, <2>2, <1>1 DEF Exists, Changes, Outcome
  <1>4. InsertsOnce'
    <2> SUFFICES ASSUME NEW t \in Sessions
                 PROVE  /\ spc'[t] # "idle" => req'[t] \in Asked
                        /\ spc'[t] = "insert" => req'[t].op = "grant" /\ ~req'[t].again
                        /\ req'[t].again => consents'[req'[t].key].status # NONE
      BY DEF InsertsOnce, Exists
    <2>1. CASE t = s
      BY <2>1, <1>1 DEF NoRequest
    <2>2. CASE t # s
      BY <2>2, <1>1 DEF IInv, InsertsOnce, Exists
    <2> QED BY <2>1, <2>2
  <1> QED BY <1>1, <1>2, <1>3, <1>4, TablesStand DEF IInv

\* Nobody answers, no row changes and s alone moves: what is left to show is
\* about s (Receive, ReadForUpdate, ReadNothing, InsertConflict).
LEMMA MoveKeepsIInv ==
    ASSUME IInv, UNCHANGED <<erased, consents, history>>, NEW s \in Sessions,
           NEW p \in {"read", "update", "insert"}, NEW r \in Asked,
           spc' = [spc EXCEPT ![s] = p],
           req' = [req EXCEPT ![s] = r],
           rowLock' \in [Keys -> Sessions \cup {NONE}],
           \A j \in Keys : rowLock[j] # NONE => rowLock'[j] = rowLock[j],
           p = "update" => rowLock'[r.key] = s /\ Exists(r.key) /\ req'[s] = req[s] /\ Changes(s),
           p = "insert" => r.op = "grant" /\ ~r.again,
           r.again => Exists(r.key)
    PROVE  IInv'
  <1>1. /\ spc'[s] = p /\ req'[s] = r
        /\ \A t \in Sessions \ {s} : spc'[t] = spc[t] /\ req'[t] = req[t]
        /\ ConsentTypeOK'
        /\ GrantSurvivesRace'
    BY DEF IInv, ConsentTypeOK, GrantSurvivesRace
  <1>2. UpdatesOwn'
    <2> SUFFICES ASSUME NEW t \in Sessions, spc'[t] = "update"
                 PROVE  (rowLock[req[t].key] = t /\ Exists(req[t].key) /\ Changes(t))'
      BY DEF UpdatesOwn
    <2>1. CASE t = s
      BY <2>1, <1>1 DEF Exists, Changes, Outcome
    <2>2. CASE t # s
      <3>1. spc[t] = "update" /\ req'[t] = req[t] /\ req[t].key \in Keys
        BY <2>2, <1>1 DEF IInv, InsertsOnce, Asked
      <3>2. rowLock[req[t].key] = t /\ Exists(req[t].key) /\ Changes(t)
        BY <3>1 DEF IInv, UpdatesOwn
      <3>3. rowLock'[req[t].key] = t
        BY <3>1, <3>2, ConsentAssumption
      <3> QED BY <3>1, <3>2, <3>3 DEF Exists, Changes, Outcome
    <2> QED BY <2>1, <2>2
  <1>3. InsertsOnce'
    BY <1>1 DEF IInv, InsertsOnce, Exists
  <1> QED BY <1>1, <1>2, <1>3, TablesStand DEF IInv


-----------------------------------------------------------------------------
(* The theorems                                                            *)

\* An empty registry satisfies the invariant.
LEMMA InitIInv == ConsentInit => IInv
  BY ConsentAssumption
     DEF ConsentInit, IInv, ConsentTypeOK, UpdatesOwn, InsertsOnce, HistoryExplainsRow,
         EveryEventChanges, GrantSurvivesRace, Exists, NoConsent, NoRequest, Rows

\* Every step of every handler keeps it.
LEMMA NextIInv == IInv /\ [ConsentNext]_consentVars => IInv'
  <1> SUFFICES ASSUME IInv, [ConsentNext]_consentVars PROVE IInv'
    OBVIOUS
  <1>1. CASE UNCHANGED consentVars
    BY <1>1 DEF consentVars, IInv, ConsentTypeOK, UpdatesOwn, InsertsOnce, HistoryExplainsRow,
                EveryEventChanges, GrantSurvivesRace, Exists, Changes, Outcome, LastEvent
  <1>2. ASSUME NEW s \in Sessions, NEW r \in Requests, Receive(s, r)
        PROVE  IInv'
    <2>1. /\ r \in Asked /\ ~r.again
          /\ spc' = [spc EXCEPT ![s] = "read"]
          /\ req' = [req EXCEPT ![s] = r]
          /\ UNCHANGED <<erased, consents, history, rowLock>>
          /\ rowLock \in [Keys -> Sessions \cup {NONE}]
      BY <1>2 DEF Receive, Requests, IInv, ConsentTypeOK
    <2> QED BY <2>1, MoveKeepsIInv
  <1>3. ASSUME NEW s \in Sessions, ReadForUpdate(s)
        PROVE  IInv'
    <2>1. /\ spc[s] = "read" /\ req[s] \in Asked /\ req[s].key \in Keys
          /\ req[s].again => Exists(req[s].key)
          /\ UNCHANGED <<erased, consents, history>>
          /\ rowLock \in [Keys -> Sessions \cup {NONE}]
          /\ req \in [Sessions -> Asked \cup {NoRequest}]
      BY <1>3 DEF ReadForUpdate, IInv, ConsentTypeOK, InsertsOnce, Asked
    <2>2. CASE Answer(s)
      BY <2>1, <2>2, AnswerKeepsIInv
    <2>3. CASE ~Answer(s)
      <3> PICK r \in Asked : r = req[s]
        BY <2>1
      <3>1. /\ Exists(r.key) /\ rowLock[r.key] = NONE /\ Changes(s)
            /\ spc' = [spc EXCEPT ![s] = "update"]
            /\ rowLock' = [rowLock EXCEPT ![r.key] = s]
            /\ req' = req
        BY <1>3, <2>3 DEF ReadForUpdate, Free
      <3>2. /\ req' = [req EXCEPT ![s] = r]
            /\ rowLock' \in [Keys -> Sessions \cup {NONE}]
            /\ rowLock'[r.key] = s
            /\ \A j \in Keys : rowLock[j] # NONE => rowLock'[j] = rowLock[j]
        BY <2>1, <3>1
      <3> QED BY <2>1, <3>1, <3>2, MoveKeepsIInv
    <2> QED BY <2>2, <2>3
  <1>4. ASSUME NEW s \in Sessions, ReadNothing(s)
        PROVE  IInv'
    <2>1. /\ spc[s] = "read" /\ req[s] \in Asked
          /\ ~req[s].again
          /\ UNCHANGED <<erased, consents, history>>
          /\ rowLock \in [Keys -> Sessions \cup {NONE}]
          /\ req \in [Sessions -> Asked \cup {NoRequest}]
      BY <1>4 DEF ReadNothing, IInv, ConsentTypeOK, InsertsOnce
    <2>2. CASE Answer(s)
      BY <2>1, <2>2, AnswerKeepsIInv
    <2>3. CASE ~Answer(s)
      <3> PICK r \in Asked : r = req[s]
        BY <2>1
      <3>1. /\ r.op = "grant"
            /\ spc' = [spc EXCEPT ![s] = "insert"]
            /\ rowLock' = rowLock /\ req' = [req EXCEPT ![s] = r]
        BY <1>4, <2>1, <2>3 DEF ReadNothing
      <3> QED BY <2>1, <3>1, MoveKeepsIInv
    <2> QED BY <2>2, <2>3
  <1>5. ASSUME NEW s \in Sessions, Update(s)
        PROVE  IInv'
    <2>1. /\ Record(s) /\ req[s] \in Asked /\ Changes(s) /\ Exists(req[s].key)
          /\ rowLock[req[s].key] = s
      BY <1>5 DEF Update, IInv, UpdatesOwn, InsertsOnce
    <2>2. \A t \in Sessions \ {s} : ~(spc[t] = "update" /\ req[t].key = req[s].key)
      BY <2>1 DEF IInv, UpdatesOwn
    <2> QED BY <2>1, <2>2, RecordKeepsIInv
  <1>6. ASSUME NEW s \in Sessions, Insert(s)
        PROVE  IInv'
    <2>1. /\ Record(s) /\ req[s] \in Asked /\ req[s].op = "grant"
          /\ ~Exists(req[s].key)
      BY <1>6 DEF Insert, IInv, InsertsOnce
    <2>2. Changes(s)
      BY <2>1, ConsentAssumption DEF Changes, Outcome, Exists, Status
    <2>3. \A t \in Sessions \ {s} : ~(spc[t] = "update" /\ req[t].key = req[s].key)
      BY <2>1 DEF IInv, UpdatesOwn
    <2> QED BY <2>1, <2>2, <2>3, RecordKeepsIInv
  <1>7. ASSUME NEW s \in Sessions, InsertConflict(s)
        PROVE  IInv'
    <2>1. req[s] \in Asked /\ req[s].op = "grant" /\ ~req[s].again /\ Exists(req[s].key)
      BY <1>7 DEF InsertConflict, IInv, InsertsOnce
    <2> PICK r \in Asked : r = [op |-> "grant", key |-> req[s].key,
                                version |-> req[s].version, again |-> TRUE]
      BY <2>1 DEF Asked
    <2>2. /\ spc' = [spc EXCEPT ![s] = "read"]
          /\ req' = [req EXCEPT ![s] = r]
          /\ UNCHANGED <<erased, consents, history, rowLock>>
          /\ rowLock \in [Keys -> Sessions \cup {NONE}]
          /\ Exists(r.key)
      BY <1>7, <2>1 DEF InsertConflict, IInv, ConsentTypeOK
    <2> QED BY <2>2, MoveKeepsIInv
  <1>8. ASSUME NEW s \in Sessions, Abort(s)
        PROVE  IInv'
    BY <1>8, AnswerKeepsIInv DEF Abort
  <1> QED BY <1>1, <1>2, <1>3, <1>4, <1>5, <1>6, <1>7, <1>8 DEF ConsentNext, Handle

(***************************************************************************)
(* Whatever grants and revokes overlap, the evidence log explains every    *)
(* consent row, holds only events that changed something, and no grant     *)
(* fails because another was first (consent_service.py: grant, revoke).    *)
(***************************************************************************)
THEOREM ConsentIsEvidenced ==
    ConsentSpec => [](HistoryExplainsRow /\ EveryEventChanges /\ GrantSurvivesRace)
  <1>1. IInv => HistoryExplainsRow /\ EveryEventChanges /\ GrantSurvivesRace
    BY DEF IInv
  <1> QED BY <1>1, InitIInv, NextIInv, PTL DEF ConsentSpec

\* However requests repeat and overlap, the last event of a purpose is its
\* state and no event changed nothing (grant, revoke: changed=False).
THEOREM LogStaysEvidence == ConsentSpec => []LogIsEvidence
BY ConsentIsEvidenced, PTL DEF LogIsEvidence

\* A first grant that loses the race for the row is retried on it and not
\* refused (grant, IntegrityError).
THEOREM GrantsWinRaces == ConsentSpec => []GrantSurvivesRace
BY ConsentIsEvidenced, PTL

\* The registry keeps its types (UserConsent, ConsentHistory).
THEOREM ConsentTypes == ConsentSpec => []ConsentTypeOK
  <1>1. IInv => ConsentTypeOK
    BY DEF IInv
  <1> QED BY <1>1, InitIInv, NextIInv, PTL DEF ConsentSpec
=============================================================================
