---------------------------- MODULE ErasureProofs ----------------------------
(***************************************************************************)
(* Proofs about the erasure among consents, gated writes, dispatches and   *)
(* the other writers, for any number of users, purposes, messages and      *)
(* overlapping requests: it misses nothing, nothing is sent or stored      *)
(* without consent, and the evidence log stays evidence.                   *)
(***************************************************************************)
EXTENDS ConsentProofs, Erasure

-----------------------------------------------------------------------------
(* The inductive invariant                                                 *)

Kinds == {"message", "event", "renter", "activity"}

Tables == {"analytics_events", "user_activity", "renters"}

\* Types of the handlers' own variables, and that a handler under way knows
\* for whom it works.
HandlersOK ==
    /\ wreq \in [Writers -> [kind: Kinds, user: Users] \cup {NoWrite}]
    /\ \A w \in Writers : wpc[w] # "idle" => wreq[w] \in [kind: Kinds, user: Users]
    /\ \A w \in Writers : wpc[w] = "gate" => wreq[w].kind \in Gated
    /\ identity \in [Users -> Nat]
    /\ subject \in [Erasers -> [user: Users, anonymized: BOOLEAN] \cup {NoSubject}]
    /\ \A e \in Erasers : epc[e] # "idle" => Subject(e) \in Users
    /\ found \in [Erasers -> [messages: SUBSET Messages, tables: SUBSET Tables,
                              purposes: SUBSET Purposes]]

\* An erasure past FOR UPDATE holds the user's row, and goes on only if the
\* user was not anonymised when it was loaded.
HoldsUser ==
    \A e \in Erasers :
        /\ epc[e] \in {"locked", "erasing"} => userLock[Subject(e)] = e
        /\ epc[e] = "erasing" => ~Repeated(e)

\* What the erasure found is what there is: whoever would add to it waits
\* for the user's row, and a dispatch only changes a message's status.
FoundIsCurrent ==
    \A e \in Erasers :
        epc[e] = "erasing" =>
            /\ found[e].messages = MessagesOf(Subject(e))
            /\ found[e].tables = TablesWith(Subject(e))
            /\ found[e].purposes = GrantedBy(Subject(e))

\* Whoever passed the gate saw the consent while its request was under way,
\* and the messages a dispatch decides on keep their users.
PassedWithConsent ==
    /\ \A a \in Writers \cup Dispatchers : ~Idle(a) => {k \in Keys : Allows(k)} \subseteq seen[a]
    /\ \A w \in Writers :
          wpc[w] = "write" /\ wreq[w].kind \in Gated => CoveringConsent(w) \in seen[w]
    /\ \A d \in Dispatchers, m \in Messages :
          /\ m \in batch[d] => messages[m].status # NONE
          /\ verdict[d][m] = "SENT" =>
                m \in batch[d] /\ <<messages[m].user, MarketingEmail>> \in seen[d]

EInv ==
    /\ IInv
    /\ ErasureTypeOK
    /\ HandlersOK
    /\ HoldsUser
    /\ FoundIsCurrent
    /\ PassedWithConsent

-----------------------------------------------------------------------------
(* The steps                                                               *)

\* Every step is a step of the consent registry, of a writer, of a dispatch
\* or of an erasure, and leaves the others' variables alone.
Step ==
    \/ ConsentNext /\ UNCHANGED <<marketingVars, erasureVars>>
    \/ \E w \in Writers :
          /\ UNCHANGED consentVars
          /\ \/ \E kind \in Kinds, u \in Users : Request(w, kind, u) /\ UNCHANGED erasureVars
             \/ Gate(w) /\ UNCHANGED erasureVars
             \/ \E m \in Messages : InsertMessage(w, m) /\ UNCHANGED erasureVars
             \/ InsertEvent(w) /\ UNCHANGED erasureVars
             \/ WriterAbort(w) /\ UNCHANGED erasureVars
             \/ InsertRenter(w)
             \/ InsertActivity(w)
    \/ \E d \in Dispatchers :
          /\ UNCHANGED <<consentVars, erasureVars>>
          /\ \/ ReadQueue(d)
             \/ \E m \in Messages : Decide(d, m)
             \/ Apply(d)
             \/ DispatchDone(d) /\ UNCHANGED <<messages, events, audit, wpc, wreq>>
    \/ \E e \in Erasers :
          \/ \E u \in Users : Ask(e, u)
          \/ LockUser(e)
          \/ AlreadyAnonymized(e)
          \/ Find(e)
          \/ Erase(e)
          \/ EraserAbort(e)

\* The next-state relation by who moves (api/privacy.py, api/auth.py).
LEMMA StepCases == ErasureNext => Step /\ Witness
  <1> SUFFICES ASSUME ErasureNext PROVE Step /\ Witness
    OBVIOUS
  <1>1. Gated = {"message", "event"}
    BY DEF Gated, PurposeOf
  <1>2. ASSUME NEW w \in Writers, PlainWrite(w) PROVE Step
    BY <1>2 DEF PlainWrite, Step
  <1>3. ASSUME NEW w \in Writers, NEW u \in Users, PlainRequest(w, u), UNCHANGED consentVars
        PROVE  Step
    BY <1>3 DEF PlainRequest, Step, Kinds
  <1>4. ASSUME GatedStep, UNCHANGED <<consentVars, erasureVars>> PROVE Step
    <2>1. ASSUME NEW w \in Writers, NEW kind \in Gated, NEW u \in Users, Request(w, kind, u)
          PROVE  Step
      BY <1>1, <1>4, <2>1 DEF Step, Kinds
    <2>2. ASSUME NEW w \in Writers, Write(w) \/ WriterAbort(w) PROVE Step
      BY <1>4, <2>2 DEF Step, Write
    <2>3. ASSUME NEW d \in Dispatchers, ReadQueue(d) \/ Dispatch(d) \/ DispatchAbort(d)
          PROVE  Step
      BY <1>4, <2>3 DEF Step, Dispatch, ApplyStale, DispatchAbort
    <2> QED BY <1>4, <2>1, <2>2, <2>3 DEF GatedStep
  <1>5. ASSUME MarketingStep, UNCHANGED erasureVars PROVE Step
    BY <1>4, <1>5 DEF MarketingStep, Step
  <1>6. ASSUME NEW e \in Erasers,
               (\E u \in Users : Ask(e, u)) \/ EraseStep(e) \/ EraserAbort(e)
        PROVE  Step
    BY <1>6 DEF EraseStep, Step
  <1> QED BY <1>2, <1>3, <1>5, <1>6 DEF ErasureNext

\* A consent changes only under a request for it, while nobody holds the
\* user's row (grant, revoke); the registry itself erases and locks nobody.
LEMMA ConsentFrame ==
    ASSUME IInv, ConsentNext
    PROVE  /\ erased' = erased /\ userLock' = userLock
           /\ \A k \in Keys : consents'[k] # consents[k] =>
                 /\ userLock[k[1]] = NONE
                 /\ \E s \in Sessions : spc[s] # "idle" /\ req[s].key = k
  <1>1. PICK s \in Sessions : (\E r \in Requests : Receive(s, r)) \/ Handle(s) \/ Abort(s)
    BY DEF ConsentNext
  <1>2. CASE UNCHANGED <<erased, userLock, consents>>
    BY <1>2
  <1>3. CASE spc[s] # "idle" /\ UserFree(req[s].key) /\ Record(s)
    <2>1. req[s] \in Asked /\ req[s].key \in Keys
      BY <1>3 DEF IInv, InsertsOnce, Asked
    <2>2. consents' = [consents EXCEPT ![req[s].key] = Outcome(s)] /\ UNCHANGED <<erased, userLock>>
      BY <1>3 DEF Record
    <2>3. \A k \in Keys : consents'[k] # consents[k] => k = req[s].key
      BY <2>1, <2>2 DEF IInv, ConsentTypeOK
    <2> QED BY <1>3, <2>2, <2>3 DEF UserFree
  <1> QED BY <1>1, <1>2, <1>3
             DEF Receive, Handle, ReadForUpdate, ReadNothing, Update, Insert, InsertConflict, Abort

-----------------------------------------------------------------------------
(* The consent registry under erasures                                     *)

\* The registry's invariant does not speak of the users' locks.
LEMMA IInvStands ==
    ASSUME IInv, UNCHANGED <<erased, consents, history, rowLock, spc, req>>
    PROVE  IInv'
  BY DEF IInv, ConsentTypeOK, UpdatesOwn, InsertsOnce, HistoryExplainsRow, EveryEventChanges,
         GrantSurvivesRace, Exists, Changes, Outcome, LastEvent

\* withdraw_all records one event for each consent it withdraws, and every
\* one of them was granted: the log explains the rows and no event is idle.
LEMMA WithdrawalIsEvidence ==
    ASSUME IInv, NEW u \in Users, NEW ps \in SUBSET Purposes,
           \A p \in ps : consents[<<u, p>>].status = "GRANTED",
           WithdrawAll(u, ps)
    PROVE  /\ consents' \in [Keys -> Rows]
           /\ history' \in [Keys -> Seq(Events)]
           /\ \A k \in Keys : Exists(k) => Exists(k)'
           /\ HistoryExplainsRow'
           /\ EveryEventChanges'
  <1> DEFINE W == {k \in Keys : k[1] = u /\ k[2] \in ps}
             e(k) == [action |-> "REVOKE", version |-> consents[k].version]
  <1>1. ASSUME NEW k \in Keys, k \in W
        PROVE  /\ consents[k].status = "GRANTED"
               /\ consents[k].version \in Versions
               /\ consents'[k] = [status |-> "WITHDRAWN", version |-> consents[k].version]
               /\ history'[k] = Append(history[k], e(k))
               /\ e(k) \in Events
    <2>1. k = <<u, k[2]>>
      BY <1>1 DEF Keys
    <2>2. consents[k].status = "GRANTED"
      BY <1>1, <2>1
    <2>3. consents[k].version \in Versions
      BY <2>2, ConsentAssumption DEF IInv, ConsentTypeOK, Rows, NoConsent, Status
    <2> QED BY <1>1, <2>2, <2>3 DEF WithdrawAll, Events, Actions
  <1>2. ASSUME NEW k \in Keys, k \notin W
        PROVE  consents'[k] = consents[k] /\ history'[k] = history[k]
    BY <1>2 DEF WithdrawAll
  <1> HIDE DEF W
  <1>3. consents' \in [Keys -> Rows]
    <2>1. ASSUME NEW k \in Keys PROVE consents'[k] \in Rows
      <3>1. CASE k \in W
        <4>1. consents[k].version \in Versions
              /\ consents'[k] = [status |-> "WITHDRAWN", version |-> consents[k].version]
          BY <1>1, <3>1
        <4> QED BY <4>1 DEF Rows, Status
      <3>2. CASE k \notin W
        BY <1>2, <3>2 DEF IInv, ConsentTypeOK
      <3> QED BY <3>1, <3>2
    <2> QED BY <2>1 DEF WithdrawAll
  <1>4. ASSUME NEW k \in Keys PROVE history[k] \in Seq(Events)
    BY <1>4 DEF IInv, ConsentTypeOK, Events
  <1>5. history' \in [Keys -> Seq(Events)]
    <2>1. ASSUME NEW k \in Keys PROVE history'[k] \in Seq(Events)
      <3>1. CASE k \in W
        BY <1>1, <1>4, <3>1, AppendFacts
      <3> QED BY <1>2, <1>4, <3>1
    <2> QED BY <2>1 DEF WithdrawAll
  <1>6. \A k \in Keys : Exists(k) => Exists(k)'
    <2> SUFFICES ASSUME NEW k \in Keys, consents[k].status # NONE
                 PROVE  consents'[k].status # NONE
      BY DEF Exists
    <2>1. CASE k \in W
      <3>1. consents'[k] = [status |-> "WITHDRAWN", version |-> consents[k].version]
        BY <1>1, <2>1
      <3> QED BY <3>1, ConsentAssumption DEF Status
    <2>2. CASE k \notin W
      BY <1>2, <2>2
    <2> QED BY <2>1, <2>2
  <1>7. ASSUME NEW k \in Keys, k \in W
        PROVE  /\ history[k] # <<>>
               /\ history[k][Len(history[k])] = [action |-> "GRANT", version |-> consents[k].version]
               /\ Len(history[k]) \in Nat \ {0}
    <2>1. Exists(k)
      BY <1>1, <1>7, ConsentAssumption DEF Exists, Status
    <2>2. history[k] # <<>>
          /\ consents[k] = [status |-> IF LastEvent(k).action = "GRANT" THEN "GRANTED" ELSE "WITHDRAWN",
                            version |-> LastEvent(k).version]
      BY <2>1 DEF IInv, HistoryExplainsRow
    <2>3. Len(history[k]) \in Nat \ {0} /\ LastEvent(k) \in Events
      BY <1>4, <2>2 DEF LastEvent
    <2>4. LastEvent(k).action = "GRANT" /\ LastEvent(k).version = consents[k].version
      <3>1. consents[k].status = "GRANTED"
        BY <1>1, <1>7
      <3> QED BY <2>2, <3>1
    <2> QED BY <2>2, <2>3, <2>4 DEF Events, LastEvent
  <1>8. HistoryExplainsRow'
    <2> SUFFICES ASSUME NEW k \in Keys
                 PROVE  IF history'[k] = <<>> THEN ~(consents'[k].status # NONE)
                        ELSE consents'[k] =
                               [status |-> IF history'[k][Len(history'[k])].action = "GRANT"
                                           THEN "GRANTED" ELSE "WITHDRAWN",
                                version |-> history'[k][Len(history'[k])].version]
      BY DEF HistoryExplainsRow, Exists, LastEvent
    <2>1. CASE k \in W
      <3>1. history'[k] # <<>> /\ history'[k][Len(history'[k])] = e(k)
        <4>1. history[k] \in Seq(Events) /\ e(k) \in Events /\ history'[k] = Append(history[k], e(k))
          BY <1>1, <1>4, <2>1
        <4>2. Append(history[k], e(k)) # <<>>
              /\ Append(history[k], e(k))[Len(Append(history[k], e(k)))] = e(k)
          BY <4>1, AppendFacts
        <4> QED BY <4>1, <4>2
      <3> QED BY <1>1, <2>1, <3>1
    <2>2. CASE k \notin W
      BY <1>2, <2>2 DEF IInv, HistoryExplainsRow, Exists, LastEvent
    <2> QED BY <2>1, <2>2
  <1>9. EveryEventChanges'
    <2> SUFFICES ASSUME NEW k \in Keys
                 PROVE  /\ history'[k] # <<>> => history'[k][1].action = "GRANT"
                        /\ \A i \in 1..(Len(history'[k]) - 1) :
                              /\ history'[k][i] # history'[k][i + 1]
                              /\ history'[k][i + 1].action = "REVOKE" =>
                                    history'[k][i] = [action |-> "GRANT",
                                                      version |-> history'[k][i + 1].version]
      BY DEF EveryEventChanges
    <2>1. CASE k \in W
      <3> DEFINE h == history[k]
                 g == Append(h, e(k))
      <3>1. history'[k] = g
        BY <1>1, <2>1
      <3>2. /\ Len(g) = Len(h) + 1 /\ g[Len(h) + 1] = e(k)
            /\ \A i \in 1..Len(h) : g[i] = h[i]
        BY <1>1, <1>4, <2>1, AppendFacts
      <3>3. g[1].action = "GRANT"
        <4>1. h[1].action = "GRANT"
          <5>1. h # <<>>
            BY <1>7, <2>1
          <5> QED BY <5>1 DEF IInv, EveryEventChanges
        <4>2. 1 \in 1..Len(h)
          <5>1. Len(h) \in Nat \ {0}
            BY <1>7, <2>1
          <5> QED BY <5>1
        <4> QED BY <3>2, <4>1, <4>2
      <3>4. ASSUME NEW i \in 1..(Len(g) - 1)
            PROVE  /\ g[i] # g[i + 1]
                   /\ g[i + 1].action = "REVOKE" =>
                         g[i] = [action |-> "GRANT", version |-> g[i + 1].version]
        <4>1. CASE i = Len(h)
          BY <1>7, <2>1, <3>2, <4>1
        <4>2. CASE i # Len(h)
          <5>1. i \in 1..(Len(h) - 1) /\ g[i] = h[i] /\ g[i + 1] = h[i + 1]
            BY <1>7, <2>1, <3>2, <4>2
          <5> QED BY <5>1 DEF IInv, EveryEventChanges
        <4> QED BY <4>1, <4>2
      <3> QED BY <3>1, <3>3, <3>4
    <2>2. CASE k \notin W
      BY <1>2, <2>2 DEF IInv, EveryEventChanges
    <2> QED BY <2>1, <2>2
  <1> QED BY <1>3, <1>5, <1>6, <1>8, <1>9

\* The erasure keeps the registry's invariant: it waits for whoever holds a
\* row it withdraws, so no update under way loses what it read.
LEMMA EraseKeepsIInv ==
    ASSUME EInv, NEW e \in Erasers, Erase(e)
    PROVE  IInv'
  <1> DEFINE u == Subject(e)
             ps == found[e].purposes
  <1>1. u \in Users /\ ps \in SUBSET Purposes /\ \A p \in ps : consents[<<u, p>>].status = "GRANTED"
    BY DEF Erase, EInv, HandlersOK, FoundIsCurrent, GrantedBy
  <1>2. /\ WithdrawAll(u, ps) /\ UNCHANGED <<rowLock, spc, req>> /\ erased' = erased \cup {u}
        /\ \A p \in ps : rowLock[<<u, p>>] = NONE
    BY DEF Erase, Free
  <1> HIDE DEF u, ps
  <1>3. IInv
    BY DEF EInv
  <1>4. /\ consents' \in [Keys -> Rows]
        /\ history' \in [Keys -> Seq(Events)]
        /\ \A k \in Keys : Exists(k) => Exists(k)'
        /\ HistoryExplainsRow'
        /\ EveryEventChanges'
    BY <1>1, <1>2, <1>3, WithdrawalIsEvidence
  <1>5. ConsentTypeOK' /\ GrantSurvivesRace'
    BY <1>1, <1>2, <1>3, <1>4 DEF IInv, ConsentTypeOK, Events, GrantSurvivesRace
  <1>6. UpdatesOwn'
    <2> SUFFICES ASSUME NEW t \in Sessions, spc'[t] = "update"
                 PROVE  (rowLock[req[t].key] = t /\ Exists(req[t].key) /\ Changes(t))'
      BY DEF UpdatesOwn
    <2> DEFINE k == req[t].key
    <2>1. k \in Keys /\ rowLock[k] = t /\ Exists(k) /\ Changes(t)
      BY <1>2, <1>3 DEF IInv, UpdatesOwn, InsertsOnce, Asked
    <2>2. ~(k[1] = u /\ k[2] \in ps)
      <3>1. k = <<k[1], k[2]>>
        BY <2>1 DEF Keys
      <3> QED BY <1>2, <2>1, <3>1, ConsentAssumption
    <2>3. consents'[k] = consents[k]
      BY <1>2, <2>1, <2>2 DEF WithdrawAll
    <2> QED BY <1>2, <2>1, <2>3 DEF Exists, Changes, Outcome
  <1>7. InsertsOnce'
    <2>1. ASSUME NEW t \in Sessions, req[t].again PROVE req[t].key \in Keys
      <3>1. req[t] \in Asked \/ req[t] = NoRequest
        BY <1>3 DEF IInv, ConsentTypeOK
      <3>2. ~NoRequest.again /\ \A r \in Asked : r.key \in Keys
        BY DEF Asked, NoRequest
      <3> QED BY <2>1, <3>1, <3>2
    <2> QED BY <1>2, <1>3, <1>4, <2>1 DEF IInv, InsertsOnce, Exists
  <1> QED BY <1>4, <1>5, <1>6, <1>7 DEF IInv

\* Nobody breaks the registry's invariant (privacy.py, erasure_service.py).
LEMMA StepKeepsIInv ==
    ASSUME EInv, Step
    PROVE  IInv'
  <1>1. IInv
    BY DEF EInv
  <1>2. CASE ConsentNext
    BY <1>1, <1>2, NextIInv
  <1>3. CASE UNCHANGED <<erased, consents, history, rowLock, spc, req>>
    BY <1>1, <1>3, IInvStands
  <1> QED BY <1>2, <1>3, EraseKeepsIInv
             DEF Step, consentVars, Ask, LockUser, AlreadyAnonymized, Find, EraserAbort

-----------------------------------------------------------------------------
(* Types and locks                                                         *)

\* The consents seen so far stay well typed, whoever moves.
LEMMA WitnessTyped ==
    ASSUME EInv, Witness
    PROVE  seen' \in [Writers \cup Dispatchers -> SUBSET Keys]
  BY DEF Witness, EInv, ErasureTypeOK, MarketingTypeOK

\* A writer's step keeps the types (enqueue_marketing_email,
\* record_analytics_event, create_renter_profile, record_activity).
LEMMA WriterTyped ==
    ASSUME EInv, NEW w \in Writers, UNCHANGED consentVars, Witness, IInv',
           \/ \E kind \in Kinds, u \in Users : Request(w, kind, u) /\ UNCHANGED erasureVars
           \/ Gate(w) /\ UNCHANGED erasureVars
           \/ \E m \in Messages : InsertMessage(w, m) /\ UNCHANGED erasureVars
           \/ InsertEvent(w) /\ UNCHANGED erasureVars
           \/ WriterAbort(w) /\ UNCHANGED erasureVars
           \/ InsertRenter(w)
           \/ InsertActivity(w)
    PROVE  ErasureTypeOK' /\ HandlersOK' /\ HoldsUser'
  <1>1. seen' \in [Writers \cup Dispatchers -> SUBSET Keys] /\ ConsentTypeOK'
    BY WitnessTyped DEF IInv
  <1>2. UNCHANGED <<userLock, identity, epc, subject, found, batch, verdict>>
    BY DEF consentVars, erasureVars, Request, Gate, InsertMessage, InsertEvent, WriterAbort,
           InsertRenter, InsertActivity
  <1>3. HoldsUser'
    BY <1>2 DEF EInv, HoldsUser, Subject, Repeated
  <1>4. /\ messages' \in [Messages -> [user: Users, status: {"QUEUED", "DELETED"} \cup Sent]
                                         \cup {NoMessage}]
        /\ events' \subseteq Users
        /\ renters' \in [Users -> {NONE, "named", "anonymous"}]
        /\ activity' \subseteq Users
    <2>1. wpc[w] = "write" => wreq[w].user \in Users
      BY DEF EInv, HandlersOK
    <2>2. CASE UNCHANGED <<messages, events, renters, activity>>
      BY <2>2 DEF EInv, ErasureTypeOK, MarketingTypeOK
    <2>3. ASSUME NEW m \in Messages, InsertMessage(w, m), UNCHANGED erasureVars
          PROVE  <1>4!:
      BY <2>1, <2>3 DEF InsertMessage, Writes, erasureVars, EInv, ErasureTypeOK, MarketingTypeOK
    <2>4. CASE InsertEvent(w) /\ UNCHANGED erasureVars
      BY <2>1, <2>4 DEF InsertEvent, Writes, erasureVars, EInv, ErasureTypeOK, MarketingTypeOK
    <2>5. CASE InsertRenter(w)
      BY <2>1, <2>5 DEF InsertRenter, Writes, EInv, ErasureTypeOK, MarketingTypeOK
    <2>6. CASE InsertActivity(w)
      BY <2>1, <2>6 DEF InsertActivity, Writes, EInv, ErasureTypeOK, MarketingTypeOK
    <2> QED BY <2>2, <2>3, <2>4, <2>5, <2>6 DEF erasureVars, Request, Gate, WriterAbort
  <1>5. /\ wpc' \in [Writers -> {"idle", "gate", "write"}]
        /\ wreq' \in [Writers -> [kind: Kinds, user: Users] \cup {NoWrite}]
        /\ \A v \in Writers : wpc'[v] # "idle" => wreq'[v] \in [kind: Kinds, user: Users]
        /\ \A v \in Writers : wpc'[v] = "gate" => wreq'[v].kind \in Gated
    <2>1. CASE WriterDone(w)
      BY <2>1 DEF WriterDone, EInv, ErasureTypeOK, MarketingTypeOK, HandlersOK
    <2>2. ASSUME NEW kind \in Kinds, NEW u \in Users, Request(w, kind, u)
          PROVE  <1>5!:
      <3>1. [kind |-> kind, user |-> u] \in [kind: Kinds, user: Users]
        OBVIOUS
      <3> QED BY <2>2, <3>1 DEF Request, EInv, ErasureTypeOK, MarketingTypeOK, HandlersOK
    <2>3. CASE wpc' = [wpc EXCEPT ![w] = "write"] /\ UNCHANGED wreq /\ wpc[w] # "idle"
      BY <2>3 DEF EInv, ErasureTypeOK, MarketingTypeOK, HandlersOK
    <2> QED BY <2>1, <2>2, <2>3
               DEF Gate, InsertMessage, InsertEvent, WriterAbort, InsertRenter, InsertActivity
  <1>6. HandlersOK'
    BY <1>2, <1>5 DEF EInv, HandlersOK, Subject
  <1> QED BY <1>1, <1>2, <1>3, <1>4, <1>5, <1>6 DEF EInv, ErasureTypeOK, MarketingTypeOK

\* A dispatch's step keeps the types (dispatch_pending_marketing).
LEMMA DispatchTyped ==
    ASSUME EInv, NEW d \in Dispatchers, UNCHANGED <<consentVars, erasureVars>>, Witness, IInv',
           \/ ReadQueue(d)
           \/ \E m \in Messages : Decide(d, m)
           \/ Apply(d)
           \/ DispatchDone(d) /\ UNCHANGED <<messages, events, audit, wpc, wreq>>
    PROVE  ErasureTypeOK' /\ HandlersOK' /\ HoldsUser'
  <1>1. seen' \in [Writers \cup Dispatchers -> SUBSET Keys] /\ ConsentTypeOK'
    BY WitnessTyped DEF IInv
  <1>2. UNCHANGED <<userLock, identity, renters, activity, epc, subject, found, events, wpc, wreq>>
    BY DEF consentVars, erasureVars, ReadQueue, Decide, Apply
  <1>3. HoldsUser' /\ HandlersOK'
    BY <1>2 DEF EInv, HoldsUser, HandlersOK, Subject, Repeated
  <1>4. batch' \in [Dispatchers -> SUBSET Messages]
        /\ verdict' \in [Dispatchers -> [Messages -> Sent \cup {NONE}]]
    <2>1. CASE DispatchDone(d)
      BY <2>1 DEF DispatchDone, Undecided, EInv, ErasureTypeOK, MarketingTypeOK
    <2>2. CASE ReadQueue(d)
      BY <2>2 DEF ReadQueue, Queued, EInv, ErasureTypeOK, MarketingTypeOK
    <2>3. ASSUME NEW m \in Messages, Decide(d, m)
          PROVE  <1>4!:
      <3>1. Verdict(m) \in Sent
        BY DEF Verdict, Sent
      <3> QED BY <2>3, <3>1 DEF Decide, EInv, ErasureTypeOK, MarketingTypeOK
    <2> QED BY <2>1, <2>2, <2>3 DEF Apply
  <1>5. messages' \in [Messages -> [user: Users, status: {"QUEUED", "DELETED"} \cup Sent]
                                       \cup {NoMessage}]
    <2>1. CASE UNCHANGED messages
      BY <2>1 DEF EInv, ErasureTypeOK, MarketingTypeOK
    <2>2. CASE Apply(d)
      <3>1. ASSUME NEW m \in Messages
            PROVE  messages'[m] \in [user: Users, status: {"QUEUED", "DELETED"} \cup Sent]
                                        \cup {NoMessage}
        <4>1. CASE m \in batch[d] /\ Row(m)
          <5>1. verdict[d][m] \in Sent
            BY <2>2, <4>1 DEF Apply, Decided, EInv, ErasureTypeOK, MarketingTypeOK
          <5>2. messages[m].user \in Users
            BY <4>1, MarketingAssumption DEF Row, Sent, NoMessage, EInv, ErasureTypeOK, MarketingTypeOK
          <5>3. messages'[m] = [user |-> messages[m].user, status |-> verdict[d][m]]
            BY <2>2, <4>1 DEF Apply
          <5> QED BY <5>1, <5>2, <5>3
        <4>2. CASE ~(m \in batch[d] /\ Row(m))
          BY <2>2, <4>2 DEF Apply, EInv, ErasureTypeOK, MarketingTypeOK
        <4> QED BY <4>1, <4>2
      <3> QED BY <2>2, <3>1 DEF Apply
    <2> QED BY <2>1, <2>2 DEF ReadQueue, Decide
  <1> QED BY <1>1, <1>2, <1>3, <1>4, <1>5 DEF EInv, ErasureTypeOK, MarketingTypeOK

\* An erasure's step keeps the types, and the user's row with whoever locked
\* it (anonymize_user).
LEMMA EraserTyped ==
    ASSUME EInv, NEW e \in Erasers, Witness, IInv',
           \/ \E u \in Users : Ask(e, u)
           \/ LockUser(e)
           \/ AlreadyAnonymized(e)
           \/ Find(e)
           \/ Erase(e)
           \/ EraserAbort(e)
    PROVE  ErasureTypeOK' /\ HandlersOK' /\ HoldsUser'
  <1>1. seen' \in [Writers \cup Dispatchers -> SUBSET Keys] /\ ConsentTypeOK'
    BY WitnessTyped DEF IInv
  <1>2. UNCHANGED <<wpc, wreq, batch, verdict>>
    BY DEF Ask, LockUser, AlreadyAnonymized, Find, Erase, EraserAbort, marketingVars
  <1>3. /\ messages' \in [Messages -> [user: Users, status: {"QUEUED", "DELETED"} \cup Sent]
                                         \cup {NoMessage}]
        /\ events' \subseteq Users
        /\ renters' \in [Users -> {NONE, "named", "anonymous"}]
        /\ activity' \subseteq Users
        /\ identity' \in [Users -> Nat]
    <2>1. CASE UNCHANGED <<messages, events, renters, activity, identity>>
      BY <2>1 DEF EInv, ErasureTypeOK, MarketingTypeOK, HandlersOK
    <2>2. CASE Erase(e)
      <3>1. Subject(e) \in Users
        BY <2>2 DEF Erase, EInv, HandlersOK
      <3>2. [user |-> Subject(e), status |-> "DELETED"]
                \in [user: Users, status: {"QUEUED", "DELETED"} \cup Sent]
        BY <3>1
      <3>3. messages' \in [Messages -> [user: Users, status: {"QUEUED", "DELETED"} \cup Sent]
                                           \cup {NoMessage}]
        BY <2>2, <3>2 DEF Erase, EInv, ErasureTypeOK, MarketingTypeOK
      <3>4. renters' \in [Users -> {NONE, "named", "anonymous"}] /\ identity' \in [Users -> Nat]
        BY <2>2, <3>1 DEF Erase, EInv, ErasureTypeOK, HandlersOK
      <3>5. events' \subseteq Users /\ activity' \subseteq Users
        BY <2>2 DEF Erase, EInv, ErasureTypeOK, MarketingTypeOK
      <3> QED BY <3>3, <3>4, <3>5
    <2> QED BY <2>1, <2>2 DEF Ask, LockUser, AlreadyAnonymized, Find, EraserAbort, marketingVars
  <1>4. /\ userLock' \in [Users -> Erasers \cup {NONE}]
        /\ epc' \in [Erasers -> {"idle", "loaded", "locked", "erasing"}]
        /\ subject' \in [Erasers -> [user: Users, anonymized: BOOLEAN] \cup {NoSubject}]
        /\ found' \in [Erasers -> [messages: SUBSET Messages, tables: SUBSET Tables,
                                   purposes: SUBSET Purposes]]
        /\ \A f \in Erasers : epc'[f] # "idle" => Subject(f)' \in Users
        /\ HoldsUser'
    <2> USE DEF EInv, ErasureTypeOK, HandlersOK, HoldsUser, Subject, Repeated
    <2>1. CASE EraserDone(e)
      <3>1. Nothing \in [messages: SUBSET Messages, tables: SUBSET Tables, purposes: SUBSET Purposes]
        BY DEF Nothing
      <3>2. userLock' \in [Users -> Erasers \cup {NONE}]
            /\ epc' \in [Erasers -> {"idle", "loaded", "locked", "erasing"}]
        BY <2>1 DEF EraserDone
      <3>3. /\ subject' \in [Erasers -> [user: Users, anonymized: BOOLEAN] \cup {NoSubject}]
            /\ found' \in [Erasers -> [messages: SUBSET Messages, tables: SUBSET Tables,
                                       purposes: SUBSET Purposes]]
        BY <2>1, <3>1 DEF EraserDone
      <3>4. /\ epc'[e] = "idle"
            /\ \A f \in Erasers \ {e} : epc'[f] = epc[f] /\ subject'[f] = subject[f]
            /\ \A u \in Users : userLock[u] # e => userLock'[u] = userLock[u]
        BY <2>1 DEF EraserDone
      <3> QED BY <3>2, <3>3, <3>4
    <2>2. ASSUME NEW u \in Users, Ask(e, u)
          PROVE  <1>4!:
      <3>1. [user |-> u, anonymized |-> u \in erased] \in [user: Users, anonymized: BOOLEAN]
        OBVIOUS
      <3>2. UNCHANGED <<userLock, found>>
        BY <2>2 DEF Ask, consentVars
      <3>3. /\ epc' = [epc EXCEPT ![e] = "loaded"]
            /\ subject' = [subject EXCEPT ![e] = [user |-> u, anonymized |-> u \in erased]]
        BY <2>2 DEF Ask
      <3> QED BY <3>1, <3>2, <3>3
    <2>3. CASE LockUser(e)
      <3>1. Subject(e) \in Users /\ userLock[Subject(e)] = NONE
        BY <2>3 DEF LockUser
      <3>2. /\ userLock' = [userLock EXCEPT ![Subject(e)] = e]
            /\ epc' = [epc EXCEPT ![e] = "locked"] /\ UNCHANGED <<subject, found>>
        BY <2>3 DEF LockUser
      <3> QED BY <3>1, <3>2, ErasureAssumption
    <2>4. CASE Find(e)
      <3>1. /\ UNCHANGED <<userLock, subject>> /\ ~Repeated(e) /\ epc[e] = "locked"
            /\ epc' = [epc EXCEPT ![e] = "erasing"]
            /\ found' = [found EXCEPT ![e] = [messages |-> MessagesOf(Subject(e)),
                                              tables |-> TablesWith(Subject(e)),
                                              purposes |-> GrantedBy(Subject(e))]]
        BY <2>4 DEF Find, consentVars
      <3>2. [messages |-> MessagesOf(Subject(e)), tables |-> TablesWith(Subject(e)),
             purposes |-> GrantedBy(Subject(e))]
                \in [messages: SUBSET Messages, tables: SUBSET Tables, purposes: SUBSET Purposes]
        BY DEF MessagesOf, TablesWith, GrantedBy, Tables
      <3>3. found' \in [Erasers -> [messages: SUBSET Messages, tables: SUBSET Tables,
                                    purposes: SUBSET Purposes]]
        BY <3>1, <3>2
      <3> QED BY <3>1, <3>3
    <2> QED BY <2>1, <2>2, <2>3, <2>4 DEF AlreadyAnonymized, Erase, EraserAbort
  <1>5. HandlersOK'
    BY <1>2, <1>3, <1>4 DEF EInv, HandlersOK
  <1>6. \A f \in Erasers : found'[f].messages \subseteq Messages
    BY <1>4
  <1> QED BY <1>1, <1>2, <1>3, <1>4, <1>5, <1>6 DEF EInv, ErasureTypeOK, MarketingTypeOK

\* Everyone keeps the types and the users' locks.
LEMMA StepTyped ==
    ASSUME EInv, Step, Witness, IInv'
    PROVE  ErasureTypeOK' /\ HandlersOK' /\ HoldsUser'
  <1>1. CASE ConsentNext /\ UNCHANGED <<marketingVars, erasureVars>>
    <2>1. userLock' = userLock
      BY <1>1, ConsentFrame DEF EInv
    <2> QED BY <1>1, <2>1, WitnessTyped
               DEF marketingVars, erasureVars, EInv, IInv, ErasureTypeOK, MarketingTypeOK, HandlersOK,
                   HoldsUser, Subject, Repeated
  <1> QED BY <1>1, WriterTyped, DispatchTyped, EraserTyped DEF Step

-----------------------------------------------------------------------------
(* Who writes about a user                                                 *)

\* What the database holds of u, kept apart by kind.
SameData(u) ==
    /\ MessagesOf(u)' = MessagesOf(u)
    /\ TablesWith(u)' = TablesWith(u)
    /\ GrantedBy(u)' = GrantedBy(u)

\* The erasure writes only what it found of its own user (_erase).
LEMMA EraseOthers ==
    ASSUME EInv, NEW e \in Erasers, Erase(e), NEW u \in Users, u # Subject(e)
    PROVE  SameData(u)
  <1>1. Subject(e) \in Users /\ found[e].messages = MessagesOf(Subject(e))
    BY DEF Erase, EInv, HandlersOK, FoundIsCurrent
  <1>2. ASSUME NEW m \in Messages PROVE (m \in MessagesOf(u))' <=> m \in MessagesOf(u)
    <2>1. CASE m \in found[e].messages
      <3>1. messages[m].user = Subject(e) /\ messages'[m] = [user |-> Subject(e), status |-> "DELETED"]
        BY <1>1, <2>1 DEF Erase, MessagesOf
      <3> QED BY <3>1 DEF MessagesOf
    <2>2. CASE m \notin found[e].messages
      <3>1. messages'[m] = messages[m]
        BY <2>2 DEF Erase
      <3> QED BY <3>1 DEF MessagesOf, Row
    <2> QED BY <2>1, <2>2
  <1>3. MessagesOf(u)' = MessagesOf(u)
    BY <1>2 DEF MessagesOf
  <1>4. renters'[u] = renters[u] /\ (u \in activity' <=> u \in activity) /\ (u \in events' <=> u \in events)
    BY <1>1 DEF Erase, EInv, ErasureTypeOK
  <1>5. TablesWith(u)' = TablesWith(u)
    BY <1>4 DEF TablesWith
  <1>6. \A p \in Purposes : consents'[<<u, p>>] = consents[<<u, p>>]
    BY DEF Erase, WithdrawAll, Keys
  <1>7. GrantedBy(u)' = GrantedBy(u)
    BY <1>6 DEF GrantedBy
  <1> QED BY <1>3, <1>5, <1>7 DEF SameData

\* Nothing is written about a user but by its erasure, or by a request of
\* its own while nobody holds its row.
LEMMA WhoWrites ==
    ASSUME EInv, Step, NEW u \in Users
    PROVE  \/ SameData(u)
           \/ userLock[u] = NONE /\ InFlight(u)
           \/ \E e \in Erasers : Erase(e) /\ Subject(e) = u
  <1> DEFINE Goal == \/ SameData(u)
                     \/ userLock[u] = NONE /\ InFlight(u)
                     \/ \E e \in Erasers : Erase(e) /\ Subject(e) = u
  <1>1. ASSUME UNCHANGED <<messages, events, activity, renters, consents>>
        PROVE  SameData(u)
    BY <1>1 DEF SameData, MessagesOf, TablesWith, GrantedBy, Row
  <1>2. CASE ConsentNext /\ UNCHANGED <<marketingVars, erasureVars>>
    <2>1. CASE \A p \in Purposes : consents'[<<u, p>>] = consents[<<u, p>>]
      BY <1>2, <2>1 DEF SameData, MessagesOf, TablesWith, GrantedBy, Row, marketingVars, erasureVars
    <2>2. CASE \E p \in Purposes : consents'[<<u, p>>] # consents[<<u, p>>]
      <3> PICK p \in Purposes : consents'[<<u, p>>] # consents[<<u, p>>]
        BY <2>2
      <3> DEFINE k == <<u, p>>
      <3>1. k \in Keys /\ k[1] = u
        BY DEF Keys
      <3>2. userLock[k[1]] = NONE /\ \E s \in Sessions : spc[s] # "idle" /\ req[s].key = k
        BY <1>2, <3>1, ConsentFrame DEF EInv
      <3> QED BY <3>1, <3>2 DEF InFlight
    <2> QED BY <2>1, <2>2
  <1>3. ASSUME NEW w \in Writers, NEW kind, Writes(w, kind), wreq[w].user = u
        PROVE  userLock[u] = NONE /\ InFlight(u)
    BY <1>3 DEF Writes, InFlight
  <1>4. ASSUME NEW w \in Writers, NEW m \in Messages, InsertMessage(w, m), UNCHANGED consentVars,
               UNCHANGED erasureVars
        PROVE  Goal
    <2>1. CASE wreq[w].user # u
      <3>1. messages[m] = NoMessage /\ messages'[m] = [user |-> wreq[w].user, status |-> "QUEUED"]
            /\ \A n \in Messages \ {m} : messages'[n] = messages[n]
        BY <1>4 DEF InsertMessage, EInv, ErasureTypeOK, MarketingTypeOK
      <3>2. ~Row(m)
        BY <3>1, MarketingAssumption DEF Row, NoMessage, Sent
      <3>3. ASSUME NEW n \in Messages PROVE (n \in MessagesOf(u))' <=> n \in MessagesOf(u)
        BY <2>1, <3>1, <3>2 DEF MessagesOf, Row
      <3>4. MessagesOf(u)' = MessagesOf(u)
        BY <3>3 DEF MessagesOf
      <3> QED BY <1>4, <3>4
                 DEF InsertMessage, SameData, TablesWith, GrantedBy, erasureVars, consentVars
    <2> QED BY <1>3, <1>4, <2>1 DEF InsertMessage
  <1>5. ASSUME NEW w \in Writers, InsertEvent(w), UNCHANGED <<consentVars, erasureVars>>
        PROVE  Goal
    <2>1. CASE wreq[w].user # u
      BY <1>5, <2>1 DEF InsertEvent, SameData, MessagesOf, Row, TablesWith, GrantedBy, erasureVars,
                        consentVars
    <2> QED BY <1>3, <1>5, <2>1 DEF InsertEvent
  <1>6. ASSUME NEW w \in Writers, InsertRenter(w), UNCHANGED consentVars
        PROVE  Goal
    <2>1. CASE wreq[w].user # u
      <3>1. renters'[u] = renters[u]
        BY <1>6, <2>1 DEF InsertRenter, EInv, ErasureTypeOK
      <3> QED BY <1>6, <3>1 DEF InsertRenter, SameData, MessagesOf, Row, TablesWith, GrantedBy,
                                consentVars
    <2> QED BY <1>3, <1>6, <2>1 DEF InsertRenter
  <1>7. ASSUME NEW w \in Writers, InsertActivity(w), UNCHANGED consentVars
        PROVE  Goal
    <2>1. CASE wreq[w].user # u
      BY <1>7, <2>1 DEF InsertActivity, SameData, MessagesOf, Row, TablesWith, GrantedBy, consentVars
    <2> QED BY <1>3, <1>7, <2>1 DEF InsertActivity
  <1>8. ASSUME NEW d \in Dispatchers, Apply(d), UNCHANGED <<consentVars, erasureVars>>
        PROVE  Goal
    <2>1. ASSUME NEW m \in Messages PROVE (m \in MessagesOf(u))' <=> m \in MessagesOf(u)
      <3>1. CASE m \in batch[d] /\ Row(m)
        <4>1. verdict[d][m] \in Sent
          BY <1>8, <3>1 DEF Apply, Decided, EInv, ErasureTypeOK, MarketingTypeOK
        <4>2. messages'[m] = [user |-> messages[m].user, status |-> verdict[d][m]]
          BY <1>8, <3>1 DEF Apply
        <4>3. messages'[m].user = messages[m].user /\ Row(m)'
          BY <4>1, <4>2 DEF Row
        <4> QED BY <3>1, <4>3 DEF MessagesOf
      <3>2. CASE ~(m \in batch[d] /\ Row(m))
        <4>1. messages'[m] = messages[m]
          BY <1>8, <3>2 DEF Apply
        <4> QED BY <4>1 DEF MessagesOf, Row
      <3> QED BY <3>1, <3>2
    <2>2. MessagesOf(u)' = MessagesOf(u)
      BY <2>1 DEF MessagesOf
    <2> QED BY <1>8, <2>2 DEF Apply, SameData, TablesWith, GrantedBy, erasureVars, consentVars
  <1>9. ASSUME NEW e \in Erasers, Erase(e) PROVE Goal
    BY <1>9, EraseOthers
  <1> QED BY <1>1, <1>2, <1>4, <1>5, <1>6, <1>7, <1>8, <1>9
             DEF Step, consentVars, marketingVars, erasureVars, Request, Gate, WriterAbort, ReadQueue,
                 Decide, Ask, LockUser, AlreadyAnonymized, Find, EraserAbort

\* What an erasure found is current until it commits (anonymize_user under
\* the lock of the user's row).
LEMMA StepKeepsFound ==
    ASSUME EInv, Step, HoldsUser'
    PROVE  FoundIsCurrent'
  <1> SUFFICES ASSUME NEW e \in Erasers, epc'[e] = "erasing"
               PROVE  /\ found'[e].messages = MessagesOf(Subject(e))'
                      /\ found'[e].tables = TablesWith(Subject(e))'
                      /\ found'[e].purposes = GrantedBy(Subject(e))'
    BY DEF FoundIsCurrent
  <1>1. CASE Find(e)
    <2>1. UNCHANGED <<messages, events, activity, renters, consents, subject>>
      BY <1>1 DEF Find, consentVars, marketingVars
    <2>2. found'[e] = [messages |-> MessagesOf(Subject(e)), tables |-> TablesWith(Subject(e)),
                       purposes |-> GrantedBy(Subject(e))]
      BY <1>1 DEF Find, EInv, HandlersOK
    <2> QED BY <2>1, <2>2 DEF MessagesOf, TablesWith, GrantedBy, Row, Subject
  <1>2. CASE ~Find(e)
    <2>1. epc[e] = "erasing" /\ found'[e] = found[e] /\ subject'[e] = subject[e] /\ ~Erase(e)
      <3>1. CASE UNCHANGED <<epc, subject, found>>
        BY <3>1 DEF Erase, EraserDone, EInv, ErasureTypeOK
      <3>2. ASSUME NEW f \in Erasers, EraserDone(f)
            PROVE  epc[e] = "erasing" /\ found'[e] = found[e] /\ subject'[e] = subject[e] /\ f # e
        BY <3>2 DEF EraserDone, EInv, ErasureTypeOK, HandlersOK
      <3>3. ASSUME NEW f \in Erasers, NEW u \in Users, Ask(f, u)
            PROVE  epc[e] = "erasing" /\ found'[e] = found[e] /\ subject'[e] = subject[e] /\ f # e
        BY <3>3 DEF Ask, EInv, ErasureTypeOK, HandlersOK
      <3>4. ASSUME NEW f \in Erasers, LockUser(f)
            PROVE  epc[e] = "erasing" /\ found'[e] = found[e] /\ subject'[e] = subject[e] /\ f # e
        BY <3>4 DEF LockUser, EInv, ErasureTypeOK, HandlersOK
      <3>5. ASSUME NEW f \in Erasers, Find(f)
            PROVE  epc[e] = "erasing" /\ found'[e] = found[e] /\ subject'[e] = subject[e] /\ f # e
        BY <1>2, <3>5 DEF Find, EInv, ErasureTypeOK, HandlersOK
      <3>6. Erase(e) => EraserDone(e)
        BY DEF Erase
      <3> QED BY <3>1, <3>2, <3>3, <3>4, <3>5, <3>6
                 DEF Step, erasureVars, InsertRenter, InsertActivity, AlreadyAnonymized, Erase,
                     EraserAbort
    <2> PICK u \in Users : u = Subject(e)
      BY <2>1 DEF EInv, HandlersOK
    <2>2. userLock[u] = e /\ u = Subject(e)'
      BY <2>1 DEF EInv, HoldsUser, Subject
    <2>3. ~\E f \in Erasers : Erase(f) /\ Subject(f) = u
      BY <2>1, <2>2 DEF Erase, EInv, HoldsUser
    <2>4. SameData(u)
      BY <2>2, <2>3, WhoWrites, ErasureAssumption
    <2>5. /\ found[e].messages = MessagesOf(u)
          /\ found[e].tables = TablesWith(u)
          /\ found[e].purposes = GrantedBy(u)
      BY <2>1 DEF EInv, FoundIsCurrent
    <2>6. /\ MessagesOf(Subject(e))' = MessagesOf(u)'
          /\ TablesWith(Subject(e))' = TablesWith(u)'
          /\ GrantedBy(Subject(e))' = GrantedBy(u)'
      BY <2>2 DEF MessagesOf, TablesWith, GrantedBy
    <2> QED BY <2>1, <2>4, <2>5, <2>6 DEF SameData
  <1> QED BY <1>1, <1>2

-----------------------------------------------------------------------------
(* The gate                                                                *)

\* A message keeps its user, also when it is deleted, and its id is not used
\* again.
LEMMA MessagesKept ==
    ASSUME EInv, Step, NEW m \in Messages, messages[m].status # NONE
    PROVE  messages'[m].status # NONE /\ messages'[m].user = messages[m].user
  <1>1. CASE messages' = messages
    BY <1>1
  <1>2. ASSUME NEW w \in Writers, NEW n \in Messages, InsertMessage(w, n)
        PROVE  messages'[m].status # NONE /\ messages'[m].user = messages[m].user
    BY <1>2 DEF InsertMessage, NoMessage, EInv, ErasureTypeOK, MarketingTypeOK
  <1>3. ASSUME NEW d \in Dispatchers, Apply(d)
        PROVE  messages'[m].status # NONE /\ messages'[m].user = messages[m].user
    <2>1. CASE m \in batch[d] /\ Row(m)
      <3>1. messages'[m] = [user |-> messages[m].user, status |-> verdict[d][m]]
            /\ verdict[d][m] # NONE
        BY <1>3, <2>1 DEF Apply, Decided
      <3> QED BY <3>1
    <2>2. CASE ~(m \in batch[d] /\ Row(m))
      BY <1>3, <2>2 DEF Apply
    <2> QED BY <2>1, <2>2
  <1>4. ASSUME NEW e \in Erasers, Erase(e)
        PROVE  messages'[m].status # NONE /\ messages'[m].user = messages[m].user
    <2>1. CASE m \in found[e].messages
      <3>1. messages[m].user = Subject(e)
        BY <1>4, <2>1 DEF Erase, EInv, FoundIsCurrent, MessagesOf
      <3>2. messages'[m] = [user |-> Subject(e), status |-> "DELETED"]
        BY <1>4, <2>1 DEF Erase
      <3> QED BY <3>1, <3>2, MarketingAssumption
    <2>2. CASE m \notin found[e].messages
      BY <1>4, <2>2 DEF Erase
    <2> QED BY <2>1, <2>2
  <1> QED BY <1>1, <1>2, <1>3, <1>4
             DEF Step, marketingVars, Request, Gate, InsertEvent, WriterAbort, InsertRenter,
                 InsertActivity, ReadQueue, Decide, Ask, LockUser, AlreadyAnonymized, Find,
                 EraserAbort

\* A handler still under way has seen what it had seen, and what holds now.
LEMMA SeenGrows ==
    ASSUME EInv, Witness, NEW a \in Writers \cup Dispatchers, ~Idle(a)'
    PROVE  seen[a] \subseteq seen'[a] /\ {k \in Keys : Allows(k)'} \subseteq seen'[a]
  <1>1. seen'[a] = seen[a] \cup {k \in Keys : Allows(k)'}
    BY DEF Witness
  <1> QED BY <1>1

\* A writer past the gate keeps having seen its consent (_require_consent).
LEMMA WritersPass ==
    ASSUME EInv, Step, Witness, HandlersOK', NEW w \in Writers,
           wpc'[w] = "write", wreq'[w].kind \in Gated
    PROVE  CoveringConsent(w)' \in seen'[w]
  <1>1. Idle(w) <=> wpc[w] = "idle"
    BY DEF Idle
  <1>2. ~Idle(w)'
    BY DEF Idle
  <1>3. seen[w] \subseteq seen'[w]
    BY <1>2, SeenGrows
  <1>4. CASE wpc[w] = "write" /\ wreq'[w] = wreq[w]
    <2>1. CoveringConsent(w) \in seen[w]
      BY <1>4 DEF EInv, PassedWithConsent
    <2> QED BY <1>3, <1>4, <2>1 DEF CoveringConsent
  <1>5. CASE Gate(w) /\ wpc[w] = "gate" /\ wreq'[w] = wreq[w] /\ Allows(CoveringConsent(w))
    <2>1. CoveringConsent(w) \in Keys
      <3>1. wreq[w].user \in Users /\ wreq[w].kind \in {"message", "event"}
        BY <1>5 DEF EInv, HandlersOK, Gated, PurposeOf
      <3> QED BY <3>1, MarketingAssumption DEF CoveringConsent, PurposeOf, Keys
    <2>2. {k \in Keys : Allows(k)} \subseteq seen[w]
      BY <1>1, <1>5 DEF EInv, PassedWithConsent
    <2>3. CoveringConsent(w)' = CoveringConsent(w)
      BY <1>5 DEF CoveringConsent
    <2> QED BY <1>3, <1>5, <2>1, <2>2, <2>3
  <1>6. ASSUME NEW v \in Writers, NEW kind \in Kinds, NEW u \in Users, Request(v, kind, u)
        PROVE  wpc[w] = "write" /\ wreq'[w] = wreq[w]
    BY <1>6 DEF Request, EInv, ErasureTypeOK, MarketingTypeOK, HandlersOK
  <1>7. ASSUME NEW v \in Writers, WriterDone(v)
        PROVE  wpc[w] = "write" /\ wreq'[w] = wreq[w]
    BY <1>7 DEF WriterDone, EInv, ErasureTypeOK, MarketingTypeOK, HandlersOK
  <1>8. ASSUME NEW v \in Writers, Gate(v), ~WriterDone(v)
        PROVE  \/ wpc[w] = "write" /\ wreq'[w] = wreq[w]
               \/ v = w /\ wpc[w] = "gate" /\ wreq'[w] = wreq[w] /\ Allows(CoveringConsent(w))
    BY <1>8 DEF Gate, EInv, ErasureTypeOK, MarketingTypeOK
  <1>9. CASE UNCHANGED <<wpc, wreq>>
    BY <1>4, <1>9
  <1> QED BY <1>4, <1>5, <1>6, <1>7, <1>8, <1>9
             DEF Step, marketingVars, InsertMessage, InsertEvent, WriterAbort, InsertRenter,
                 InsertActivity, ReadQueue, Decide, Apply, Ask, LockUser, AlreadyAnonymized,
                 Find, Erase, EraserAbort

\* A dispatch has seen the consent of every message it decided to send
\* (_verdict), and no message it read vanishes without a trace.
LEMMA VerdictsPass ==
    ASSUME EInv, Step, Witness, NEW d \in Dispatchers, NEW m \in Messages
    PROVE  /\ m \in batch'[d] => messages'[m].status # NONE
           /\ verdict'[d][m] = "SENT" =>
                 m \in batch'[d] /\ <<messages'[m].user, MarketingEmail>> \in seen'[d]
  <1>1. d \notin Writers
    BY MarketingAssumption
  <1>2. ASSUME m \in batch'[d] PROVE seen[d] \subseteq seen'[d]
    <2>1. ~Idle(d)'
      BY <1>1, <1>2 DEF Idle
    <2> QED BY <2>1, SeenGrows
  <1>3. CASE batch'[d] = batch[d] /\ verdict'[d][m] = verdict[d][m]
    BY <1>2, <1>3, MessagesKept DEF EInv, PassedWithConsent
  <1>4. CASE batch'[d] = {} /\ verdict'[d] = Undecided
    BY <1>4, MarketingAssumption DEF Undecided
  <1>5. CASE ReadQueue(d)
    <2>1. batch[d] = {} /\ batch'[d] = Queued /\ UNCHANGED <<messages, verdict>>
      BY <1>5 DEF ReadQueue, EInv, ErasureTypeOK, MarketingTypeOK
    <2>2. verdict'[d][m] # "SENT"
      BY <2>1 DEF EInv, PassedWithConsent
    <2>3. m \in Queued => messages[m].status # NONE
      BY MarketingAssumption DEF Queued
    <2> QED BY <2>1, <2>2, <2>3
  <1>6. CASE Decide(d, m)
    <2>1. /\ m \in batch[d] /\ UNCHANGED <<messages, batch>> /\ verdict'[d][m] = Verdict(m)
      BY <1>6 DEF Decide, EInv, ErasureTypeOK, MarketingTypeOK
    <2>2. messages[m].status # NONE /\ messages[m].user \in Users
      <3>1. messages[m].status # NONE
        BY <2>1 DEF EInv, PassedWithConsent
      <3>2. messages[m] \in [user: Users, status: {"QUEUED", "DELETED"} \cup Sent] \cup {NoMessage}
        BY DEF EInv, ErasureTypeOK, MarketingTypeOK
      <3> QED BY <3>1, <3>2 DEF NoMessage
    <2>3. ASSUME verdict'[d][m] = "SENT"
          PROVE  <<messages[m].user, MarketingEmail>> \in seen[d]
      <3>1. Allows(<<messages[m].user, MarketingEmail>>)
        BY <2>1, <2>3 DEF Verdict, Consented
      <3>2. <<messages[m].user, MarketingEmail>> \in Keys
        BY <2>2, MarketingAssumption DEF Keys
      <3>3. ~Idle(d)
        BY <1>1, <2>1 DEF Idle
      <3> QED BY <3>1, <3>2, <3>3 DEF EInv, PassedWithConsent
    <2> QED BY <1>2, <2>1, <2>2, <2>3
  <1>7. ASSUME NEW f \in Dispatchers, DispatchDone(f)
        PROVE  \/ batch'[d] = batch[d] /\ verdict'[d][m] = verdict[d][m]
               \/ batch'[d] = {} /\ verdict'[d] = Undecided
    BY <1>7 DEF DispatchDone, EInv, ErasureTypeOK, MarketingTypeOK
  <1>8. ASSUME NEW f \in Dispatchers, ReadQueue(f), f # d
        PROVE  batch'[d] = batch[d] /\ verdict'[d][m] = verdict[d][m]
    BY <1>8 DEF ReadQueue, EInv, ErasureTypeOK, MarketingTypeOK
  <1>9. ASSUME NEW f \in Dispatchers, NEW n \in Messages, Decide(f, n), f # d \/ n # m
        PROVE  batch'[d] = batch[d] /\ verdict'[d][m] = verdict[d][m]
    BY <1>9 DEF Decide, EInv, ErasureTypeOK, MarketingTypeOK
  <1>10. CASE UNCHANGED <<batch, verdict>>
    BY <1>3, <1>10
  <1> QED BY <1>3, <1>4, <1>5, <1>6, <1>7, <1>8, <1>9, <1>10
             DEF Step, marketingVars, Request, Gate, InsertMessage, InsertEvent, WriterAbort,
                 InsertRenter, InsertActivity, Apply, Ask, LockUser, AlreadyAnonymized, Find,
                 Erase, EraserAbort

-----------------------------------------------------------------------------
(* The invariant holds                                                     *)

\* An empty database, with nobody at work, satisfies the invariant.
LEMMA InitEInv == ErasureInit => EInv
  <1> SUFFICES ASSUME ErasureInit PROVE EInv
    OBVIOUS
  <1>1. IInv
    BY InitIInv DEF ErasureInit, MarketingInit
  <1>2. ErasureTypeOK /\ HandlersOK
    <2>1. MarketingTypeOK
      BY <1>1 DEF IInv, ErasureInit, MarketingInit, MarketingTypeOK, Undecided
    <2>2. Nothing \in [messages: SUBSET Messages, tables: SUBSET Tables, purposes: SUBSET Purposes]
      BY DEF Nothing
    <2>3. ErasureTypeOK
      BY <2>1, <2>2 DEF ErasureInit, MarketingInit, ConsentInit, ErasureTypeOK
    <2>4. HandlersOK
      BY <2>2 DEF ErasureInit, MarketingInit, HandlersOK
    <2> QED BY <2>3, <2>4
  <1>3. HoldsUser /\ FoundIsCurrent
    BY DEF ErasureInit, HoldsUser, FoundIsCurrent
  <1>4. PassedWithConsent
    BY MarketingAssumption DEF ErasureInit, MarketingInit, PassedWithConsent, Idle, Undecided
  <1> QED BY <1>1, <1>2, <1>3, <1>4 DEF EInv

\* Every step of every handler keeps it.
LEMMA NextEInv == EInv /\ [ErasureNext]_allVars => EInv'
  <1> SUFFICES ASSUME EInv, [ErasureNext]_allVars PROVE EInv'
    OBVIOUS
  <1>1. CASE UNCHANGED allVars
    <2>1. IInv'
      BY <1>1, IInvStands DEF EInv, allVars, vars, consentVars
    <2>2. ErasureTypeOK' /\ HandlersOK' /\ HoldsUser'
      BY <1>1, <2>1
         DEF EInv, IInv, allVars, vars, consentVars, marketingVars, erasureVars, ErasureTypeOK,
             MarketingTypeOK, HandlersOK, HoldsUser, Subject, Repeated
    <2>3. FoundIsCurrent'
      BY <1>1 DEF EInv, allVars, vars, consentVars, marketingVars, erasureVars, FoundIsCurrent,
                  MessagesOf, TablesWith, GrantedBy, Row, Subject
    <2>4. PassedWithConsent'
      BY <1>1 DEF EInv, allVars, vars, consentVars, marketingVars, PassedWithConsent, Idle, Allows,
                  CoveringConsent
    <2> QED BY <2>1, <2>2, <2>3, <2>4 DEF EInv
  <1>2. CASE ErasureNext
    <2>1. Step /\ Witness
      BY <1>2, StepCases
    <2>2. IInv'
      BY <2>1, StepKeepsIInv
    <2>3. ErasureTypeOK' /\ HandlersOK' /\ HoldsUser'
      BY <2>1, <2>2, StepTyped
    <2>4. FoundIsCurrent'
      BY <2>1, <2>3, StepKeepsFound
    <2>5. PassedWithConsent'
      <3>1. ASSUME NEW a \in Writers \cup Dispatchers, ~Idle(a)'
            PROVE  {k \in Keys : Allows(k)'} \subseteq seen'[a]
        BY <2>1, <3>1, SeenGrows
      <3>2. ASSUME NEW w \in Writers, wpc'[w] = "write", wreq'[w].kind \in Gated
            PROVE  CoveringConsent(w)' \in seen'[w]
        BY <2>1, <2>3, <3>2, WritersPass
      <3>3. ASSUME NEW d \in Dispatchers, NEW m \in Messages
            PROVE  /\ m \in batch'[d] => messages'[m].status # NONE
                   /\ verdict'[d][m] = "SENT" =>
                         m \in batch'[d] /\ <<messages'[m].user, MarketingEmail>> \in seen'[d]
        BY <2>1, VerdictsPass
      <3> QED BY <3>1, <3>2, <3>3 DEF PassedWithConsent
    <2> QED BY <2>2, <2>3, <2>4, <2>5 DEF EInv
  <1> QED BY <1>1, <1>2

-----------------------------------------------------------------------------
(* The theorems                                                            *)

\* The invariant, for any number of overlapping requests.
THEOREM ErasureInvariant == ErasureSpec => []EInv
  BY InitEInv, NextEInv, PTL DEF ErasureSpec

\* Rows, locks and requests keep their types (models, privacy.py).
THEOREM ErasureTypes == ErasureSpec => []ErasureTypeOK
  <1>1. EInv => ErasureTypeOK
    BY DEF EInv
  <1> QED BY <1>1, ErasureInvariant, PTL

(***************************************************************************)
(* The evidence log stays evidence also when erasures withdraw consents    *)
(* among grants and revokes (grant, revoke, withdraw_all).                 *)
(***************************************************************************)
THEOREM ErasureKeepsEvidence == ErasureSpec => []LogIsEvidence
  <1>1. EInv => LogIsEvidence
    BY DEF EInv, IInv, LogIsEvidence
  <1> QED BY <1>1, ErasureInvariant, PTL

\* No grant fails because another was first, erasures or not (grant,
\* IntegrityError).
THEOREM ErasureKeepsGrants == ErasureSpec => []GrantSurvivesRace
  <1>1. EInv => GrantSurvivesRace
    BY DEF EInv, IInv
  <1> QED BY <1>1, ErasureInvariant, PTL

\* The erasure leaves nothing of the user it commits for (_erase).
LEMMA EraseBares ==
    ASSUME EInv, NEW e \in Erasers, Erase(e), NEW u \in Users, u = Subject(e)
    PROVE  MessagesOf(u)' = {} /\ TablesWith(u)' = {} /\ GrantedBy(u)' = {}
  <1>1. /\ found[e].messages = MessagesOf(u)
        /\ found[e].tables = TablesWith(u)
        /\ found[e].purposes = GrantedBy(u)
    BY DEF Erase, EInv, FoundIsCurrent
  <1>2. ASSUME NEW m \in Messages PROVE ~(m \in MessagesOf(u))'
    <2>1. CASE m \in MessagesOf(u)
      <3>1. messages'[m] = [user |-> u, status |-> "DELETED"]
        BY <1>1, <2>1 DEF Erase
      <3> QED BY <3>1 DEF MessagesOf, Row, Sent
    <2>2. CASE m \notin MessagesOf(u)
      <3>1. messages'[m] = messages[m]
        BY <1>1, <2>2 DEF Erase
      <3> QED BY <2>2, <3>1 DEF MessagesOf, Row
    <2> QED BY <2>1, <2>2
  <1>3. MessagesOf(u)' = {}
    BY <1>2 DEF MessagesOf
  <1>4. u \notin events' /\ u \notin activity' /\ renters'[u] # "named"
    <2>1. /\ "analytics_events" \in found[e].tables <=> u \in events
          /\ "user_activity" \in found[e].tables <=> u \in activity
          /\ "renters" \in found[e].tables <=> renters[u] = "named"
      BY <1>1 DEF TablesWith
    <2> QED BY <2>1 DEF Erase, EInv, ErasureTypeOK
  <1>5. TablesWith(u)' = {}
    BY <1>4 DEF TablesWith
  <1>6. ASSUME NEW p \in Purposes PROVE consents'[<<u, p>>].status # "GRANTED"
    <2>1. CASE p \in GrantedBy(u)
      BY <1>1, <2>1 DEF Erase, WithdrawAll, Keys
    <2>2. CASE p \notin GrantedBy(u)
      <3>1. consents'[<<u, p>>] = consents[<<u, p>>]
        BY <1>1, <2>2 DEF Erase, WithdrawAll, Keys
      <3> QED BY <2>2, <3>1 DEF GrantedBy
    <2> QED BY <2>1, <2>2
  <1>7. GrantedBy(u)' = {}
    BY <1>6 DEF GrantedBy
  <1> QED BY <1>3, <1>5, <1>7

\* Only an erasure's commit anonymises, and only its own user.
LEMMA OnlyEraseErases ==
    ASSUME EInv, Step
    PROVE  \/ UNCHANGED <<erased, identity>>
           \/ \E e \in Erasers : /\ Erase(e)
                                 /\ erased' = erased \cup {Subject(e)}
                                 /\ \A u \in Users : u # Subject(e) => identity'[u] = identity[u]
  <1>1. CASE ConsentNext /\ UNCHANGED <<marketingVars, erasureVars>>
    BY <1>1, ConsentFrame DEF EInv, erasureVars
  <1>2. ASSUME NEW e \in Erasers, Erase(e)
        PROVE  /\ erased' = erased \cup {Subject(e)}
               /\ \A u \in Users : u # Subject(e) => identity'[u] = identity[u]
    BY <1>2 DEF Erase, EInv, HandlersOK
  <1> QED BY <1>1, <1>2
             DEF Step, consentVars, erasureVars, InsertRenter, InsertActivity, Ask, LockUser,
                 AlreadyAnonymized, Find, EraserAbort

(***************************************************************************)
(* However many erasures, grants, revokes, writers and dispatches overlap, *)
(* an erasure that commits leaves nothing of its user (anonymize_user).    *)
(***************************************************************************)
THEOREM ErasureMissesNothing == ErasureSpec => EraseMissesNothing
  <1>1. ASSUME EInv, [ErasureNext]_allVars
        PROVE  [\A u \in erased' \ erased : Holdings(u)' = {}]_allVars
    <2> SUFFICES ASSUME ErasureNext, NEW u \in erased' \ erased PROVE Holdings(u)' = {}
      BY <1>1
    <2>1. PICK e \in Erasers : Erase(e) /\ u = Subject(e)
      BY <1>1, StepCases, OnlyEraseErases
    <2>2. u \in Users
      BY <1>1, <2>1 DEF Erase, EInv, HandlersOK
    <2>3. MessagesOf(u)' = {} /\ TablesWith(u)' = {} /\ GrantedBy(u)' = {}
      BY <1>1, <2>1, <2>2, EraseBares
    <2> QED BY <2>3 DEF Holdings
  <1> QED BY <1>1, ErasureInvariant, PTL DEF ErasureSpec, EraseMissesNothing

(***************************************************************************)
(* However grants, revokes and erasures come in between, nothing is sent,  *)
(* queued or recorded without a consent that held while its request was    *)
(* under way (ConsentPolicyGate).                                          *)
(***************************************************************************)
THEOREM NothingWithoutConsent == ErasureSpec => ActedWithConsent
  <1>1. ASSUME EInv, Step PROVE ConsentedSend
    <2> SUFFICES ASSUME NEW m \in Messages, TurnsSent(m)
                 PROVE  \E d \in Dispatchers :
                            m \in batch[d] /\ <<messages[m].user, MarketingEmail>> \in seen[d]
      BY DEF ConsentedSend
    <2>1. messages'[m].status = "SENT" /\ messages[m].status # "SENT"
      BY DEF TurnsSent
    <2>2. ASSUME NEW d \in Dispatchers, Apply(d)
          PROVE  m \in batch[d] /\ verdict[d][m] = "SENT"
      <3>1. CASE m \in batch[d] /\ Row(m)
        BY <2>1, <2>2, <3>1 DEF Apply
      <3>2. CASE ~(m \in batch[d] /\ Row(m))
        BY <2>1, <2>2, <3>2 DEF Apply
      <3> QED BY <3>1, <3>2
    <2>3. ASSUME NEW w \in Writers, NEW n \in Messages, InsertMessage(w, n) PROVE FALSE
      BY <1>1, <2>1, <2>3 DEF InsertMessage, EInv, ErasureTypeOK, MarketingTypeOK
    <2>4. ASSUME NEW e \in Erasers, Erase(e) PROVE FALSE
      <3>1. messages'[m].status = "DELETED" \/ messages'[m] = messages[m]
        BY <2>4 DEF Erase
      <3> QED BY <2>1, <3>1
    <2>5. ~UNCHANGED messages
      BY <2>1
    <2>6. \E d \in Dispatchers : Apply(d)
      BY <1>1, <2>3, <2>4, <2>5
         DEF Step, marketingVars, Request, Gate, InsertEvent, WriterAbort, InsertRenter,
             InsertActivity, ReadQueue, Decide, Ask, LockUser, AlreadyAnonymized, Find, EraserAbort
    <2> QED BY <1>1, <2>2, <2>6 DEF EInv, PassedWithConsent
  <1>2. ASSUME EInv, Step PROVE ConsentedWrite
    <2>1. ASSUME NEW m \in Messages, messages[m] = NoMessage, messages'[m] # NoMessage
          PROVE  \E w \in Writers : <<messages'[m].user, MarketingEmail>> \in seen[w]
      <3>1. ASSUME NEW w \in Writers, NEW n \in Messages, InsertMessage(w, n)
            PROVE  <<messages'[m].user, MarketingEmail>> \in seen[w]
        <4>1. m = n
          BY <1>2, <2>1, <3>1 DEF InsertMessage, EInv, ErasureTypeOK, MarketingTypeOK
        <4>2. messages'[m].user = wreq[w].user /\ wpc[w] = "write" /\ wreq[w].kind = "message"
          BY <1>2, <3>1, <4>1 DEF InsertMessage, Writes, EInv, ErasureTypeOK, MarketingTypeOK
        <4>3. CoveringConsent(w) \in seen[w]
          BY <1>2, <4>2 DEF EInv, PassedWithConsent, Gated, PurposeOf
        <4>4. CoveringConsent(w) = <<wreq[w].user, MarketingEmail>>
          BY <4>2 DEF CoveringConsent, PurposeOf
        <4> QED BY <4>2, <4>3, <4>4
      <3>2. ~Row(m) /\ messages[m].status = NONE
        BY <2>1, MarketingAssumption DEF Row, NoMessage, Sent
      <3>3. ASSUME NEW d \in Dispatchers, Apply(d) PROVE FALSE
        BY <2>1, <3>2, <3>3 DEF Apply
      <3>4. ASSUME NEW e \in Erasers, Erase(e) PROVE FALSE
        <4>1. m \notin found[e].messages
          BY <1>2, <3>2, <3>4 DEF Erase, EInv, FoundIsCurrent, MessagesOf
        <4> QED BY <2>1, <3>4, <4>1 DEF Erase
      <3>5. \E w \in Writers, n \in Messages : InsertMessage(w, n)
        BY <1>2, <2>1, <3>3, <3>4
           DEF Step, marketingVars, Request, Gate, InsertEvent, WriterAbort, InsertRenter,
               InsertActivity, ReadQueue, Decide, Ask, LockUser, AlreadyAnonymized, Find, EraserAbort
      <3> QED BY <3>1, <3>5
    <2>2. ASSUME NEW u \in events' \ events
          PROVE  \E w \in Writers : <<u, OptionalAnalytics>> \in seen[w]
      <3>1. ASSUME NEW w \in Writers, InsertEvent(w)
            PROVE  <<u, OptionalAnalytics>> \in seen[w]
        <4>1. u = wreq[w].user /\ wpc[w] = "write" /\ wreq[w].kind = "event"
          BY <2>2, <3>1 DEF InsertEvent, Writes
        <4>2. CoveringConsent(w) \in seen[w]
          BY <1>2, <4>1 DEF EInv, PassedWithConsent, Gated, PurposeOf
        <4>3. CoveringConsent(w) = <<wreq[w].user, OptionalAnalytics>>
          BY <4>1 DEF CoveringConsent, PurposeOf
        <4> QED BY <4>1, <4>2, <4>3
      <3>2. ASSUME NEW e \in Erasers, Erase(e) PROVE FALSE
        BY <2>2, <3>2 DEF Erase
      <3>3. \E w \in Writers : InsertEvent(w)
        BY <1>2, <2>2, <3>2
           DEF Step, marketingVars, Request, Gate, InsertMessage, WriterAbort, InsertRenter,
               InsertActivity, ReadQueue, Decide, Apply, Ask, LockUser, AlreadyAnonymized, Find,
               EraserAbort
      <3> QED BY <3>1, <3>3
    <2> QED BY <2>1, <2>2 DEF ConsentedWrite
  <1>3. ASSUME EInv, [ErasureNext]_allVars PROVE [ConsentedSend /\ ConsentedWrite]_vars
    BY <1>1, <1>2, <1>3, StepCases DEF allVars
  <1> QED BY <1>3, ErasureInvariant, PTL DEF ErasureSpec, ActedWithConsent

-----------------------------------------------------------------------------
(* With one dispatch at a time                                             *)

\* A dispatch under way finds its batch untouched: only its own Apply marks
\* messages SENT or SKIPPED, and that ends it (dispatch_pending_marketing).
LEMMA StepKeepsBatch ==
    ASSUME \A d, f \in Dispatchers : d = f, EInv, Step, BatchUntouched
    PROVE  BatchUntouched'
  <1> SUFFICES ASSUME NEW d \in Dispatchers, NEW m \in batch'[d]
               PROVE  messages'[m].status \in {"QUEUED", "DELETED"}
    BY DEF BatchUntouched
  <1>1. CASE batch' = batch /\ messages' = messages
    BY <1>1 DEF BatchUntouched
  <1>2. ASSUME NEW f \in Dispatchers, DispatchDone(f) PROVE FALSE
    BY <1>2 DEF DispatchDone, EInv, ErasureTypeOK, MarketingTypeOK
  <1>3. ASSUME NEW f \in Dispatchers, ReadQueue(f)
        PROVE  messages'[m].status \in {"QUEUED", "DELETED"}
    BY <1>3 DEF ReadQueue, Queued, EInv, ErasureTypeOK, MarketingTypeOK
  <1>4. ASSUME NEW w \in Writers, NEW n \in Messages, InsertMessage(w, n)
        PROVE  messages'[m].status \in {"QUEUED", "DELETED"}
    BY <1>4 DEF InsertMessage, BatchUntouched, EInv, ErasureTypeOK, MarketingTypeOK
  <1>5. ASSUME NEW e \in Erasers, Erase(e)
        PROVE  messages'[m].status \in {"QUEUED", "DELETED"}
    <2>1. m \in batch[d] /\ m \in Messages
      BY <1>5 DEF Erase, EInv, ErasureTypeOK, MarketingTypeOK
    <2>2. messages'[m] = messages[m] \/ messages'[m].status = "DELETED"
      BY <1>5, <2>1 DEF Erase
    <2> QED BY <2>1, <2>2 DEF BatchUntouched
  <1> QED BY <1>1, <1>2, <1>3, <1>4, <1>5
             DEF Step, marketingVars, Request, Gate, InsertEvent, WriterAbort, InsertRenter,
                 InsertActivity, Decide, Apply, Ask, LockUser, AlreadyAnonymized, Find, EraserAbort

\* The invariant and an untouched batch are preserved together.
LEMMA NextBatch ==
    ASSUME \A d, f \in Dispatchers : d = f
    PROVE  EInv /\ BatchUntouched /\ [ErasureNext]_allVars => (EInv /\ BatchUntouched)'
  <1> SUFFICES ASSUME EInv, BatchUntouched, [ErasureNext]_allVars PROVE BatchUntouched'
    BY NextEInv
  <1>1. CASE UNCHANGED allVars
    BY <1>1 DEF allVars, vars, marketingVars, BatchUntouched
  <1>2. CASE ErasureNext
    BY <1>2, StepCases, StepKeepsBatch
  <1> QED BY <1>1, <1>2

(***************************************************************************)
(* With one dispatch at a time, whatever else is under way and however     *)
(* many erasures delete from its queue, a dispatch has touched nothing it  *)
(* read until it applies all its verdicts at once                          *)
(* (dispatch_pending_marketing: "a gate failure midway leaves every        *)
(* message untouched").                                                    *)
(***************************************************************************)
THEOREM DispatchDecidesFirst ==
    ASSUME \A d, f \in Dispatchers : d = f
    PROVE  ErasureSpec => []ErasureInv
  <1>1. ErasureInit => EInv /\ BatchUntouched
    BY InitEInv DEF ErasureInit, MarketingInit, BatchUntouched
  <1>2. EInv /\ BatchUntouched /\ [ErasureNext]_allVars => (EInv /\ BatchUntouched)'
    BY NextBatch
  <1>3. EInv /\ BatchUntouched => ErasureInv
    BY DEF EInv, ErasureInv
  <1> QED BY <1>1, <1>2, <1>3, PTL DEF ErasureSpec

\* With one dispatch at a time a message that was sent or skipped is never
\* processed again; only an erasure still deletes it (_decide_queue).
THEOREM NothingProcessedTwice ==
    ASSUME \A d, f \in Dispatchers : d = f
    PROVE  ErasureSpec => ProcessedOnce
  <1>1. ASSUME EInv, BatchUntouched, [ErasureNext]_allVars
        PROVE  [\A m \in Messages : messages[m].status \in Sent =>
                   messages'[m].status \in {messages[m].status, "DELETED"}]_vars
    <2> SUFFICES ASSUME ErasureNext, NEW m \in Messages, messages[m].status \in Sent
                 PROVE  messages'[m].status \in {messages[m].status, "DELETED"}
      BY <1>1 DEF allVars
    <2>1. Step
      BY StepCases
    <2>2. ASSUME NEW d \in Dispatchers, Apply(d) PROVE messages'[m] = messages[m]
      <3>1. m \notin batch[d]
        BY <1>1 DEF BatchUntouched, Sent
      <3> QED BY <2>2, <3>1 DEF Apply
    <2>3. ASSUME NEW w \in Writers, NEW n \in Messages, InsertMessage(w, n)
          PROVE  messages'[m] = messages[m]
      <3>1. messages[n].status = NONE
        BY <2>3 DEF InsertMessage, NoMessage
      <3>2. n # m
        BY <3>1, MarketingAssumption DEF Sent
      <3> QED BY <1>1, <2>3, <3>2 DEF InsertMessage, EInv, ErasureTypeOK, MarketingTypeOK
    <2>4. ASSUME NEW e \in Erasers, Erase(e)
          PROVE  messages'[m] = messages[m] \/ messages'[m].status = "DELETED"
      BY <2>4 DEF Erase
    <2> QED BY <2>1, <2>2, <2>3, <2>4
               DEF Step, marketingVars, Request, Gate, InsertEvent, WriterAbort, InsertRenter,
                   InsertActivity, ReadQueue, Decide, Ask, LockUser, AlreadyAnonymized, Find,
                   EraserAbort
  <1>2. ErasureInit => EInv /\ BatchUntouched
    BY InitEInv DEF ErasureInit, MarketingInit, BatchUntouched
  <1>3. EInv /\ BatchUntouched /\ [ErasureNext]_allVars => (EInv /\ BatchUntouched)'
    BY NextBatch
  <1> QED BY <1>1, <1>2, <1>3, PTL DEF ErasureSpec, ProcessedOnce

-----------------------------------------------------------------------------
(* With one erasure at a time                                              *)

\* What the session loaded of the user still says whether it is anonymised.
LoadedIsCurrent ==
    \A e \in Erasers : epc[e] # "idle" => (Repeated(e) <=> Subject(e) \in erased)

\* Nobody else anonymises meanwhile, and the erasure that does is over.
LEMMA NextLoaded ==
    ASSUME \A e, f \in Erasers : e = f
    PROVE  EInv /\ LoadedIsCurrent /\ [ErasureNext]_allVars => (EInv /\ LoadedIsCurrent)'
  <1> SUFFICES ASSUME EInv, LoadedIsCurrent, [ErasureNext]_allVars PROVE LoadedIsCurrent'
    BY NextEInv
  <1>1. CASE UNCHANGED <<erased, epc, subject>>
    BY <1>1 DEF LoadedIsCurrent, Repeated, Subject
  <1>2. CASE Step
    <2>1. ASSUME NEW e \in Erasers, EraserDone(e) PROVE LoadedIsCurrent'
      BY <2>1 DEF EraserDone, LoadedIsCurrent, EInv, ErasureTypeOK
    <2>2. ASSUME NEW e \in Erasers, NEW u \in Users, Ask(e, u) PROVE LoadedIsCurrent'
      <3>1. erased' = erased /\ subject'[e] = [user |-> u, anonymized |-> u \in erased]
        BY <2>2 DEF Ask, consentVars, EInv, HandlersOK
      <3>2. subject'[e].user = u /\ subject'[e].anonymized = (u \in erased)
        BY <3>1
      <3> QED BY <3>1, <3>2 DEF LoadedIsCurrent, Repeated, Subject
    <2>3. ASSUME NEW e \in Erasers, LockUser(e) \/ Find(e) PROVE LoadedIsCurrent'
      <3>1. UNCHANGED <<erased, subject>> /\ epc[e] # "idle"
        BY <2>3 DEF LockUser, Find, consentVars
      <3> QED BY <3>1 DEF LoadedIsCurrent, Repeated, Subject
    <2>4. CASE ConsentNext /\ UNCHANGED <<marketingVars, erasureVars>>
      <3>1. UNCHANGED <<erased, epc, subject>>
        BY <2>4, ConsentFrame DEF EInv, erasureVars
      <3> QED BY <1>1, <3>1
    <2> QED BY <1>1, <1>2, <2>1, <2>2, <2>3, <2>4
               DEF Step, consentVars, erasureVars, InsertRenter, InsertActivity, AlreadyAnonymized,
                   Erase, EraserAbort
  <1> QED BY <1>1, <1>2, StepCases DEF allVars, vars, consentVars, erasureVars

(***************************************************************************)
(* With one erasure at a time an erased user's identifiers never change    *)
(* again (anonymize_user: "Repeating the call is a harmless no-op").  Two  *)
(* at a time may both have loaded the user before either locks it.         *)
(***************************************************************************)
THEOREM RepeatChangesNothing ==
    ASSUME \A e, f \in Erasers : e = f
    PROVE  ErasureSpec => RepeatIsNoOp
  <1>1. ASSUME EInv, LoadedIsCurrent, [ErasureNext]_allVars
        PROVE  [\A u \in erased : identity'[u] = identity[u]]_allVars
    <2> SUFFICES ASSUME ErasureNext, NEW u \in erased PROVE identity'[u] = identity[u]
      BY <1>1
    <2>1. u \in Users
      BY <1>1 DEF EInv, IInv, ConsentTypeOK
    <2>2. ASSUME NEW e \in Erasers, Erase(e) PROVE u # Subject(e)
      BY <1>1, <2>2 DEF Erase, EInv, HoldsUser, LoadedIsCurrent
    <2> QED BY <1>1, <2>1, <2>2, StepCases, OnlyEraseErases
  <1>2. ErasureInit => EInv /\ LoadedIsCurrent
    BY InitEInv DEF ErasureInit, LoadedIsCurrent
  <1>3. EInv /\ LoadedIsCurrent /\ [ErasureNext]_allVars => (EInv /\ LoadedIsCurrent)'
    BY NextLoaded
  <1> QED BY <1>1, <1>2, <1>3, PTL DEF ErasureSpec, RepeatIsNoOp

-----------------------------------------------------------------------------
(* When no admin acts on the users' accounts                               *)

\* No new request is accepted for an erased user (get_current_user and
\* authenticate look at is_active).
LEMMA NoNewRequests ==
    ASSUME AdminActs = FALSE, EInv, Step, NEW u \in erased, ~InFlight(u)
    PROVE  ~InFlight(u)'
  <1>1. ASSUME NEW s \in Sessions, spc'[s] # "idle", req'[s].key[1] = u PROVE FALSE
    <2>1. ~(spc[s] # "idle" /\ req[s].key[1] = u)
      BY DEF InFlight
    <2>2. CASE ConsentNext
      <3>1. PICK t \in Sessions : (\E r \in Requests : Receive(t, r)) \/ Handle(t) \/ Abort(t)
        BY <2>2 DEF ConsentNext
      <3>2. CASE Answer(t)
        BY <1>1, <2>1, <3>2 DEF Answer, EInv, IInv, ConsentTypeOK
      <3>3. ASSUME NEW r \in Requests, Receive(t, r) PROVE FALSE
        <4>1. r.key[1] \notin erased
          BY <3>3 DEF Receive, MayActOn
        <4> QED BY <1>1, <2>1, <3>3, <4>1 DEF Receive, EInv, IInv, ConsentTypeOK
      <3>4. CASE InsertConflict(t)
        <4>1. spc[t] # "idle" /\ req'[s].key = req[s].key /\ (s # t => spc'[s] = spc[s])
          BY <3>4 DEF InsertConflict, EInv, IInv, ConsentTypeOK
        <4> QED BY <1>1, <2>1, <4>1
      <3>5. CASE spc[t] = "read" /\ UNCHANGED req
                 /\ \E p \in {"update", "insert"} : spc' = [spc EXCEPT ![t] = p]
        BY <1>1, <2>1, <3>5 DEF EInv, IInv, ConsentTypeOK
      <3> QED BY <3>1, <3>2, <3>3, <3>4, <3>5
                 DEF Handle, ReadForUpdate, ReadNothing, Update, Insert, Record, Abort
    <2>3. CASE UNCHANGED <<spc, req>>
      BY <1>1, <2>1, <2>3
    <2> QED BY <1>1, <2>2, <2>3
               DEF Step, consentVars, Ask, LockUser, AlreadyAnonymized, Find, Erase, EraserAbort
  <1>2. ASSUME NEW w \in Writers, wpc'[w] # "idle", wreq'[w].user = u PROVE FALSE
    <2>1. ~(wpc[w] # "idle" /\ wreq[w].user = u)
      BY DEF InFlight
    <2>2. ASSUME NEW v \in Writers, NEW kind \in Kinds, NEW x \in Users, Request(v, kind, x)
          PROVE  FALSE
      <3>1. x # u
        BY <2>2 DEF Request, MayActOn
      <3> QED BY <1>2, <2>1, <2>2, <3>1 DEF Request, EInv, ErasureTypeOK, MarketingTypeOK, HandlersOK
    <2>3. ASSUME NEW v \in Writers, WriterDone(v) PROVE FALSE
      BY <1>2, <2>1, <2>3 DEF WriterDone, EInv, ErasureTypeOK, MarketingTypeOK, HandlersOK
    <2>4. ASSUME NEW v \in Writers, Gate(v) PROVE FALSE
      <3>1. CASE WriterDone(v)
        BY <2>3, <3>1
      <3>2. CASE wpc' = [wpc EXCEPT ![v] = "write"] /\ UNCHANGED wreq /\ wpc[v] = "gate"
        BY <1>2, <2>1, <3>2 DEF EInv, ErasureTypeOK, MarketingTypeOK
      <3> QED BY <2>4, <3>1, <3>2 DEF Gate
    <2>5. CASE UNCHANGED <<wpc, wreq>>
      BY <1>2, <2>1, <2>5
    <2> QED BY <2>2, <2>3, <2>4, <2>5
               DEF Step, marketingVars, InsertMessage, InsertEvent, WriterAbort, InsertRenter,
                   InsertActivity, ReadQueue, Decide, Apply, Ask, LockUser, AlreadyAnonymized,
                   Find, Erase, EraserAbort
  <1> QED BY <1>1, <1>2 DEF InFlight

(***************************************************************************)
(* As long as no admin asks for it, an erased user without requests under  *)
(* way and without data stays so, whatever dispatches and further erasures *)
(* do (is_active in get_current_user and authenticate, subject_access).    *)
(***************************************************************************)
THEOREM ErasedUsersSettle ==
    ASSUME AdminActs = FALSE
    PROVE  ErasureSpec => ErasedSettles
  <1>1. ASSUME EInv, [ErasureNext]_allVars
        PROVE  [\A u \in Users : Settled(u) => Settled(u)']_allVars
    <2> SUFFICES ASSUME ErasureNext, NEW u \in Users, Settled(u) PROVE Settled(u)'
      BY <1>1
    <2>1. u \in erased /\ ~InFlight(u) /\ MessagesOf(u) = {} /\ TablesWith(u) = {} /\ GrantedBy(u) = {}
      BY DEF Settled, Holdings
    <2>2. Step
      BY StepCases
    <2>3. u \in erased'
      BY <1>1, <2>1, <2>2, OnlyEraseErases
    <2>4. ~InFlight(u)'
      BY <1>1, <2>1, <2>2, NoNewRequests
    <2>5. MessagesOf(u)' = {} /\ TablesWith(u)' = {} /\ GrantedBy(u)' = {}
      <3>1. CASE SameData(u)
        BY <2>1, <3>1 DEF SameData
      <3>2. CASE \E e \in Erasers : Erase(e) /\ Subject(e) = u
        BY <1>1, <3>2, EraseBares
      <3> QED BY <1>1, <2>1, <2>2, <3>1, <3>2, WhoWrites
    <2> QED BY <2>3, <2>4, <2>5 DEF Settled, Holdings
  <1> QED BY <1>1, ErasureInvariant, PTL DEF ErasureSpec, ErasedSettles
=============================================================================
