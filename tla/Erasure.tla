------------------------------- MODULE Erasure -------------------------------
(***************************************************************************)
(* The right to erasure (services/erasure_service.py) among everything     *)
(* else that writes about a user: consents, gated writes and the dispatch  *)
(* (Marketing), the renter profile (api/privacy.py) and the login history  *)
(* (api/auth.py).                                                          *)
(*                                                                         *)
(* anonymize_user locks the user's row, finds what there is of the user    *)
(* and writes it all back in one commit.  Rows that refer to the user wait *)
(* for that lock; they are not refused once it is released.  What the      *)
(* erasure deletes or changes without having found it is unchanged.        *)
(***************************************************************************)
EXTENDS Marketing

CONSTANT Erasers    \* concurrent erasure requests

ASSUME ErasureAssumption == NONE \notin Erasers

VARIABLES
    identity,   \* per user: 0 for the original identifiers, else which random ones
    renters,    \* per user: its renter profile, "named" or "anonymous"
    activity,   \* users with rows in user_activity
    epc,        \* per erasure: where its handler stands
    subject,    \* per erasure: the user, and its anonymized_at as first loaded
    found       \* per erasure: what its statements found

erasureVars == <<identity, renters, activity, epc, subject, found>>

NoSubject == [user |-> NONE, anonymized |-> FALSE]
Nothing   == [messages |-> {}, tables |-> {}, purposes |-> {}]

MessagesOf(u) == {m \in Messages : Row(m) /\ messages[m].user = u}

TablesWith(u) ==
    {t \in {"analytics_events", "user_activity", "renters"} :
        \/ t = "analytics_events" /\ u \in events
        \/ t = "user_activity" /\ u \in activity
        \/ t = "renters" /\ renters[u] = "named"}

GrantedBy(u) == {p \in Purposes : consents[<<u, p>>].status = "GRANTED"}

ErasureInit ==
    /\ MarketingInit
    /\ identity = [u \in Users |-> 0]
    /\ renters = [u \in Users |-> NONE]
    /\ activity = {}
    /\ epc = [e \in Erasers |-> "idle"]
    /\ subject = [e \in Erasers |-> NoSubject]
    /\ found = [e \in Erasers |-> Nothing]

-----------------------------------------------------------------------------
(* The writers that ask no gate                                            *)

\* create_renter_profile: the user's id is unique in renters, a second
\* profile is refused (409).
InsertRenter(w) ==
    /\ Writes(w, "renter")
    /\ renters' = [renters EXCEPT ![wreq[w].user] = IF @ = NONE THEN "named" ELSE @]
    /\ WriterDone(w)
    /\ UNCHANGED <<messages, events, audit, batch, verdict>>
    /\ UNCHANGED <<identity, activity, epc, subject, found>>

\* login, once authenticate has accepted the password: record_activity.
InsertActivity(w) ==
    /\ Writes(w, "activity")
    /\ activity' = activity \cup {wreq[w].user}
    /\ WriterDone(w)
    /\ UNCHANGED <<messages, events, audit, batch, verdict>>
    /\ UNCHANGED <<identity, renters, epc, subject, found>>

PlainRequest(w, u) ==
    /\ \/ Request(w, "renter", u)
       \/ u \notin erased /\ Request(w, "activity", u)
    /\ UNCHANGED erasureVars

-----------------------------------------------------------------------------
(* The erasure                                                             *)

Subject(e) == subject[e].user

\* subject_access loads the user (the user itself or an admin asks).
Ask(e, u) ==
    /\ epc[e] = "idle"
    /\ epc' = [epc EXCEPT ![e] = "loaded"]
    /\ subject' = [subject EXCEPT ![e] = [user |-> u, anonymized |-> u \in erased]]
    /\ UNCHANGED <<identity, renters, activity, found>>
    /\ UNCHANGED <<consentVars, marketingVars>>

\* Mutant of LockUser: without FOR UPDATE.
SelectUser(e) ==
    /\ epc[e] = "loaded"
    /\ epc' = [epc EXCEPT ![e] = "locked"]
    /\ UNCHANGED <<identity, renters, activity, subject, found>>
    /\ UNCHANGED <<consentVars, marketingVars>>

\* SELECT ... FOR UPDATE waits for the row, but the session has the user
\* loaded already and keeps the attributes it has.
LockUser(e) ==
    /\ epc[e] = "loaded"
    /\ userLock[Subject(e)] = NONE
    /\ userLock' = [userLock EXCEPT ![Subject(e)] = e]
    /\ epc' = [epc EXCEPT ![e] = "locked"]
    /\ UNCHANGED <<identity, renters, activity, subject, found>>
    /\ UNCHANGED <<erased, consents, history, rowLock, spc, req, marketingVars>>

\* Mutant of EraserDone: the lock outlives the request.
EraserForgets(e) ==
    /\ epc' = [epc EXCEPT ![e] = "idle"]
    /\ subject' = [subject EXCEPT ![e] = NoSubject]
    /\ found' = [found EXCEPT ![e] = Nothing]
    /\ UNCHANGED userLock

\* The end of the session, which ends its transaction.
EraserDone(e) ==
    /\ epc' = [epc EXCEPT ![e] = "idle"]
    /\ subject' = [subject EXCEPT ![e] = NoSubject]
    /\ found' = [found EXCEPT ![e] = Nothing]
    /\ userLock' = [u \in Users |-> IF userLock[u] = e THEN NONE ELSE userLock[u]]

\* Mutant of Repeated: without the early return.
NeverRepeated(e) == FALSE

Repeated(e) == subject[e].anonymized

AlreadyAnonymized(e) ==
    /\ epc[e] = "locked"
    /\ Repeated(e)
    /\ audit' = audit \cup {<<"already_anonymized", Subject(e)>>}
    /\ EraserDone(e)
    /\ UNCHANGED <<identity, renters, activity, messages, events, wpc, wreq, batch, verdict>>
    /\ UNCHANGED <<erased, consents, history, rowLock, spc, req>>

\* _erase up to its commit: the statements that find the renter profile, the
\* rows to delete and the consents to withdraw.
Find(e) ==
    /\ epc[e] = "locked"
    /\ ~Repeated(e)
    /\ epc' = [epc EXCEPT ![e] = "erasing"]
    /\ found' = [found EXCEPT ![e] = [messages |-> MessagesOf(Subject(e)),
                                      tables |-> TablesWith(Subject(e)),
                                      purposes |-> GrantedBy(Subject(e))]]
    /\ UNCHANGED <<identity, renters, activity, subject>>
    /\ UNCHANGED <<consentVars, marketingVars>>

\* withdraw_all
WithdrawAll(u, ps) ==
    /\ consents' = [k \in Keys |->
                        IF k[1] = u /\ k[2] \in ps
                        THEN [status |-> "WITHDRAWN", version |-> consents[k].version]
                        ELSE consents[k]]
    /\ history' = [k \in Keys |->
                       IF k[1] = u /\ k[2] \in ps
                       THEN Append(history[k], [action |-> "REVOKE", version |-> consents[k].version])
                       ELSE history[k]]

\* The flush updates the consent rows, which waits for those who hold them.
Erase(e) ==
    LET u == Subject(e)
        f == found[e]
    IN /\ epc[e] = "erasing"
       /\ \A p \in f.purposes : Free(<<u, p>>)
       /\ erased' = erased \cup {u}
       /\ identity' = [identity EXCEPT ![u] = @ + 1]
       /\ renters' = [renters EXCEPT ![u] = IF "renters" \in f.tables THEN "anonymous" ELSE @]
       /\ activity' = IF "user_activity" \in f.tables THEN activity \ {u} ELSE activity
       /\ events' = IF "analytics_events" \in f.tables THEN events \ {u} ELSE events
       /\ messages' = [m \in Messages |->
                           IF m \in f.messages THEN [user |-> u, status |-> "DELETED"]
                           ELSE messages[m]]
       /\ WithdrawAll(u, f.purposes)
       /\ audit' = audit \cup {<<"anonymized", u>>}
       /\ EraserDone(e)
       /\ UNCHANGED <<rowLock, spc, req, wpc, wreq, batch, verdict>>

\* An error is rolled back and propagates.
EraserAbort(e) ==
    /\ epc[e] # "idle"
    /\ EraserDone(e)
    /\ UNCHANGED <<identity, renters, activity, marketingVars>>
    /\ UNCHANGED <<erased, consents, history, rowLock, spc, req>>

-----------------------------------------------------------------------------
EraseStep(e) ==
    \/ LockUser(e)
    \/ AlreadyAnonymized(e)
    \/ Find(e)
    \/ Erase(e)

PlainWrite(w) ==
    /\ InsertRenter(w) \/ InsertActivity(w)
    /\ UNCHANGED consentVars

ErasureNext ==
    /\ \/ MarketingStep /\ UNCHANGED erasureVars
       \/ \E w \in Writers :
             \/ PlainWrite(w)
             \/ \E u \in Users : PlainRequest(w, u) /\ UNCHANGED consentVars
       \/ \E e \in Erasers :
             \/ \E u \in Users : Ask(e, u)
             \/ EraseStep(e)
             \/ EraserAbort(e)
    /\ Witness

allVars == <<vars, erasureVars>>

ErasureSpec == ErasureInit /\ [][ErasureNext]_allVars

\* A consent change that holds the consent's row and waits for the user's,
\* and an erasure that holds the user's row and waits for the consent's.
Deadlocked(e, s) ==
    /\ epc[e] = "erasing" /\ userLock[Subject(e)] = e
    /\ spc[s] = "update" /\ req[s].key[1] = Subject(e)
    /\ req[s].key[2] \in found[e].purposes /\ rowLock[req[s].key] = s

\* PostgreSQL's deadlock detector ends one of the two transactions.
BreakDeadlock(e, s) ==
    /\ Deadlocked(e, s)
    /\ \/ Abort(s) /\ UNCHANGED <<marketingVars, erasureVars>>
       \/ EraserAbort(e)
    /\ Witness

(***************************************************************************)
(* The event loop goes on with every handler, PostgreSQL grants locks to   *)
(* those who wait in turn and breaks each deadlock: every transaction that *)
(* waits longer than deadlock_timeout looks for one.                       *)
(***************************************************************************)
Quiet == UNCHANGED <<marketingVars, erasureVars>> /\ Witness

ErasureFairness ==
    /\ \A s \in Sessions : SF_allVars(Handle(s) /\ Quiet)
    /\ \A w \in Writers :
          /\ SF_allVars(Write(w) /\ UNCHANGED <<consentVars, erasureVars>> /\ Witness)
          /\ SF_allVars(PlainWrite(w) /\ Witness)
    /\ \A e \in Erasers : SF_allVars(EraseStep(e) /\ Witness)
    /\ \A e \in Erasers, s \in Sessions : WF_allVars(BreakDeadlock(e, s))

FairErasureSpec == ErasureSpec /\ ErasureFairness

-----------------------------------------------------------------------------
(* Properties                                                              *)

ErasureTypeOK ==
    /\ MarketingTypeOK
    /\ userLock \in [Users -> Erasers \cup {NONE}]
    /\ renters \in [Users -> {NONE, "named", "anonymous"}]
    /\ activity \subseteq Users
    /\ epc \in [Erasers -> {"idle", "loaded", "locked", "erasing"}]
    /\ \A e \in Erasers : found[e].messages \subseteq Messages

\* Rows, locks and requests keep their types, and a dispatch under way has
\* touched nothing it read, also when the erasure deletes from its queue
\* (dispatch_pending_marketing, anonymize_user).
ErasureInv == ErasureTypeOK /\ BatchUntouched

\* What the database holds of a user beyond what the erasure policy retains.
Holdings(u) == MessagesOf(u) \cup TablesWith(u) \cup GrantedBy(u)

(***************************************************************************)
(* The erasure misses nothing: at the moment it commits no personal data   *)
(* of the user is left and no consent granted, although it looked for them *)
(* statement by statement among concurrent writers (anonymize_user:        *)
(* "Anonymize `subject_id` atomically").                                   *)
(***************************************************************************)
EraseMissesNothing ==
    [][\A u \in erased' \ erased : Holdings(u)' = {}]_allVars

InFlight(u) ==
    \/ \E s \in Sessions : spc[s] # "idle" /\ req[s].key[1] = u
    \/ \E w \in Writers : wpc[w] # "idle" /\ wreq[w].user = u

Settled(u) == u \in erased /\ ~InFlight(u) /\ Holdings(u) = {}

(***************************************************************************)
(* Once an erased user is bare and the requests that were under way have   *)
(* ended, nothing is ever stored about it again, as long as no admin asks  *)
(* for it (is_active in get_current_user and authenticate, and             *)
(* subject_access).                                                        *)
(***************************************************************************)
ErasedSettles == [][\A u \in Users : Settled(u) => Settled(u)']_allVars

(***************************************************************************)
(* "Repeating the call is a harmless no-op" (anonymize_user); the test     *)
(* test_second_run_is_idempotent: "identifiers are not re-randomized".     *)
(***************************************************************************)
RepeatIsNoOp ==
    [][\A u \in erased : identity'[u] = identity[u]]_allVars

(***************************************************************************)
(* The erasure policy (erasure_service.py, "Entity policy"): an anonymised *)
(* user has no messages, events or activity, no named renter profile and   *)
(* no granted consent.                                                     *)
(***************************************************************************)
ErasedStaysBare == \A u \in erased : Holdings(u) = {}

(***************************************************************************)
(* Everyone is answered: grants, revokes, writes and erasures that wait    *)
(* for each other's row locks, also when a consent change and an erasure   *)
(* wait for one another (anonymize_user, withdraw_all, revoke).            *)
(***************************************************************************)
EveryoneAnswered ==
    /\ \A s \in Sessions : spc[s] # "idle" ~> spc[s] = "idle"
    /\ \A w \in Writers : wpc[w] # "idle" ~> wpc[w] = "idle"
    /\ \A e \in Erasers : epc[e] # "idle" ~> epc[e] = "idle"
=============================================================================
