------------------------------- MODULE Consent -------------------------------
(***************************************************************************)
(* The consent registry (services/consent_service.py behind                *)
(* api/privacy.py): the current consent per user and purpose, the history  *)
(* kept as evidence, and the requests that grant and revoke.               *)
(*                                                                         *)
(* grant and revoke read the row with SELECT ... FOR UPDATE, which waits   *)
(* for whoever holds the row's lock and then returns the row as committed; *)
(* a row that does not exist cannot be locked.  Flush and commit are one   *)
(* action.  Every row inserted for a user takes a key-share lock on the    *)
(* user's row, so it waits while that row is locked for update (userLock,  *)
(* taken by the erasure that extends this module).                         *)
(***************************************************************************)
EXTENDS Integers, Sequences, FiniteSets

CONSTANTS
    Users,
    Purposes,
    Versions,       \* policy versions a request may name
    Current,        \* CURRENT_POLICY_VERSION
    Sessions,       \* concurrent grant and revoke requests
    AdminActs,      \* whether an admin, too, acts on the users' accounts
    MaxHistory,     \* bound on the history per user and purpose
    NONE            \* no row, nobody, nothing

Status  == {"GRANTED", "WITHDRAWN"}
Actions == {"GRANT", "REVOKE"}

ASSUME ConsentAssumption ==
    /\ Current \in Versions
    /\ AdminActs \in BOOLEAN
    /\ MaxHistory \in Nat
    /\ NONE \notin Users \cup Purposes \cup Versions \cup Sessions \cup Status

Keys == Users \X Purposes

VARIABLES
    erased,     \* users whose anonymized_at is set; they are inactive, too
    userLock,   \* per user: who holds the user's row FOR UPDATE
    consents,   \* user_consents: the row per user and purpose
    history,    \* consent_history: what happened per user and purpose
    rowLock,    \* per user and purpose: who holds the consent's row
    spc,        \* per session: where its handler stands
    req         \* per session: what it was asked

consentVars == <<erased, userLock, consents, history, rowLock, spc, req>>

NoConsent == [status |-> NONE, version |-> NONE]
NoRequest == [op |-> NONE, key |-> NONE, version |-> NONE, again |-> FALSE]

Rows == [status: Status, version: Versions] \cup {NoConsent}

Asked ==
    [op: {"grant"}, key: Keys, version: Versions, again: BOOLEAN]
        \cup [op: {"revoke"}, key: Keys, version: {NONE}, again: {FALSE}]

ConsentInit ==
    /\ erased = {}
    /\ userLock = [u \in Users |-> NONE]
    /\ consents = [k \in Keys |-> NoConsent]
    /\ history = [k \in Keys |-> <<>>]
    /\ rowLock = [k \in Keys |-> NONE]
    /\ spc = [s \in Sessions |-> "idle"]
    /\ req = [s \in Sessions |-> NoRequest]

-----------------------------------------------------------------------------
\* Mutant of MayActOn: get_current_user does not look at is_active.
AnyoneMayActOn(u) == u \in Users

\* get_current_user and subject_access: an active user acts on its own
\* account, an admin on any, anonymised ones included.
MayActOn(u) == u \notin erased \/ AdminActs

\* The policy gate's decision on the row as it is now (_decide).
Allows(k) == consents[k].status = "GRANTED" /\ consents[k].version = Current

Exists(k) == consents[k].status # NONE

Free(k) == rowLock[k] = NONE

UserFree(k) == userLock[k[1]] = NONE

Pending(k) == {s \in Sessions : spc[s] # "idle" /\ req[s].key = k}

Receive(s, r) ==
    /\ spc[s] = "idle"
    /\ MayActOn(r.key[1])
    /\ Len(history[r.key]) + Cardinality(Pending(r.key)) < MaxHistory    \* bound
    /\ spc' = [spc EXCEPT ![s] = "read"]
    /\ req' = [req EXCEPT ![s] = r]
    /\ UNCHANGED <<erased, userLock, consents, history, rowLock>>

\* The answer is sent and the session closed, which ends its transaction.
Answer(s) ==
    /\ spc' = [spc EXCEPT ![s] = "idle"]
    /\ req' = [req EXCEPT ![s] = NoRequest]
    /\ rowLock' = [k \in Keys |-> IF rowLock[k] = s THEN NONE ELSE rowLock[k]]

\* The row the request would write, and whether that changes anything.
Outcome(s) ==
    IF req[s].op = "grant" THEN [status |-> "GRANTED", version |-> req[s].version]
    ELSE [status |-> "WITHDRAWN", version |-> consents[req[s].key].version]

\* The evidence of it (_history).
Event(s) ==
    IF req[s].op = "grant" THEN [action |-> "GRANT", version |-> req[s].version]
    ELSE [action |-> "REVOKE", version |-> consents[req[s].key].version]

Changes(s) == consents[req[s].key] # Outcome(s)

\* Mutant of ReadForUpdate: without FOR UPDATE.
ReadUnlocked(s) ==
    LET k == req[s].key
    IN /\ spc[s] = "read"
       /\ Exists(k)
       /\ \/ Changes(s) /\ spc' = [spc EXCEPT ![s] = "update"] /\ UNCHANGED <<rowLock, req>>
          \/ ~Changes(s) /\ Answer(s)
       /\ UNCHANGED <<erased, userLock, consents, history>>

\* _get_current(lock=True) finds the row.  A request that would change
\* nothing is answered at once.
ReadForUpdate(s) ==
    LET k == req[s].key
    IN /\ spc[s] = "read"
       /\ Exists(k) /\ Free(k)
       /\ \/ /\ Changes(s)
             /\ spc' = [spc EXCEPT ![s] = "update"]
             /\ rowLock' = [rowLock EXCEPT ![k] = s]
             /\ UNCHANGED req
          \/ ~Changes(s) /\ Answer(s)
       /\ UNCHANGED <<erased, userLock, consents, history>>

\* It finds none: a grant inserts one, a revoke has nothing to do.
ReadNothing(s) ==
    /\ spc[s] = "read"
    /\ ~Exists(req[s].key)
    /\ \/ /\ req[s].op = "grant"
          /\ spc' = [spc EXCEPT ![s] = "insert"]
          /\ UNCHANGED <<rowLock, req>>
       \/ req[s].op = "revoke" /\ Answer(s)
    /\ UNCHANGED <<erased, userLock, consents, history>>

\* The consent row and the history row are committed together.
Record(s) ==
    /\ consents' = [consents EXCEPT ![req[s].key] = Outcome(s)]
    /\ history' = [history EXCEPT ![req[s].key] = Append(@, Event(s))]
    /\ Answer(s)
    /\ UNCHANGED <<erased, userLock>>

Update(s) == spc[s] = "update" /\ UserFree(req[s].key) /\ Record(s)

\* The unique constraint on (user, purpose) admits the first insert only.
Insert(s) == spc[s] = "insert" /\ UserFree(req[s].key) /\ ~Exists(req[s].key) /\ Record(s)

\* Mutant of InsertConflict: the error of the first attempt propagates.
InsertConflictRaises(s) ==
    /\ spc[s] = "insert"
    /\ Exists(req[s].key)
    /\ spc' = [spc EXCEPT ![s] = "failed"]
    /\ UNCHANGED <<erased, userLock, consents, history, rowLock, req>>

\* IntegrityError: another grant was first.  The first time the transaction
\* is rolled back and run again, the second time the error propagates.
InsertConflict(s) ==
    /\ spc[s] = "insert"
    /\ Exists(req[s].key)
    /\ IF req[s].again
       THEN spc' = [spc EXCEPT ![s] = "failed"] /\ UNCHANGED req
       ELSE /\ spc' = [spc EXCEPT ![s] = "read"]
            /\ req' = [req EXCEPT ![s] = [op |-> "grant", key |-> req[s].key,
                                          version |-> req[s].version, again |-> TRUE]]
    /\ UNCHANGED <<erased, userLock, consents, history, rowLock>>

\* A database error, a cancelled request or a killed process.
Abort(s) ==
    /\ spc[s] # "idle"
    /\ Answer(s)
    /\ UNCHANGED <<erased, userLock, consents, history>>

Handle(s) ==
    \/ ReadForUpdate(s)
    \/ ReadNothing(s)
    \/ Update(s)
    \/ Insert(s)
    \/ InsertConflict(s)

\* again is what the handler remembers, not part of a request.
Requests == {r \in Asked : ~r.again}

ConsentNext ==
    \E s \in Sessions :
        \/ \E r \in Requests : Receive(s, r)
        \/ Handle(s)
        \/ Abort(s)

ConsentSpec == ConsentInit /\ [][ConsentNext]_consentVars

-----------------------------------------------------------------------------
(* Properties                                                              *)

ConsentTypeOK ==
    /\ erased \subseteq Users
    /\ consents \in [Keys -> Rows]
    /\ history \in [Keys -> Seq([action: Actions, version: Versions])]
    /\ rowLock \in [Keys -> Sessions \cup {NONE}]
    /\ spc \in [Sessions -> {"idle", "read", "update", "insert", "failed"}]
    /\ req \in [Sessions -> Asked \cup {NoRequest}]

(***************************************************************************)
(* The evidence log and the current row agree: the last event is what made *)
(* the row what it is (grant, revoke: UserConsent "current consent state", *)
(* ConsentHistory "append-only evidence log").                             *)
(***************************************************************************)
LastEvent(k) == history[k][Len(history[k])]

HistoryExplainsRow ==
    \A k \in Keys :
        IF history[k] = <<>> THEN ~Exists(k)
        ELSE consents[k] =
                 [status |-> IF LastEvent(k).action = "GRANT" THEN "GRANTED" ELSE "WITHDRAWN",
                  version |-> LastEvent(k).version]

(***************************************************************************)
(* grant and revoke are idempotent however their requests overlap: every   *)
(* event in the history changed something ("repeating GRANT for the same   *)
(* purpose and policy version changes nothing", "revoking a missing or     *)
(* already withdrawn consent writes nothing").                             *)
(***************************************************************************)
EveryEventChanges ==
    \A k \in Keys :
        /\ history[k] # <<>> => history[k][1].action = "GRANT"
        /\ \A i \in 1..(Len(history[k]) - 1) :
              /\ history[k][i] # history[k][i + 1]
              /\ history[k][i + 1].action = "REVOKE" =>
                    history[k][i] = [action |-> "GRANT", version |-> history[k][i + 1].version]

\* What makes the log evidence: the last event of a purpose is its current
\* state, and every event changed it (grant, revoke, withdraw_all).
LogIsEvidence == HistoryExplainsRow /\ EveryEventChanges

\* A grant never fails because another grant was first: the second attempt
\* finds the row (grant: "Two concurrent first-time grants raced").
GrantSurvivesRace == \A s \in Sessions : spc[s] # "failed"
=============================================================================
