------------------------------ MODULE Marketing ------------------------------
(***************************************************************************)
(* The consent-gated actions (services/marketing_service.py): queueing a   *)
(* marketing e-mail, recording an analytics event, and the dispatch of the *)
(* queue.  Each asks the policy gate first and writes in a later step, so  *)
(* grants and revokes of the Consent module come in between.               *)
(***************************************************************************)
EXTENDS Consent

CONSTANTS
    MarketingEmail, OptionalAnalytics,  \* the purposes the gate is asked about
    Writers,                            \* concurrent gated requests
    Dispatchers,                        \* concurrent dispatch requests
    Messages                            \* ids of marketing_messages (a bound)

ASSUME MarketingAssumption ==
    /\ {MarketingEmail, OptionalAnalytics} \subseteq Purposes
    /\ Writers \cap Dispatchers = {}
    /\ NONE \notin {"QUEUED", "SENT", "SKIPPED", "DELETED"}

VARIABLES
    messages,   \* marketing_messages; an id is used once, also after a deletion
    events,     \* users with rows in analytics_events
    audit,      \* what audit_events records, per user
    wpc,        \* per writer: where its handler stands
    wreq,       \* per writer: what it writes, for whom
    batch,      \* per dispatcher: the queued messages it read
    verdict,    \* per dispatcher: its decision on each
    seen        \* history: per writer and dispatcher, the consents that held
                \* at some moment since it began

marketingVars == <<messages, events, audit, wpc, wreq, batch, verdict>>

Sent == {"SENT", "SKIPPED"}

NoMessage == [user |-> NONE, status |-> NONE]
NoWrite   == [kind |-> NONE, user |-> NONE]
Undecided == [m \in Messages |-> NONE]

\* The purpose that covers a kind of write.
PurposeOf == [message |-> MarketingEmail, event |-> OptionalAnalytics]

Gated == DOMAIN PurposeOf

Row(m) == messages[m].status \in {"QUEUED"} \cup Sent

Queued == {m \in Messages : messages[m].status = "QUEUED"}

MarketingInit ==
    /\ ConsentInit
    /\ messages = [m \in Messages |-> NoMessage]
    /\ events = {}
    /\ audit = {}
    /\ wpc = [w \in Writers |-> "idle"]
    /\ wreq = [w \in Writers |-> NoWrite]
    /\ batch = [d \in Dispatchers |-> {}]
    /\ verdict = [d \in Dispatchers |-> Undecided]
    /\ seen = [a \in Writers \cup Dispatchers |-> {}]

-----------------------------------------------------------------------------
(* Queueing and recording                                                  *)

\* The bound on messages: an id for everyone who may still insert one.
IdLeft ==
    Cardinality({m \in Messages : messages[m] = NoMessage}) >
        Cardinality({w \in Writers : wreq[w].kind = "message"})

Request(w, kind, u) ==
    /\ wpc[w] = "idle"
    /\ kind = "message" => IdLeft     \* bound
    /\ MayActOn(u)
    /\ wpc' = [wpc EXCEPT ![w] = IF kind \in Gated THEN "gate" ELSE "write"]
    /\ wreq' = [wreq EXCEPT ![w] = [kind |-> kind, user |-> u]]
    /\ UNCHANGED <<messages, events, audit, batch, verdict>>

\* The answer, or a failure that ends the request and its transaction.
WriterDone(w) ==
    /\ wpc' = [wpc EXCEPT ![w] = "idle"]
    /\ wreq' = [wreq EXCEPT ![w] = NoWrite]

CoveringConsent(w) == <<wreq[w].user, PurposeOf[wreq[w].kind]>>

\* _require_consent: a refusal is audited.
Gate(w) ==
    /\ wpc[w] = "gate"
    /\ \/ /\ Allows(CoveringConsent(w))
          /\ wpc' = [wpc EXCEPT ![w] = "write"]
          /\ UNCHANGED <<audit, wreq>>
       \/ /\ ~Allows(CoveringConsent(w))
          /\ audit' = audit \cup {<<"DENY", wreq[w].user>>}
          /\ WriterDone(w)
    /\ UNCHANGED <<messages, events, batch, verdict>>

\* The row refers to the user's row and so waits while that is locked.
Writes(w, kind) == wpc[w] = "write" /\ wreq[w].kind = kind /\ userLock[wreq[w].user] = NONE

InsertMessage(w, m) ==
    /\ Writes(w, "message")
    /\ messages[m] = NoMessage
    /\ messages' = [messages EXCEPT ![m] = [user |-> wreq[w].user, status |-> "QUEUED"]]
    /\ WriterDone(w)
    /\ UNCHANGED <<events, audit, batch, verdict>>

InsertEvent(w) ==
    /\ Writes(w, "event")
    /\ events' = events \cup {wreq[w].user}
    /\ WriterDone(w)
    /\ UNCHANGED <<messages, audit, batch, verdict>>

WriterAbort(w) ==
    /\ wpc[w] # "idle"
    /\ WriterDone(w)
    /\ UNCHANGED <<messages, events, audit, batch, verdict>>

-----------------------------------------------------------------------------
(* Dispatching                                                             *)

\* _decide_queue reads what is QUEUED; with an empty queue nothing happens.
ReadQueue(d) ==
    /\ batch[d] = {}
    /\ Queued # {}
    /\ batch' = [batch EXCEPT ![d] = Queued]
    /\ UNCHANGED <<messages, events, audit, wpc, wreq, verdict>>

Consented(m) == Allows(<<messages[m].user, MarketingEmail>>)

\* Mutant of Verdict: any consent on record will do.
VerdictOfRow(m) ==
    IF Exists(<<messages[m].user, MarketingEmail>>) THEN "SENT" ELSE "SKIPPED"

\* DispatchOutcome.status
Verdict(m) == IF Consented(m) THEN "SENT" ELSE "SKIPPED"

\* Mutant of Decide: the row is touched as soon as its verdict is known.
DecideAndApply(d, m) ==
    /\ m \in batch[d]
    /\ verdict[d][m] = NONE
    /\ verdict' = [verdict EXCEPT ![d][m] = Verdict(m)]
    /\ messages' = [messages EXCEPT ![m].status = Verdict(m)]
    /\ UNCHANGED <<events, audit, wpc, wreq, batch>>

\* _verdict, message by message, with an await for every one of them.
Decide(d, m) ==
    /\ m \in batch[d]
    /\ verdict[d][m] = NONE
    /\ verdict' = [verdict EXCEPT ![d][m] = Verdict(m)]
    /\ UNCHANGED <<messages, events, audit, wpc, wreq, batch>>

Decided(d) == batch[d] # {} /\ \A m \in batch[d] : verdict[d][m] # NONE

DispatchDone(d) ==
    /\ batch' = [batch EXCEPT ![d] = {}]
    /\ verdict' = [verdict EXCEPT ![d] = Undecided]

\* Mutant of Apply: the update is not limited to the messages decided on.
ApplyToAll(d) ==
    /\ Decided(d)
    /\ messages' = [m \in Messages |->
                        IF Row(m)
                        THEN [user |-> messages[m].user,
                              status |-> IF verdict[d][m] = "SENT" THEN "SENT" ELSE "SKIPPED"]
                        ELSE messages[m]]
    /\ DispatchDone(d)
    /\ UNCHANGED <<events, audit, wpc, wreq>>

\* Every verdict is applied in one transaction; a row deleted meanwhile is
\* not updated.
Apply(d) ==
    /\ Decided(d)
    /\ \/ \A m \in batch[d] : Row(m)
       \/ Cardinality(batch[d]) > 1
    /\ messages' = [m \in Messages |->
                        IF m \in batch[d] /\ Row(m)
                        THEN [user |-> messages[m].user, status |-> verdict[d][m]]
                        ELSE messages[m]]
    /\ DispatchDone(d)
    /\ UNCHANGED <<events, audit, wpc, wreq>>

\* The ORM misses a row it updates (StaleDataError) and the batch is rolled
\* back: always if the row was the only one, depending on the driver's row
\* counts if there were more.
ApplyStale(d) ==
    /\ Decided(d)
    /\ \E m \in batch[d] : ~Row(m)
    /\ DispatchDone(d)
    /\ UNCHANGED <<messages, events, audit, wpc, wreq>>

\* The gate fails midway, or the request is cancelled.
DispatchAbort(d) ==
    /\ batch[d] # {}
    /\ DispatchDone(d)
    /\ UNCHANGED <<messages, events, audit, wpc, wreq>>

-----------------------------------------------------------------------------
Write(w) ==
    \/ Gate(w)
    \/ \E m \in Messages : InsertMessage(w, m)
    \/ InsertEvent(w)

Dispatch(d) ==
    \/ \E m \in Messages : Decide(d, m)
    \/ Apply(d)
    \/ ApplyStale(d)

GatedStep ==
    \/ \E w \in Writers :
          \/ \E kind \in Gated, u \in Users : Request(w, kind, u)
          \/ Write(w)
          \/ WriterAbort(w)
    \/ \E d \in Dispatchers :
          \/ ReadQueue(d)
          \/ Dispatch(d)
          \/ DispatchAbort(d)

MarketingStep ==
    \/ ConsentNext /\ UNCHANGED marketingVars
    \/ GatedStep /\ UNCHANGED consentVars

Idle(a) == IF a \in Writers THEN wpc[a] = "idle" ELSE batch[a] = {}

\* The history variable: what held when a began, and since.
Witness ==
    seen' = [a \in Writers \cup Dispatchers |->
                 IF Idle(a)' THEN {}
                 ELSE seen[a] \cup {k \in Keys : Allows(k)'}]

MarketingNext == MarketingStep /\ Witness

vars == <<consentVars, marketingVars, seen>>

MarketingSpec == MarketingInit /\ [][MarketingNext]_vars

-----------------------------------------------------------------------------
(* Properties                                                              *)

MarketingTypeOK ==
    /\ ConsentTypeOK
    /\ messages \in [Messages -> [user: Users, status: {"QUEUED", "DELETED"} \cup Sent]
                                     \cup {NoMessage}]
    /\ events \subseteq Users
    /\ wpc \in [Writers -> {"idle", "gate", "write"}]
    /\ batch \in [Dispatchers -> SUBSET Messages]
    /\ verdict \in [Dispatchers -> [Messages -> Sent \cup {NONE}]]
    /\ seen \in [Writers \cup Dispatchers -> SUBSET Keys]

(***************************************************************************)
(* Nothing is sent without consent: a message turns SENT only if its user  *)
(* consented to marketing under the current policy at some moment since    *)
(* the dispatch read the queue.  A message queued before a withdrawal is   *)
(* thus not sent by a dispatch that begins after it                        *)
(* (dispatch_pending_marketing, ConsentPolicyGate).                        *)
(***************************************************************************)
TurnsSent(m) == messages[m].status # "SENT" /\ messages'[m].status = "SENT"

ConsentedSend ==
    \A m \in Messages : TurnsSent(m) =>
        \E d \in Dispatchers :
            m \in batch[d] /\ <<messages[m].user, MarketingEmail>> \in seen[d]

(***************************************************************************)
(* Nothing is queued or recorded without consent to its own purpose at     *)
(* some moment since the request came in (enqueue_marketing_email,         *)
(* record_analytics_event).                                                *)
(***************************************************************************)
ConsentedWrite ==
    /\ \A m \in Messages : messages[m] = NoMessage /\ messages'[m] # NoMessage =>
          \E w \in Writers : <<messages'[m].user, MarketingEmail>> \in seen[w]
    /\ \A u \in events' \ events :
          \E w \in Writers : <<u, OptionalAnalytics>> \in seen[w]

\* No step sends, queues or records anything without consent
\* (ConsentPolicyGate.require, is_allowed).
ActedWithConsent == [][ConsentedSend /\ ConsentedWrite]_vars

(***************************************************************************)
(* Decide first, write second: while a dispatch is under way, whatever     *)
(* becomes of it, no row it read has been touched ("a gate failure midway  *)
(* leaves every message untouched").  With one dispatch at a time.         *)
(***************************************************************************)
BatchUntouched ==
    \A d \in Dispatchers : \A m \in batch[d] : messages[m].status \in {"QUEUED", "DELETED"}

(***************************************************************************)
(* A processed message is never processed again, with one dispatch at a    *)
(* time (_decide_queue reads QUEUED messages only).                        *)
(***************************************************************************)
ProcessedOnce ==
    [][\A m \in Messages : messages[m].status \in Sent =>
          messages'[m].status \in {messages[m].status, "DELETED"}]_vars
=============================================================================
