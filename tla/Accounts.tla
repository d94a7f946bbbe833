------------------------------ MODULE Accounts ------------------------------
(***************************************************************************)
(* Accounts and who may act: registration, login, appointing admins, and   *)
(* the audited access to a subject's data (user_service.py, security.py,   *)
(* auth.py, api/auth.py, api/admin.py, cli.py, subject_access and its      *)
(* handlers in api/privacy.py).  Handlers overlap at every await; Argon2   *)
(* runs in a thread pool of its own.                                       *)
(*                                                                         *)
(* An address is a mailbox and the form it was typed in.  A password is    *)
(* right or wrong.  The statements of an erasure are those of Erasure;     *)
(* here it is its commit.  Signing and hashing are assumed to be sound.    *)
(***************************************************************************)
EXTENDS Integers, Sequences, FiniteSets

CONSTANTS
    Ids,            \* ids of users rows, 1, 2, ...; the bound on them
    BoxOf,          \* the mailboxes of the admin and the user there are at first
    Addresses,      \* what is typed: [box, form]; normalised when form is "plain"
    PoolSize,       \* settings.password_hash_workers
    MaxRequests,    \* bound on the requests
    MaxErrors       \* bound on commits that fail

Nobody == 0
Admin  == 1
Client == 2

ASSUME AccountsAssumption ==
    /\ Ids \subseteq Nat \ {Nobody} /\ {Admin, Client} \subseteq Ids
    /\ BoxOf[Admin] # BoxOf[Client]
    /\ \A e \in Addresses : e = [box |-> e.box, form |-> e.form]
    /\ PoolSize \in Int /\ MaxRequests \in Nat /\ MaxErrors \in Nat

VARIABLES
    email, role, active,    \* users: the row of an id, or "none" when free
    token,                  \* per id: whether it holds an access token
    arrived,                \* requests that have arrived
    kind, by,               \* per request: its handler, the account it acts as,
    typed, about,           \* the address typed, the user it is about
    pc, verdict, answer,    \* per request: where it is, what it found, its status
    jobs, hashing,          \* the pool: queued and running
    audit,                  \* audit_events
    erased,                 \* accounts whose erasure has committed
    errors,
    gone,                   \* per request: the accounts that were anonymised when its
                            \* session loaded them, on arrival
    owner                   \* history: whose mailbox it named when it arrived

rowVars  == <<email, role, active>>
reqVars  == <<arrived, kind, by, typed, about, gone, owner>>
poolVars == <<jobs, hashing>>
accVars  == <<rowVars, token, reqVars, pc, verdict, answer, poolVars, audit, erased, errors>>

Requests == 1..MaxRequests
Users    == {u \in Ids : role[u] # "none"}
Next_id  == {u \in Ids \ Users : \A w \in Ids \ Users : u <= w}

\* The value of email of a row that is not there, and of an anonymised one:
\* anon-<uuid>@anon.invalid is no address anybody types.
NoAddress == [box |-> Nobody, form |-> "none"]
Anon(u)   == [box |-> u, form |-> "anon"]

normalize_email(e) == [e EXCEPT !.form = "plain"]

\* Mutant of get_user_by_email: the address is looked up as it was typed.
get_user_by_email_typed(e) ==
    LET found == {u \in Users : email[u] = e}
    IN IF found = {} THEN Nobody ELSE CHOOSE u \in found : TRUE

get_user_by_email(e) ==
    LET found == {u \in Users : email[u] = normalize_email(e)}
    IN IF found = {} THEN Nobody ELSE CHOOSE u \in found : TRUE

AccountsInit ==
    /\ email = [u \in Ids |-> IF u \in {Admin, Client} THEN [box |-> BoxOf[u], form |-> "plain"] ELSE NoAddress]
    /\ role = [u \in Ids |-> IF u = Admin THEN "admin" ELSE IF u = Client THEN "user" ELSE "none"]
    /\ active = [u \in Ids |-> u \in {Admin, Client}]
    /\ token = [u \in Ids |-> u \in {Admin, Client}]
    /\ arrived = 0
    /\ kind = [q \in Requests |-> "none"]
    /\ by = [q \in Requests |-> Nobody]
    /\ typed = [q \in Requests |-> NoAddress]
    /\ about = [q \in Requests |-> Nobody]
    /\ pc = [q \in Requests |-> "new"]
    /\ verdict = [q \in Requests |-> "none"]
    /\ answer = [q \in Requests |-> "none"]
    /\ jobs = <<>> /\ hashing = {}
    /\ audit = {} /\ erased = {} /\ errors = 0
    /\ gone = [q \in Requests |-> {}]
    /\ owner = [q \in Requests |-> Nobody]

-----------------------------------------------------------------------------
(* Requests arrive                                                         *)

Owner(e) ==
    LET own == {u \in Users : email[u].box = e.box /\ email[u].form # "anon"}
    IN IF own = {} THEN Nobody ELSE CHOOSE u \in own : TRUE

Arrive(q, k, u, e, s) ==
    /\ q = arrived + 1
    /\ arrived' = q
    /\ kind' = [kind EXCEPT ![q] = k]
    /\ by' = [by EXCEPT ![q] = u]
    /\ typed' = [typed EXCEPT ![q] = e]
    /\ about' = [about EXCEPT ![q] = s]
    /\ gone' = [gone EXCEPT ![q] = erased]
    /\ owner' = [owner EXCEPT ![q] = Owner(e)]

Reply(q, status) ==
    /\ pc' = [pc EXCEPT ![q] = "done"]
    /\ answer' = [answer EXCEPT ![q] = status]

Goto(q, step) == pc' = [pc EXCEPT ![q] = step] /\ UNCHANGED answer

Submit(q) == jobs' = Append(jobs, q) /\ UNCHANGED hashing

\* Mutant of Authentic: whether the account is still active is not looked up.
AuthenticByToken(u) == token[u]

\* get_current_user
Authentic(u) == token[u] /\ active[u]

\* register: create_user hashes the password first.
Register(q, e) ==
    /\ Arrive(q, "register", Nobody, e, Nobody)
    /\ Goto(q, "hash")
    /\ Submit(q)
    /\ UNCHANGED <<rowVars, token, verdict, audit, erased, errors>>

\* create_admin behind require_admin
create_admin(q, u, e) ==
    /\ Arrive(q, "create_admin", u, e, Nobody)
    /\ IF Authentic(u) /\ role[u] = "admin" THEN Goto(q, "hash") /\ Submit(q)
       ELSE Reply(q, IF Authentic(u) THEN "403" ELSE "401") /\ UNCHANGED poolVars
    /\ UNCHANGED <<rowVars, token, verdict, audit, erased, errors>>

\* create-admin on the console: another process hashes for itself.
console_create_admin(q, e) ==
    /\ Arrive(q, "console", Nobody, e, Nobody)
    /\ Goto(q, "insert")
    /\ UNCHANGED <<rowVars, token, verdict, poolVars, audit, erased, errors>>

\* login: authenticate looks the user up, then verifies the password, against
\* a dummy hash when there is no user.
login(q, e, right) ==
    LET user == get_user_by_email(e)
    IN /\ Arrive(q, IF right THEN "login" ELSE "guess", user, e, Nobody)
       /\ verdict' = [verdict EXCEPT ![q] = IF user # Nobody /\ right /\ active[user] THEN "ok" ELSE "no"]
       /\ Goto(q, "hash")
       /\ Submit(q)
       /\ UNCHANGED <<rowVars, token, audit, erased, errors>>

\* subject_access: the subject or an admin; anybody else learns nothing.
access(u, s) ==
    IF ~(u = s \/ role[u] = "admin") THEN "denied"
    ELSE IF s \notin Users THEN "not_found" ELSE "ok"

\* export_personal_data and anonymize, up to what they write.
on_subject(q, k, u, s) ==
    /\ Arrive(q, k, u, NoAddress, s)
    /\ verdict' = [verdict EXCEPT ![q] = IF Authentic(u) THEN access(u, s) ELSE @]
    /\ IF Authentic(u) THEN Goto(q, IF k = "anonymize" /\ access(u, s) = "ok" THEN "erase" ELSE "audit")
       ELSE Reply(q, "401")
    /\ UNCHANGED <<rowVars, token, poolVars, audit, erased, errors>>

\* decode_access_token: a token that is missing, malformed or has expired
no_token(q) ==
    /\ Arrive(q, "none", Nobody, NoAddress, Nobody)
    /\ Reply(q, "401")
    /\ UNCHANGED <<rowVars, token, verdict, poolVars, audit, erased, errors>>

-----------------------------------------------------------------------------
(* The thread pool                                                         *)

\* _hash_executor.  A size that is not positive means no pool: the event loop
\* hashes, one password at a time, and more besides waits than is shown here.
Threads == IF PoolSize > 0 THEN PoolSize ELSE 1

TakeJob ==
    /\ jobs # <<>>
    /\ Cardinality(hashing) < Threads
    /\ hashing' = hashing \cup {Head(jobs)}
    /\ jobs' = Tail(jobs)
    /\ UNCHANGED <<rowVars, token, reqVars, pc, verdict, answer, audit, erased, errors>>

\* Mutant of Hashed: the thread is not given back.
HashedKeepsThread(q) ==
    /\ q \in hashing /\ pc[q] = "hash"
    /\ IF kind[q] \notin {"login", "guess"} THEN Goto(q, "insert")
       ELSE IF verdict[q] = "ok" THEN Goto(q, "activity") ELSE Reply(q, "401")
    /\ UNCHANGED <<poolVars, rowVars, token, reqVars, verdict, audit, erased, errors>>

\* A hash or a verification is done and its handler goes on.
Hashed(q) ==
    /\ q \in hashing /\ pc[q] = "hash"
    /\ hashing' = hashing \ {q}
    /\ IF kind[q] \notin {"login", "guess"} THEN Goto(q, "insert")
       ELSE IF verdict[q] = "ok" THEN Goto(q, "activity") ELSE Reply(q, "401")
    /\ UNCHANGED <<jobs, rowVars, token, reqVars, verdict, audit, erased, errors>>

-----------------------------------------------------------------------------
(* Commits                                                                 *)

Fail(q) == errors < MaxErrors /\ errors' = errors + 1 /\ Reply(q, "500")

\* Mutant of Insert: no unique index on users.email.
InsertAnyway(q) ==
    /\ pc[q] = "insert"
    /\ \E u \in Next_id :
          /\ email' = [email EXCEPT ![u] = normalize_email(typed[q])]
          /\ role' = [role EXCEPT ![u] = IF kind[q] = "register" THEN "user" ELSE "admin"]
          /\ active' = [active EXCEPT ![u] = TRUE]
    /\ Reply(q, "ok")
    /\ UNCHANGED <<token, reqVars, verdict, poolVars, audit, erased, errors>>

\* create_user: the commit, where the unique index decides.
Insert(q) ==
    /\ pc[q] = "insert"
    /\ \/ /\ \A u \in Ids : email[u] # normalize_email(typed[q])
          /\ \E u \in Next_id :
                /\ email' = [email EXCEPT ![u] = normalize_email(typed[q])]
                /\ role' = [role EXCEPT ![u] = IF kind[q] = "register" THEN "user" ELSE "admin"]
                /\ active' = [active EXCEPT ![u] = TRUE]
          /\ Reply(q, "ok")
          /\ UNCHANGED errors
       \/ /\ \E u \in Ids : email[u] = normalize_email(typed[q])
          /\ Reply(q, "409")
          /\ UNCHANGED <<rowVars, errors>>
       \/ Fail(q) /\ UNCHANGED rowVars
    /\ UNCHANGED <<token, reqVars, verdict, poolVars, audit, erased>>

\* login: record_activity commits, then the token is issued.
Activity(q) ==
    /\ pc[q] = "activity"
    /\ \/ Reply(q, "ok") /\ token' = [token EXCEPT ![by[q]] = TRUE] /\ UNCHANGED errors
       \/ Fail(q) /\ UNCHANGED token
    /\ UNCHANGED <<rowVars, reqVars, verdict, poolVars, audit, erased>>

AuditRow(q, result) == [event |-> kind[q], actor |-> by[q], subject |-> about[q], result |-> result]

Told(v) == IF v = "ok" THEN "ok" ELSE "404"

\* Mutant of Audit: a row that cannot be written does not keep the answer back.
AuditLater(q) ==
    /\ pc[q] = "audit"
    /\ Reply(q, Told(verdict[q]))
    /\ \/ audit' = audit \cup {AuditRow(q, verdict[q])} /\ UNCHANGED errors
       \/ errors < MaxErrors /\ errors' = errors + 1 /\ UNCHANGED audit
    /\ UNCHANGED <<rowVars, token, reqVars, verdict, poolVars, erased>>

\* record_audit_event commits before the handler answers.
Audit(q) ==
    /\ pc[q] = "audit"
    /\ \/ Reply(q, Told(verdict[q])) /\ audit' = audit \cup {AuditRow(q, verdict[q])} /\ UNCHANGED errors
       \/ Fail(q) /\ UNCHANGED audit
    /\ UNCHANGED <<rowVars, token, reqVars, verdict, poolVars, erased>>

\* anonymize_user: the account is anonymised and deactivated and the event
\* recorded in one commit.  Of an account that was anonymised when subject_access
\* loaded it only the event is recorded; the locking SELECT does not load it again,
\* so that one anonymised since is anonymised once more.
Erase(q) ==
    LET s == about[q]
    IN /\ pc[q] = "erase"
       /\ \/ /\ s \notin gone[q]
             /\ email' = [email EXCEPT ![s] = Anon(s)]
             /\ active' = [active EXCEPT ![s] = FALSE]
             /\ erased' = erased \cup {s}
             /\ audit' = audit \cup {AuditRow(q, "anonymized")}
             /\ Reply(q, "ok")
             /\ UNCHANGED <<role, errors>>
          \/ /\ s \in gone[q]
             /\ audit' = audit \cup {AuditRow(q, "already_anonymized")}
             /\ Reply(q, "ok")
             /\ UNCHANGED <<rowVars, erased, errors>>
          \/ Fail(q) /\ UNCHANGED <<rowVars, audit, erased>>
       /\ UNCHANGED <<token, reqVars, verdict, poolVars>>

Serve(q) == Hashed(q) \/ Insert(q) \/ Activity(q) \/ Audit(q) \/ Erase(q)

AccountsNext ==
    \/ \E q \in Requests :
          \/ \E e \in Addresses :
                \/ Register(q, e)
                \/ \E u \in Users : token[u] /\ create_admin(q, u, e)
                \/ console_create_admin(q, e)
                \/ \E right \in BOOLEAN : login(q, e, right)
          \/ \E u \in Users, s \in Users \cup Next_id, k \in {"export", "anonymize"} : token[u] /\ on_subject(q, k, u, s)
          \/ no_token(q)
          \/ Serve(q)
    \/ TakeJob

AccountsSpec == AccountsInit /\ [][AccountsNext]_accVars

\* Threads and the event loop keep running; the database answers.
FairAccountsSpec ==
    AccountsSpec /\ WF_accVars(TakeJob) /\ \A q \in Requests : WF_accVars(Serve(q))

-----------------------------------------------------------------------------
(* Properties                                                              *)

AccountsTypeOK ==
    /\ arrived \in 0..MaxRequests /\ \A q \in Requests : q > arrived => pc[q] = "new" /\ answer[q] = "none"
    /\ role \in [Ids -> {"none", "user", "admin"}]
    /\ DOMAIN email = Ids
    /\ active \in [Ids -> BOOLEAN]
    /\ token \in [Ids -> BOOLEAN]
    /\ typed \in [Requests -> Addresses \cup {NoAddress}]
    /\ kind \in [Requests -> {"none", "register", "create_admin", "console", "login", "guess", "export", "anonymize"}]
    /\ by \in [Requests -> Ids \cup {Nobody}] /\ about \in [Requests -> Ids \cup {Nobody}]
    /\ gone \in [Requests -> SUBSET Ids]
    /\ verdict \in [Requests -> {"none", "ok", "no", "denied", "not_found"}]
    /\ pc \in [Requests -> {"new", "hash", "insert", "activity", "audit", "erase", "done"}]
    /\ answer \in [Requests -> {"none", "ok", "401", "403", "404", "409", "500"}]
    /\ hashing \subseteq Requests /\ jobs \in Seq(Requests)
    /\ erased \subseteq Ids

\* The inductive invariant: what the rows hold, and what is known of a request
\* that is under way.
RowsOK ==
    /\ \A u \in Ids : u \notin Users => email[u] = NoAddress /\ ~token[u]
    /\ \A u \in Users \ erased : email[u] = [box |-> email[u].box, form |-> "plain"]
    /\ \A u \in erased : email[u] = Anon(u) /\ ~active[u] /\ u \in Users
    /\ \A u, w \in Users : u # w => email[u] # email[w]

Waiting(q) ==
    pc[q] \notin {"new", "done"} \/ answer[q] = "ok" =>
        /\ by[q] \notin gone[q]
        /\ kind[q] = "create_admin" => by[q] \in Users /\ role[by[q]] = "admin"
        /\ kind[q] \in {"export", "anonymize"} =>
              /\ by[q] \in Users
              /\ pc[q] \notin {"hash", "insert", "activity"}
              /\ verdict[q] # "denied" => by[q] = about[q] \/ role[by[q]] = "admin"
              /\ answer[q] = "ok" => verdict[q] # "denied"
        /\ kind[q] \in {"login", "guess"} /\ verdict[q] = "ok" => by[q] \in Users
        /\ pc[q] \in {"hash", "insert"} => typed[q] \in Addresses
        /\ pc[q] = "activity" => by[q] \in Users
        /\ pc[q] = "erase" => verdict[q] = "ok" /\ about[q] \in Users

AccountsInv == AccountsTypeOK /\ RowsOK /\ \A q \in Requests : Waiting(q)

(***************************************************************************)
(* One account per mailbox, however the address was typed and however      *)
(* registrations overlap: create_user never asks first, it normalises and  *)
(* leaves the rest to the unique index.                                    *)
(***************************************************************************)
OneAccountPerMailbox ==
    \A u, w \in Users :
        u # w /\ email[u].form # "anon" /\ email[w].form # "anon" => email[u].box # email[w].box

(***************************************************************************)
(* Who is told "ok" had the right to ask when the request arrived: the     *)
(* account had not been erased, an admin appoints, the subject or an admin *)
(* reads or erases.  A token or a login that outlives its account opens    *)
(* nothing (get_current_user, authenticate, require_roles, subject_access).*)
(***************************************************************************)
AnsweredHadRight ==
    \A q \in Requests : answer[q] = "ok" =>
        /\ by[q] \notin gone[q]
        /\ kind[q] = "create_admin" => role[by[q]] = "admin"
        /\ kind[q] \in {"export", "anonymize"} => by[q] = about[q] \/ role[by[q]] = "admin"

\* The owner of a mailbox gets in with the right password, however the
\* address was typed when registering and when logging in; nobody else's
\* account is opened (authenticate).
OwnerGetsIn ==
    \A q \in Requests : kind[q] = "login" /\ answer[q] \notin {"none", "500"} =>
        IF owner[q] = Nobody THEN answer[q] = "401" ELSE answer[q] = "ok" /\ by[q] = owner[q]

\* No access to a subject's data goes unrecorded: what was exported, erased or
\* refused has its audit row, also when a commit fails (record_audit_event).
AccessIsAudited ==
    \A q \in Requests :
        kind[q] \in {"export", "anonymize"} /\ answer[q] \in {"ok", "404"} =>
            \E r \in audit : r.event = kind[q] /\ r.actor = by[q] /\ r.subject = about[q]
                             /\ (answer[q] = "404" <=> r.result \in {"denied", "not_found"})

\* Every request that arrived is answered although few threads hash: again and
\* again nobody waits (run_in_executor).
EveryRequestAnswered == []<>(\A q \in 1..arrived : answer[q] # "none")
=============================================================================
