--------------------------- MODULE PlatformProofs ---------------------------
(***************************************************************************)
(* Proofs about migrations that start at once, for any number of           *)
(* containers and consoles, about accounts, for any number of requests,    *)
(* accounts and addresses, and about the export, for any number of rows.   *)
(***************************************************************************)
EXTENDS Migrations, Accounts, Export, TLAPS

LEMMA LatestIsFive == Latest = 5
BY DEF Latest, Upgrades

LEMMA MigrationInvInit == MigrationInit => MigrationInv
BY LatestIsFive, MigrationAssumption DEF MigrationInit, MigrationInv, MigrationTypeOK, Migrators

\* Forgetting a transaction leaves numbers behind.
LEMMA ForgetTypes ==
    ASSUME MigrationTypeOK, NEW p \in Migrators, Forget(p)
    PROVE  /\ base' \in [Migrators -> 0..Latest]
           /\ at' \in [Migrators -> 0..Latest]
           /\ statement' \in [Migrators -> Nat \ {0}]
           /\ \A q \in Migrators \ {p} : base'[q] = base[q] /\ at'[q] = at[q]
BY LatestIsFive DEF MigrationTypeOK, Forget

LEMMA MigrationInvNext ==
    ASSUME MigrationInv, [MigrationNext]_migVars
    PROVE  MigrationInv'
<1> USE LatestIsFive, MigrationAssumption
<1>0. MigrationTypeOK  BY DEF MigrationInv
<1>1. ASSUME NEW p \in Migrators, Begin(p)  PROVE MigrationInv'
  BY <1>1 DEF Begin, txVars, MigrationInv, MigrationTypeOK
<1>2. ASSUME NEW p \in Migrators, Lock(p)  PROVE MigrationInv'
  BY <1>2 DEF Lock, txVars, MigrationInv, MigrationTypeOK, Migrators
<1>3. ASSUME NEW p \in Migrators, ReadVersion(p)  PROVE MigrationInv'
  BY <1>3 DEF ReadVersion, MigrationInv, MigrationTypeOK, Migrators
<1>4. ASSUME NEW p \in Migrators, Migrate(p)  PROVE MigrationInv'
  <2>1. /\ run[p] = "running" /\ at[p] # Goal(p)
        /\ run' \in {run, [run EXCEPT ![p] = "failed"]}
        /\ at' \in {at, [at EXCEPT ![p] = IF p \in Replicas THEN @ + 1 ELSE @ - 1]}
        /\ statement' \in {[statement EXCEPT ![p] = 1], [statement EXCEPT ![p] = @ + 1]}
        /\ UNCHANGED <<version, advisory, base>>
    BY <1>0, <1>4 DEF Migrate, MigrationTypeOK
  <2>2. at[p] \in 0..5 /\ base[p] \in 0..5 /\ statement[p] \in Nat \ {0}  BY <1>0 DEF MigrationTypeOK
  <2>3. at' \in [Migrators -> 0..Latest]
    BY <1>0, <2>1, <2>2 DEF MigrationInv, MigrationTypeOK, Goal, Migrators
  <2>4. MigrationTypeOK'  BY <1>0, <2>1, <2>2, <2>3 DEF MigrationTypeOK
  <2>5. p \in Operators => at'[p] \in {base[p], base[p] - 1} /\ base[p] > 0
    BY <1>0, <2>1, <2>2 DEF MigrationInv, MigrationTypeOK, Goal
  <2>6. \A q \in Migrators \ {p} : run'[q] = run[q] /\ at'[q] = at[q]
    BY <1>0, <2>1 DEF MigrationTypeOK
  <2> QED  BY <1>0, <2>1, <2>4, <2>5, <2>6 DEF MigrationInv, MigrationTypeOK
<1>5. ASSUME NEW p \in Migrators, CommitMigration(p)  PROVE MigrationInv'
  BY <1>5 DEF CommitMigration, txVars, MigrationInv, MigrationTypeOK, Migrators
<1>6. ASSUME NEW p \in Migrators, Close(p) \/ Die(p)  PROVE MigrationInv'
  <2>1. Forget(p)  BY <1>6 DEF Close, Die
  <2>2. /\ base' \in [Migrators -> 0..Latest]
        /\ at' \in [Migrators -> 0..Latest]
        /\ statement' \in [Migrators -> Nat \ {0}]
        /\ \A q \in Migrators \ {p} : base'[q] = base[q] /\ at'[q] = at[q]
    BY <1>0, <2>1, ForgetTypes
  <2>3. /\ run' = [run EXCEPT ![p] = "idle"]
        /\ advisory' = IF advisory = p THEN NoSession ELSE advisory
        /\ version' = version
    BY <1>6 DEF Close, Die
  <2> QED  BY <2>2, <2>3 DEF MigrationInv, MigrationTypeOK
<1>7. CASE UNCHANGED migVars
  BY <1>7 DEF migVars, txVars, MigrationInv, MigrationTypeOK
<1> QED  BY <1>1, <1>2, <1>3, <1>4, <1>5, <1>6, <1>7 DEF MigrationNext, Proceed

\* However many containers start and consoles downgrade at once, whoever
\* migrates holds the advisory lock, and its transaction began at the version
\* that is committed, also after processes died (do_run_migrations).
THEOREM OneMigrationAtATime == MigrationSpec => []MigrationInv
<1>1. MigrationInit => MigrationInv  BY MigrationInvInit
<1>2. MigrationInv /\ [MigrationNext]_migVars => MigrationInv'  BY MigrationInvNext
<1> QED  BY <1>1, <1>2, PTL DEF MigrationSpec

\* What is known of a transaction under way: its schema is the one its script
\* leads through.
Script(p) == IF p \in Replicas THEN Upgrades[at[p] + 1] ELSE Downgrades[at[p]]

OnTheWay(p) ==
    IF at[p] = Goal(p) THEN draft[p] = SchemaOf(at[p])
    ELSE /\ statement[p] \in 1..Len(Script(p))
         /\ draft[p] = Through(SchemaOf(at[p]), Script(p))[statement[p] - 1]

SchemaInv ==
    /\ DOMAIN draft = Migrators
    /\ \A p \in Migrators : run[p] = "running" => OnTheWay(p)

\* What the scripts give a transaction: at its first statement it has the
\* schema of its revision; a statement in the middle is not refused and leads
\* to the next; the last leads to the next revision.
LEMMA ScriptFacts ==
    ASSUME NEW s, NEW ops, NEW t, Leads(s, ops, t)
    PROVE  /\ Len(ops) \in Nat \ {0} /\ Through(s, ops)[0] = s /\ Through(s, ops)[Len(ops)] = t
           /\ \A i \in 1..Len(ops) : /\ ~Refused(Through(s, ops)[i - 1], ops[i])
                                     /\ Through(s, ops)[i] = Done(Through(s, ops)[i - 1], ops[i])
BY DEF Leads

\* Where a process that has not reached its goal is, and where its script leads.
Ahead(p) == IF p \in Replicas THEN at[p] + 1 ELSE at[p] - 1

LEMMA ScriptLeads ==
    ASSUME MigrationInv, NEW p \in Migrators, run[p] = "running", at[p] # Goal(p)
    PROVE  Leads(SchemaOf(at[p]), Script(p), SchemaOf(Ahead(p))) /\ Ahead(p) \in 0..5
<1>1. at[p] \in 0..5 /\ base[p] \in 0..5  BY LatestIsFive DEF MigrationInv, MigrationTypeOK
<1>2. CASE p \in Replicas
  <2>1. at[p] + 1 \in 1..5 /\ (at[p] + 1) - 1 = at[p]  BY <1>1, <1>2, LatestIsFive DEF Goal
  <2>2. Leads(SchemaOf((at[p] + 1) - 1), Upgrades[at[p] + 1], SchemaOf(at[p] + 1))
    BY <2>1, LatestIsFive, ScriptsAssumption
  <2> QED  BY <1>2, <2>1, <2>2 DEF Script, Ahead
<1>3. CASE p \notin Replicas
  <2>1. p \in Operators  BY <1>3 DEF Migrators
  <2>2. at[p] \in {base[p], base[p] - 1} /\ base[p] > 0  BY <2>1 DEF MigrationInv
  <2>3. at[p] \in 1..5  BY <1>1, <1>3, <2>2 DEF Goal
  <2>4. Leads(SchemaOf(at[p]), Downgrades[at[p]], SchemaOf(at[p] - 1))  BY <2>3, LatestIsFive, ScriptsAssumption
  <2> QED  BY <1>3, <2>3, <2>4 DEF Script, Ahead
<1> QED  BY <1>2, <1>3

\* A transaction that is at the schema of a revision, at the first statement of
\* what comes next, is on its way.
FirstStatement ==
    \A p \in Migrators :
        MigrationInv /\ run[p] = "running" /\ statement[p] = 1 /\ draft[p] = SchemaOf(at[p]) => OnTheWay(p)

LEMMA StartsOnTheWay == FirstStatement
<1> SUFFICES ASSUME MigrationInv, NEW p \in Migrators, run[p] = "running",
                    statement[p] = 1, draft[p] = SchemaOf(at[p])
             PROVE  OnTheWay(p)
  BY DEF FirstStatement
<1>1. CASE at[p] = Goal(p)  BY <1>1 DEF OnTheWay
<1>2. CASE at[p] # Goal(p)
  <2>1. Leads(SchemaOf(at[p]), Script(p), SchemaOf(Ahead(p)))  BY <1>2, ScriptLeads
  <2>2. Len(Script(p)) \in Nat \ {0} /\ Through(SchemaOf(at[p]), Script(p))[0] = SchemaOf(at[p])
    BY <2>1, ScriptFacts
  <2> QED  BY <1>2, <2>2 DEF OnTheWay
<1> QED  BY <1>1, <1>2

LEMMA StartsOnTheWayThen == FirstStatement'
BY StartsOnTheWay, PTL

\* One statement: it is not refused, and the transaction stays on its way.
LEMMA MigrateOnTheWay ==
    ASSUME MigrationInv, MigrationInv', SchemaInv, NEW p \in Migrators, Migrate(p)
    PROVE  run' = run /\ OnTheWay(p)'
<1> DEFINE ops == Script(p)
           d   == Through(SchemaOf(at[p]), ops)
           i   == statement[p]
<1>0. /\ run[p] = "running" /\ at[p] # Goal(p) /\ OnTheWay(p) /\ MigrationTypeOK /\ DOMAIN draft = Migrators
  BY DEF Migrate, SchemaInv, MigrationInv
<1>1. i \in 1..Len(ops) /\ draft[p] = d[i - 1]  BY <1>0 DEF OnTheWay
<1>2. Leads(SchemaOf(at[p]), ops, SchemaOf(Ahead(p)))  BY <1>0, ScriptLeads
<1>3. /\ Len(ops) \in Nat \ {0} /\ d[Len(ops)] = SchemaOf(Ahead(p))
      /\ ~Refused(d[i - 1], ops[i]) /\ d[i] = Done(d[i - 1], ops[i])
  <2> HIDE DEF ops, i
  <2> QED  BY <1>1, <1>2, ScriptFacts
<1>4. /\ run' = [run EXCEPT ![p] = IF Refused(draft[p], ops[i]) THEN "failed" ELSE @]
      /\ draft' = [draft EXCEPT ![p] = IF Refused(draft[p], ops[i]) THEN {} ELSE Done(@, ops[i])]
      /\ statement' = [statement EXCEPT ![p] = IF i = Len(ops) THEN 1 ELSE @ + 1]
      /\ at' = [at EXCEPT ![p] = IF i # Len(ops) THEN @ ELSE IF p \in Replicas THEN @ + 1 ELSE @ - 1]
      /\ base' = base
  BY DEF Migrate, Script
<1>5. run' = run  BY <1>0, <1>1, <1>3, <1>4 DEF MigrationTypeOK
<1>6. draft'[p] = d[i]  BY <1>0, <1>1, <1>3, <1>4
<1> HIDE DEF ops, i, d
<1>7. CASE i = Len(ops)
  <2>1. statement'[p] = 1 /\ at'[p] = Ahead(p)  BY <1>0, <1>4, <1>7 DEF MigrationTypeOK, Ahead
  <2>2. draft'[p] = SchemaOf(at'[p])  BY <1>3, <1>6, <1>7, <2>1
  <2>3. MigrationInv' /\ run'[p] = "running" /\ statement'[p] = 1 /\ draft'[p] = SchemaOf(at'[p]) => OnTheWay(p)'
    BY StartsOnTheWayThen DEF FirstStatement
  <2> QED  BY <1>0, <1>5, <2>1, <2>2, <2>3
<1>8. CASE i # Len(ops)
  <2>1. statement'[p] = i + 1 /\ at'[p] = at[p]  BY <1>0, <1>4, <1>8 DEF MigrationTypeOK, i
  <2>2. i + 1 \in 1..Len(ops) /\ (i + 1) - 1 = i  BY <1>1, <1>3, <1>8
  <2>3. Script(p)' = ops /\ Goal(p)' = Goal(p)  BY <1>4, <2>1 DEF Script, Goal, ops
  <2>4. Through(SchemaOf(at'[p]), Script(p)') = d  BY <2>1, <2>3 DEF d
  <2>5. at'[p] # Goal(p)' /\ statement'[p] \in 1..Len(Script(p)') /\ draft'[p] = d[statement'[p] - 1]
    BY <1>0, <1>6, <2>1, <2>2, <2>3
  <2> QED  BY <1>5, <2>4, <2>5 DEF OnTheWay
<1> QED  BY <1>5, <1>7, <1>8

SoundInv == MigrationInv /\ SchemaInv /\ VersionNamesSchema /\ NoRunFails

LEMMA SoundInvInit == MigrationInit => SoundInv
BY MigrationInvInit DEF MigrationInit, SoundInv, SchemaInv, VersionNamesSchema, NoRunFails, SchemaOf

\* A process whose own transaction stays as it is stays on its way.
LEMMA OtherOnTheWay ==
    ASSUME NEW p \in Migrators, OnTheWay(p), at'[p] = at[p], base'[p] = base[p],
           statement'[p] = statement[p], draft'[p] = draft[p]
    PROVE  OnTheWay(p)'
BY DEF OnTheWay, Script, Goal

LEMMA SoundInvNext ==
    ASSUME SoundInv, [MigrationNext]_migVars
    PROVE  SoundInv'
<1>0. MigrationInv /\ SchemaInv /\ VersionNamesSchema /\ NoRunFails /\ MigrationTypeOK /\ DOMAIN draft = Migrators
  BY DEF SoundInv, MigrationInv, SchemaInv
<1>1. MigrationInv'  BY <1>0, MigrationInvNext
<1>2. ASSUME NEW p \in Migrators, Begin(p) \/ Lock(p)  PROVE SoundInv'
  <2>1. PICK new \in {"waiting", "locked"} : run' = [run EXCEPT ![p] = new]  BY <1>2 DEF Begin, Lock
  <2>2. UNCHANGED <<schema, version, base, at, statement, draft>>  BY <1>2 DEF Begin, Lock, txVars
  <2>3. \A q \in Migrators : run'[q] = "running" => OnTheWay(q)'
    BY <1>0, <2>1, <2>2, OtherOnTheWay DEF MigrationTypeOK, SchemaInv
  <2> QED  BY <1>0, <1>1, <2>1, <2>2, <2>3 DEF SoundInv, SchemaInv, VersionNamesSchema, NoRunFails, MigrationTypeOK
<1>3. ASSUME NEW p \in Migrators, ReadVersion(p)  PROVE SoundInv'
  <2>1. /\ run' = [run EXCEPT ![p] = IF p \in Operators /\ version = 0 THEN "refused" ELSE "running"]
        /\ base' = [base EXCEPT ![p] = version] /\ at' = [at EXCEPT ![p] = version]
        /\ statement' = [statement EXCEPT ![p] = 1] /\ draft' = [draft EXCEPT ![p] = schema]
        /\ UNCHANGED <<schema, version>>
    BY <1>3 DEF ReadVersion
  <2>2. statement'[p] = 1 /\ draft'[p] = SchemaOf(at'[p])  BY <1>0, <2>1 DEF MigrationTypeOK, VersionNamesSchema
  <2>3. MigrationInv' /\ run'[p] = "running" /\ statement'[p] = 1 /\ draft'[p] = SchemaOf(at'[p]) => OnTheWay(p)'
    BY StartsOnTheWayThen DEF FirstStatement
  <2>4. ASSUME NEW q \in Migrators, run'[q] = "running"  PROVE OnTheWay(q)'
    <3>1. CASE q = p  BY <1>1, <2>2, <2>3, <2>4, <3>1
    <3>2. CASE q # p
      <4>1. /\ run'[q] = run[q] /\ at'[q] = at[q] /\ base'[q] = base[q]
            /\ statement'[q] = statement[q] /\ draft'[q] = draft[q]
        BY <1>0, <2>1, <3>2 DEF MigrationTypeOK
      <4> QED  BY <1>0, <2>4, <4>1, OtherOnTheWay DEF SchemaInv
    <3> QED  BY <3>1, <3>2
  <2> QED  BY <1>0, <1>1, <2>1, <2>4 DEF SoundInv, SchemaInv, VersionNamesSchema, NoRunFails, MigrationTypeOK
<1>4. ASSUME NEW p \in Migrators, Migrate(p)  PROVE SoundInv'
  <2>1. run' = run /\ OnTheWay(p)'  BY <1>0, <1>1, <1>4, MigrateOnTheWay
  <2>2. /\ DOMAIN draft' = Migrators /\ UNCHANGED <<schema, version, base>>
        /\ \A q \in Migrators \ {p} : at'[q] = at[q] /\ statement'[q] = statement[q] /\ draft'[q] = draft[q]
    BY <1>0, <1>4 DEF Migrate, MigrationTypeOK
  <2>3. ASSUME NEW q \in Migrators, run'[q] = "running"  PROVE OnTheWay(q)'
    BY <1>0, <2>1, <2>2, <2>3, OtherOnTheWay DEF SchemaInv
  <2> QED  BY <1>0, <1>1, <2>1, <2>2, <2>3 DEF SoundInv, SchemaInv, VersionNamesSchema, NoRunFails
<1>5. ASSUME NEW p \in Migrators, CommitMigration(p)  PROVE SoundInv'
  <2>1. run[p] = "running" /\ at[p] = Goal(p) /\ version = base[p] /\ OnTheWay(p)
    BY <1>0, <1>5 DEF CommitMigration, MigrationInv, SchemaInv
  <2>2. /\ run' = [run EXCEPT ![p] = "committed"] /\ schema' = draft[p] /\ version' = at[p]
        /\ UNCHANGED <<base, at, statement, draft>>
    BY <1>5, <2>1 DEF CommitMigration, txVars
  <2>3. schema' = SchemaOf(version')  BY <2>1, <2>2 DEF OnTheWay
  <2>4. \A q \in Migrators : run'[q] = "running" => OnTheWay(q)'
    BY <1>0, <2>2, OtherOnTheWay DEF MigrationTypeOK, SchemaInv
  <2> QED  BY <1>0, <1>1, <2>2, <2>3, <2>4 DEF SoundInv, SchemaInv, VersionNamesSchema, NoRunFails, MigrationTypeOK
<1>6. ASSUME NEW p \in Migrators, Close(p) \/ Die(p)  PROVE SoundInv'
  <2>1. run' = [run EXCEPT ![p] = "idle"] /\ Forget(p) /\ UNCHANGED <<schema, version>>  BY <1>6 DEF Close, Die
  <2>2. /\ DOMAIN draft' = Migrators
        /\ \A q \in Migrators \ {p} : /\ run'[q] = run[q] /\ at'[q] = at[q] /\ base'[q] = base[q]
                                      /\ statement'[q] = statement[q] /\ draft'[q] = draft[q]
    BY <1>0, <2>1 DEF Forget, MigrationTypeOK
  <2>3. run'[p] = "idle"  BY <1>0, <2>1 DEF MigrationTypeOK
  <2>4. ASSUME NEW q \in Migrators, run'[q] = "running"  PROVE OnTheWay(q)'
    BY <1>0, <2>2, <2>3, <2>4, OtherOnTheWay DEF SchemaInv
  <2> QED  BY <1>0, <1>1, <2>1, <2>2, <2>3, <2>4 DEF SoundInv, SchemaInv, VersionNamesSchema, NoRunFails
<1>7. CASE UNCHANGED migVars
  <2>1. UNCHANGED <<schema, version, run, base, at, statement, draft>>  BY <1>7 DEF migVars, txVars
  <2>2. \A q \in Migrators : run'[q] = "running" => OnTheWay(q)'
    BY <1>0, <2>1, OtherOnTheWay DEF SchemaInv
  <2> QED  BY <1>0, <1>1, <2>1, <2>2 DEF SoundInv, SchemaInv, VersionNamesSchema, NoRunFails
<1> QED  BY <1>2, <1>3, <1>4, <1>5, <1>6, <1>7 DEF MigrationNext, Proceed

\* The schema stays whole, and no run fails, however many containers and
\* consoles migrate it at once and die: given what each script does by itself,
\* the lock and the transactions do the rest (do_run_migrations).
THEOREM SchemaStaysSound == MigrationSpec => []SchemaIsSound
<1>1. MigrationInit => SoundInv  BY SoundInvInit
<1>2. SoundInv /\ [MigrationNext]_migVars => SoundInv'  BY SoundInvNext
<1>3. SoundInv => SchemaIsSound
  <2>1. SoundInv => HeadIsMetadata  BY ScriptsAssumption DEF SoundInv, VersionNamesSchema, HeadIsMetadata
  <2> QED  BY <2>1 DEF SoundInv, SchemaIsSound
<1> QED  BY <1>1, <1>2, <1>3, PTL DEF MigrationSpec

-----------------------------------------------------------------------------
(* Accounts                                                                *)

LEMMA AccountsInvInit == AccountsInit => AccountsInv
<1> SUFFICES ASSUME AccountsInit PROVE AccountsInv
  OBVIOUS
<1> USE AccountsAssumption DEF Nobody, Admin, Client
<1>1. AccountsTypeOK  BY DEF AccountsInit, AccountsTypeOK, Requests
<1>2. RowsOK  BY DEF AccountsInit, RowsOK, Users, NoAddress, Anon
<1>3. \A q \in Requests : Waiting(q)  BY DEF AccountsInit, Waiting, Requests
<1> QED  BY <1>1, <1>2, <1>3 DEF AccountsInv

\* An account that is found by its address is there and was not erased.
LEMMA FoundIsThere ==
    ASSUME RowsOK, AccountsTypeOK, NEW e \in Addresses, get_user_by_email(e) # Nobody
    PROVE  get_user_by_email(e) \in Users \ erased
<1> DEFINE found == {u \in Users : email[u] = normalize_email(e)}
<1>1. found # {}  BY DEF get_user_by_email
<1>2. get_user_by_email(e) \in found  BY <1>1 DEF get_user_by_email
<1>3. ASSUME NEW u \in erased  PROVE email[u] # normalize_email(e)
  <2>0. email[u] = Anon(u)  BY DEF RowsOK
  <2>1. email[u].form = "anon"  BY <2>0 DEF Anon
  <2>2. e = [box |-> e.box, form |-> e.form]  BY AccountsAssumption
  <2>3. normalize_email(e).form = "plain"  BY <2>2 DEF normalize_email
  <2> QED  BY <2>1, <2>3
<1> QED  BY <1>2, <1>3

Kinds == {"none", "register", "create_admin", "console", "login", "guess", "export", "anonymize"}

\* What is known of a request q that has just arrived, and of the others.
Arrived(q, k, u, e, s) ==
    /\ arrived' \in 0..MaxRequests
    /\ \A r \in Requests : r > arrived' => pc[r] = "new" /\ answer[r] = "none" /\ r # q
    /\ kind' \in [Requests -> Kinds]
    /\ by' \in [Requests -> Ids \cup {Nobody}] /\ about' \in [Requests -> Ids \cup {Nobody}]
    /\ typed' \in [Requests -> Addresses \cup {NoAddress}]
    /\ gone' \in [Requests -> SUBSET Ids]
    /\ kind'[q] = k /\ by'[q] = u /\ about'[q] = s /\ typed'[q] = e /\ gone'[q] = erased
    /\ answer[q] = "none"
    /\ \A r \in Requests \ {q} :
          kind'[r] = kind[r] /\ by'[r] = by[r] /\ about'[r] = about[r] /\ gone'[r] = gone[r] /\ typed'[r] = typed[r]

LEMMA ArriveArrived ==
    ASSUME AccountsTypeOK, NEW q \in Requests, NEW u \in Ids \cup {Nobody}, NEW s \in Ids \cup {Nobody},
           NEW e \in Addresses \cup {NoAddress}, NEW k \in Kinds, Arrive(q, k, u, e, s)
    PROVE  Arrived(q, k, u, e, s)
BY AccountsAssumption DEF AccountsTypeOK, Arrive, Requests, Kinds, Arrived

\* A request whose own record, and whose accounts' roles, stay as they were.
LEMMA OthersWait ==
    ASSUME NEW r \in Requests, Waiting(r),
           pc'[r] = pc[r], answer'[r] = answer[r], verdict'[r] = verdict[r], kind'[r] = kind[r],
           by'[r] = by[r], about'[r] = about[r], gone'[r] = gone[r], typed'[r] = typed[r],
           \A u \in Users : u \in Users' /\ role'[u] = role[u]
    PROVE  Waiting(r)'
BY DEF Waiting

\* Rows that no request touches.
LEMMA RowsKept == ASSUME RowsOK, UNCHANGED <<rowVars, token, erased>> PROVE RowsOK'
BY DEF RowsOK, rowVars, Users

\* The common part of the steps by which a request arrives.
LEMMA ArrivalKeeps ==
    ASSUME AccountsInv, NEW q \in Requests, NEW k \in Kinds, NEW u, NEW e, NEW s, Arrived(q, k, u, e, s),
           UNCHANGED <<rowVars, token, audit, erased, errors>>,
           jobs' \in {jobs, Append(jobs, q)}, hashing' = hashing,
           NEW step \in {"hash", "insert", "audit", "erase", "done"},
           NEW status \in {"none", "401", "403"}, NEW v \in {"none", "ok", "no", "denied", "not_found"},
           pc' = [pc EXCEPT ![q] = step], answer' = [answer EXCEPT ![q] = status],
           verdict' = [verdict EXCEPT ![q] = v] \/ verdict' = verdict,
           Waiting(q)'
    PROVE  AccountsInv'
<1>0. AccountsTypeOK /\ RowsOK /\ \A r \in Requests : Waiting(r)  BY DEF AccountsInv
<1>a. jobs' \in Seq(Requests)
  <2>1. jobs \in Seq(Requests)  BY <1>0 DEF AccountsTypeOK
  <2> QED  BY <2>1
<1>b. verdict' \in [Requests -> {"none", "ok", "no", "denied", "not_found"}]  BY <1>0 DEF AccountsTypeOK
<1>c. /\ pc' \in [Requests -> {"new", "hash", "insert", "activity", "audit", "erase", "done"}]
      /\ answer' \in [Requests -> {"none", "ok", "401", "403", "404", "409", "500"}]
  BY <1>0 DEF AccountsTypeOK
<1>d. \A r \in Requests : r > arrived' => pc'[r] = "new" /\ answer'[r] = "none"  BY <1>0 DEF AccountsTypeOK, Arrived
<1>e. /\ role' \in [Ids -> {"none", "user", "admin"}] /\ DOMAIN email' = Ids /\ erased' \subseteq Ids
      /\ active' = active /\ token' = token /\ hashing' \subseteq Requests
  BY <1>0 DEF AccountsTypeOK, rowVars
<1>1. AccountsTypeOK'
  BY <1>0, <1>a, <1>b, <1>c, <1>d, <1>e DEF AccountsTypeOK, Arrived, Kinds
<1>2. RowsOK'  BY <1>0, RowsKept
<1>3. ASSUME NEW r \in Requests \ {q}  PROVE Waiting(r)'
  BY <1>0, OthersWait DEF AccountsTypeOK, Arrived, rowVars, Users
<1> QED  BY <1>1, <1>2, <1>3 DEF AccountsInv

\* The common part of the steps by which a request goes on: rows may be
\* inserted, and change as RowsOK allows.
LEMMA ServiceKeeps ==
    ASSUME AccountsInv, NEW q \in Requests, pc[q] # "new", UNCHANGED <<reqVars, verdict>>,
           NEW step \in {"insert", "activity", "done"},
           NEW status \in {"none", "ok", "401", "403", "404", "409", "500"},
           pc' = [pc EXCEPT ![q] = step], answer' = [answer EXCEPT ![q] = status],
           role' \in [Ids -> {"none", "user", "admin"}], DOMAIN email' = Ids,
           active' \in [Ids -> BOOLEAN], token' \in [Ids -> BOOLEAN], erased' \subseteq Ids,
           jobs' = jobs, hashing' \subseteq hashing,
           \A u \in Users : role'[u] = role[u],
           RowsOK', Waiting(q)'
    PROVE  AccountsInv'
<1>0. AccountsTypeOK /\ RowsOK /\ \A r \in Requests : Waiting(r)  BY DEF AccountsInv
<1>1. UNCHANGED <<arrived, kind, by, typed, about, gone>>  BY DEF reqVars
<1>2. \A r \in Requests : r > arrived' => pc'[r] = "new" /\ answer'[r] = "none"
  BY <1>0, <1>1 DEF AccountsTypeOK
<1>3. /\ pc' \in [Requests -> {"new", "hash", "insert", "activity", "audit", "erase", "done"}]
      /\ answer' \in [Requests -> {"none", "ok", "401", "403", "404", "409", "500"}]
  BY <1>0 DEF AccountsTypeOK
<1>4. jobs' \in Seq(Requests) /\ hashing' \subseteq Requests  BY <1>0 DEF AccountsTypeOK
<1>5. AccountsTypeOK'  BY <1>0, <1>1, <1>2, <1>3, <1>4 DEF AccountsTypeOK
<1>6. \A u \in Users : u \in Users'  BY DEF Users
<1>7. ASSUME NEW r \in Requests \ {q}  PROVE Waiting(r)'
  BY <1>0, <1>1, <1>6, OthersWait DEF AccountsTypeOK
<1> QED  BY <1>5, <1>7 DEF AccountsInv

\* A commit that fails answers 500 and leaves the rows alone.
LEMMA FailKeeps ==
    ASSUME AccountsInv, NEW q \in Requests, pc[q] # "new", Fail(q),
           UNCHANGED <<rowVars, token, reqVars, verdict, poolVars, erased>>
    PROVE  AccountsInv'
<1>0. AccountsTypeOK /\ RowsOK  BY DEF AccountsInv
<1>1. pc' = [pc EXCEPT ![q] = "done"] /\ answer' = [answer EXCEPT ![q] = "500"]  BY DEF Fail, Reply
<1>2. /\ role' \in [Ids -> {"none", "user", "admin"}] /\ DOMAIN email' = Ids
      /\ active' \in [Ids -> BOOLEAN] /\ token' \in [Ids -> BOOLEAN] /\ erased' \subseteq Ids
      /\ jobs' = jobs /\ hashing' \subseteq hashing
      /\ \A u \in Users : role'[u] = role[u]
  BY <1>0 DEF AccountsTypeOK, rowVars, poolVars
<1>3. RowsOK'  BY <1>0, RowsKept
<1>4. Waiting(q)'  BY <1>0, <1>1 DEF Waiting, AccountsTypeOK
<1> QED  BY <1>1, <1>2, <1>3, <1>4, ServiceKeeps

\* The rows after an insert: the address is new, and the id too.
LEMMA InsertRows ==
    ASSUME AccountsTypeOK, RowsOK, NEW q \in Requests, NEW u \in Ids \ Users,
           NEW new \in {"user", "admin"}, typed[q] \in Addresses,
           \A w \in Ids : email[w] # normalize_email(typed[q]),
           email' = [email EXCEPT ![u] = normalize_email(typed[q])],
           role' = [role EXCEPT ![u] = new], active' = [active EXCEPT ![u] = TRUE],
           UNCHANGED <<token, erased>>
    PROVE  RowsOK'
<1> DEFINE e == normalize_email(typed[q])
<1>1. e = [box |-> e.box, form |-> "plain"]
  <2>1. typed[q] = [box |-> typed[q].box, form |-> typed[q].form]  BY AccountsAssumption
  <2> QED  BY <2>1 DEF normalize_email
<1>2. email' = [email EXCEPT ![u] = e] /\ \A w \in Ids : email[w] # e  OBVIOUS
<1> HIDE DEF e
<1>3. Users' = Users \cup {u} /\ u \notin erased /\ Users \subseteq Ids
  BY DEF Users, AccountsTypeOK, RowsOK
<1>4. email'[u] = e /\ \A w \in Ids \ {u} : email'[w] = email[w]  BY <1>2 DEF AccountsTypeOK
<1>5. \A w \in Ids \ {u} : active'[w] = active[w]  BY DEF AccountsTypeOK
<1>6. \A w \in Ids : w \notin Users' => email'[w] = NoAddress /\ ~token'[w]
  BY <1>3, <1>4 DEF RowsOK
<1>7. \A w \in Users' \ erased' : email'[w] = [box |-> email'[w].box, form |-> "plain"]
  BY <1>1, <1>3, <1>4 DEF RowsOK
<1>8. \A w \in erased' : email'[w] = Anon(w) /\ ~active'[w] /\ w \in Users'
  BY <1>3, <1>4, <1>5 DEF RowsOK, AccountsTypeOK
<1>9. \A w, x \in Users' : w # x => email'[w] # email'[x]
  BY <1>2, <1>3, <1>4 DEF RowsOK
<1> QED  BY <1>6, <1>7, <1>8, <1>9 DEF RowsOK, Anon, NoAddress

LEMMA AccountsInvNext ==
    ASSUME AccountsInv, [AccountsNext]_accVars
    PROVE  AccountsInv'
<1> USE AccountsAssumption DEF Nobody
<1>0. AccountsTypeOK /\ RowsOK /\ \A q \in Requests : Waiting(q)  BY DEF AccountsInv
<1>1. ASSUME NEW q \in Requests, NEW e \in Addresses, Register(q, e)  PROVE AccountsInv'
  <2>0. Arrived(q, "register", Nobody, e, Nobody)  BY <1>0, <1>1, ArriveArrived DEF Register, Kinds
  <2>1. /\ pc' = [pc EXCEPT ![q] = "hash"] /\ answer' = [answer EXCEPT ![q] = "none"]
        /\ jobs' = Append(jobs, q) /\ hashing' = hashing /\ verdict' = verdict
        /\ UNCHANGED <<rowVars, token, audit, erased, errors>>
    BY <1>0, <1>1, <2>0 DEF Register, Goto, Submit, Arrived, AccountsTypeOK
  <2>2. Waiting(q)'
    BY <1>0, <2>0, <2>1 DEF Waiting, AccountsTypeOK, Arrived
  <2> QED  BY <2>0, <2>1, <2>2, ArrivalKeeps DEF Kinds
<1>2. ASSUME NEW q \in Requests, NEW e \in Addresses, NEW u \in Users, create_admin(q, u, e)
      PROVE  AccountsInv'
  <2>a. u \in Ids  BY DEF Users
  <2>0. Arrived(q, "create_admin", u, e, Nobody)  BY <1>0, <1>2, <2>a, ArriveArrived DEF create_admin, Kinds
  <2>1. UNCHANGED <<rowVars, token, audit, erased, errors, verdict, hashing>>
    BY <1>2 DEF create_admin, Submit, poolVars
  <2>2. CASE Authentic(u) /\ role[u] = "admin"
    <3>1. /\ pc' = [pc EXCEPT ![q] = "hash"] /\ answer' = [answer EXCEPT ![q] = "none"]
          /\ jobs' = Append(jobs, q)
      BY <1>0, <1>2, <2>0, <2>2 DEF create_admin, Goto, Submit, Arrived, AccountsTypeOK
    <3>2. u \notin erased  BY <1>0, <2>2 DEF Authentic, RowsOK
    <3>3. Waiting(q)'
      BY <1>0, <2>0, <2>1, <2>2, <3>1, <3>2 DEF Waiting, AccountsTypeOK, Arrived, rowVars, Users
    <3> QED  BY <2>0, <2>1, <3>1, <3>3, ArrivalKeeps DEF Kinds
  <2>3. CASE ~(Authentic(u) /\ role[u] = "admin")
    <3> DEFINE status == IF Authentic(u) THEN "403" ELSE "401"
    <3>1. /\ pc' = [pc EXCEPT ![q] = "done"] /\ answer' = [answer EXCEPT ![q] = status] /\ jobs' = jobs
      BY <1>2, <2>3 DEF create_admin, Reply, poolVars
    <3>2. status \in {"401", "403"}  OBVIOUS
    <3> HIDE DEF status
    <3>3. Waiting(q)'  BY <1>0, <3>1, <3>2 DEF Waiting, AccountsTypeOK
    <3> QED  BY <2>0, <2>1, <3>1, <3>2, <3>3, ArrivalKeeps DEF Kinds
  <2> QED  BY <2>2, <2>3
<1>3. ASSUME NEW q \in Requests, NEW e \in Addresses, console_create_admin(q, e)  PROVE AccountsInv'
  <2>0. Arrived(q, "console", Nobody, e, Nobody)  BY <1>0, <1>3, ArriveArrived DEF console_create_admin, Kinds
  <2>1. /\ pc' = [pc EXCEPT ![q] = "insert"] /\ answer' = [answer EXCEPT ![q] = "none"]
        /\ UNCHANGED <<rowVars, token, audit, erased, errors, verdict, jobs, hashing>>
    BY <1>0, <1>3, <2>0 DEF console_create_admin, Goto, Arrived, AccountsTypeOK, poolVars
  <2>2. Waiting(q)'  BY <1>0, <2>0, <2>1 DEF Waiting, AccountsTypeOK, Arrived
  <2> QED  BY <2>0, <2>1, <2>2, ArrivalKeeps DEF Kinds
<1>4. ASSUME NEW q \in Requests, NEW e \in Addresses, NEW right \in BOOLEAN, login(q, e, right)
      PROVE  AccountsInv'
  <2> DEFINE user == get_user_by_email(e)
             k    == IF right THEN "login" ELSE "guess"
             v    == IF user # Nobody /\ right /\ active[user] THEN "ok" ELSE "no"
  <2>a. user # Nobody => user \in Users \ erased  BY <1>0, FoundIsThere
  <2>b. user \in Ids \cup {Nobody}  BY <2>a DEF Users
  <2>c. k \in {"login", "guess"}  OBVIOUS
  <2>d. v \in {"ok", "no"} /\ (v = "ok" => user # Nobody)  OBVIOUS
  <2>e. Arrive(q, k, user, e, Nobody)  BY <1>4 DEF login
  <2>1. /\ pc' = [pc EXCEPT ![q] = "hash"] /\ answer' = answer
        /\ verdict' = [verdict EXCEPT ![q] = v]
        /\ jobs' = Append(jobs, q) /\ hashing' = hashing
        /\ UNCHANGED <<rowVars, token, audit, erased, errors>>
    BY <1>4 DEF login, Goto, Submit
  <2> HIDE DEF user, k, v
  <2>0. Arrived(q, k, user, e, Nobody)  BY <1>0, <2>b, <2>c, <2>e, ArriveArrived DEF Kinds
  <2>2. answer' = [answer EXCEPT ![q] = "none"]  BY <1>0, <2>0, <2>1 DEF Arrived, AccountsTypeOK
  <2>3. Nobody \notin erased  BY <1>0 DEF AccountsTypeOK
  <2>4. Waiting(q)'
    BY <1>0, <2>a, <2>c, <2>d, <2>0, <2>1, <2>2, <2>3 DEF Waiting, AccountsTypeOK, Arrived, Users, rowVars
  <2>5. k \in Kinds /\ v \in {"none", "ok", "no", "denied", "not_found"}  BY <2>c, <2>d DEF Kinds
  <2> QED  BY <2>0, <2>1, <2>2, <2>4, <2>5, ArrivalKeeps
<1>5. ASSUME NEW q \in Requests, NEW u \in Users, NEW s \in Ids, NEW k \in {"export", "anonymize"},
             on_subject(q, k, u, s)
      PROVE  AccountsInv'
  <2> DEFINE v == access(u, s)
             step == IF k = "anonymize" /\ v = "ok" THEN "erase" ELSE "audit"
  <2>a. u \in Ids  BY DEF Users
  <2>b. /\ v \in {"ok", "denied", "not_found"}
        /\ v # "denied" => u = s \/ role[u] = "admin"
        /\ v = "ok" => s \in Users
    BY DEF access
  <2>c. step \in {"audit", "erase"} /\ (step = "erase" => v = "ok")  OBVIOUS
  <2>0. Arrived(q, k, u, NoAddress, s)  BY <1>0, <1>5, <2>a, ArriveArrived DEF on_subject, Kinds
  <2>1. UNCHANGED <<rowVars, token, audit, erased, errors, jobs, hashing>>  BY <1>5 DEF on_subject, poolVars
  <2>2. CASE Authentic(u)
    <3>1. /\ pc' = [pc EXCEPT ![q] = step] /\ answer' = answer /\ verdict' = [verdict EXCEPT ![q] = v]
      BY <1>5, <2>2 DEF on_subject, Goto
    <3>2. u \notin erased  BY <1>0, <2>2 DEF Authentic, RowsOK
    <3> HIDE DEF v, step
    <3>3. answer' = [answer EXCEPT ![q] = "none"]  BY <1>0, <2>0, <3>1 DEF Arrived, AccountsTypeOK
    <3>4. Waiting(q)'
      BY <1>0, <2>b, <2>c, <2>0, <2>1, <3>1, <3>2, <3>3 DEF Waiting, AccountsTypeOK, Arrived, rowVars, Users
    <3>5. /\ k \in Kinds /\ v \in {"none", "ok", "no", "denied", "not_found"}
          /\ step \in {"hash", "insert", "audit", "erase", "done"}
      BY <2>b, <2>c DEF Kinds
    <3> QED  BY <2>0, <2>1, <3>1, <3>3, <3>4, <3>5, ArrivalKeeps
  <2>3. CASE ~Authentic(u)
    <3>1. /\ pc' = [pc EXCEPT ![q] = "done"] /\ answer' = [answer EXCEPT ![q] = "401"]
          /\ verdict' = [verdict EXCEPT ![q] = verdict[q]]
      BY <1>5, <2>3 DEF on_subject, Reply
    <3>2. verdict' = verdict  BY <1>0, <3>1 DEF AccountsTypeOK
    <3>3. Waiting(q)'  BY <1>0, <3>1 DEF Waiting, AccountsTypeOK
    <3>4. k \in Kinds  BY DEF Kinds
    <3> QED  BY <2>0, <2>1, <3>1, <3>2, <3>3, <3>4, ArrivalKeeps
  <2> QED  BY <2>2, <2>3
<1>6. ASSUME NEW q \in Requests, no_token(q)  PROVE AccountsInv'
  <2>0. Arrived(q, "none", Nobody, NoAddress, Nobody)  BY <1>0, <1>6, ArriveArrived DEF no_token, Kinds
  <2>1. /\ pc' = [pc EXCEPT ![q] = "done"] /\ answer' = [answer EXCEPT ![q] = "401"]
        /\ UNCHANGED <<rowVars, token, audit, erased, errors, verdict, jobs, hashing>>
    BY <1>6 DEF no_token, Reply, poolVars
  <2>2. Waiting(q)'  BY <1>0, <2>1 DEF Waiting, AccountsTypeOK
  <2> QED  BY <2>0, <2>1, <2>2, ArrivalKeeps DEF Kinds
<1>7. ASSUME NEW q \in Requests, Hashed(q)  PROVE AccountsInv'
  <2>1. UNCHANGED <<rowVars, token, reqVars, verdict, jobs, erased>> /\ hashing' \subseteq hashing
    BY <1>7 DEF Hashed
  <2>2. pc[q] = "hash" /\ Waiting(q)  BY <1>0, <1>7 DEF Hashed
  <2>3. RowsOK'  BY <1>0, <2>1, RowsKept
  <2>4. /\ role' \in [Ids -> {"none", "user", "admin"}] /\ DOMAIN email' = Ids
        /\ active' \in [Ids -> BOOLEAN] /\ token' \in [Ids -> BOOLEAN] /\ erased' \subseteq Ids
        /\ \A u \in Users : role'[u] = role[u]
    BY <1>0, <2>1 DEF AccountsTypeOK, rowVars
  <2>5. UNCHANGED <<kind, by, about, typed, gone, role>>  BY <2>1 DEF reqVars, rowVars
  <2>6. CASE kind[q] \notin {"login", "guess"} \/ verdict[q] = "ok"
    <3> DEFINE step == IF kind[q] \notin {"login", "guess"} THEN "insert" ELSE "activity"
    <3>1. pc' = [pc EXCEPT ![q] = step] /\ answer' = answer  BY <1>7, <2>6 DEF Hashed, Goto
    <3>2. step \in {"insert", "activity"} /\ (step = "activity" => kind[q] \in {"login", "guess"})  OBVIOUS
    <3> HIDE DEF step
    <3>3. answer' = [answer EXCEPT ![q] = answer[q]] /\ answer[q] \in {"none", "ok", "401", "403", "404", "409", "500"}
      BY <1>0, <3>1 DEF AccountsTypeOK
    <3>4. Waiting(q)'
      BY <1>0, <2>1, <2>2, <2>5, <2>6, <3>1, <3>2 DEF Waiting, AccountsTypeOK, Users
    <3> QED  BY <2>1, <2>2, <2>3, <2>4, <3>1, <3>2, <3>3, <3>4, ServiceKeeps
  <2>7. CASE ~(kind[q] \notin {"login", "guess"} \/ verdict[q] = "ok")
    <3>1. pc' = [pc EXCEPT ![q] = "done"] /\ answer' = [answer EXCEPT ![q] = "401"]
      BY <1>7, <2>7 DEF Hashed, Reply
    <3>2. Waiting(q)'  BY <1>0, <3>1 DEF Waiting, AccountsTypeOK
    <3> QED  BY <2>1, <2>2, <2>3, <2>4, <3>1, <3>2, ServiceKeeps
  <2> QED  BY <2>6, <2>7
<1>8. ASSUME NEW q \in Requests, Insert(q)  PROVE AccountsInv'
  <2>0. UNCHANGED <<token, reqVars, verdict, poolVars, audit, erased>> /\ pc[q] = "insert"  BY <1>8 DEF Insert
  <2>1. CASE Fail(q) /\ UNCHANGED rowVars  BY <2>0, <2>1, FailKeeps
  <2>2. CASE Reply(q, "409") /\ UNCHANGED rowVars
    <3>1. pc' = [pc EXCEPT ![q] = "done"] /\ answer' = [answer EXCEPT ![q] = "409"]  BY <2>2 DEF Reply
    <3>2. /\ role' \in [Ids -> {"none", "user", "admin"}] /\ DOMAIN email' = Ids
          /\ active' \in [Ids -> BOOLEAN] /\ token' \in [Ids -> BOOLEAN] /\ erased' \subseteq Ids
          /\ jobs' = jobs /\ hashing' \subseteq hashing /\ \A u \in Users : role'[u] = role[u]
      BY <1>0, <2>0, <2>2 DEF AccountsTypeOK, rowVars, poolVars
    <3>3. RowsOK'  BY <1>0, <2>0, <2>2, RowsKept
    <3>4. Waiting(q)'  BY <1>0, <3>1 DEF Waiting, AccountsTypeOK
    <3> QED  BY <2>0, <3>1, <3>2, <3>3, <3>4, ServiceKeeps
  <2>3. ASSUME NEW u \in Next_id, \A w \in Ids : email[w] # normalize_email(typed[q]),
               email' = [email EXCEPT ![u] = normalize_email(typed[q])],
               role' = [role EXCEPT ![u] = IF kind[q] = "register" THEN "user" ELSE "admin"],
               active' = [active EXCEPT ![u] = TRUE], Reply(q, "ok")
        PROVE  AccountsInv'
    <3> DEFINE new == IF kind[q] = "register" THEN "user" ELSE "admin"
    <3>1. pc' = [pc EXCEPT ![q] = "done"] /\ answer' = [answer EXCEPT ![q] = "ok"]  BY <2>3 DEF Reply
    <3>2. u \in Ids \ Users  BY DEF Next_id
    <3>3. role' = [role EXCEPT ![u] = new] /\ new \in {"user", "admin"}  BY <2>3
    <3> HIDE DEF new
    <3>4. typed[q] \in Addresses  BY <1>0, <2>0 DEF Waiting
    <3>5. RowsOK'  BY <1>0, <2>0, <2>3, <3>2, <3>3, <3>4, InsertRows
    <3>6. /\ role' \in [Ids -> {"none", "user", "admin"}] /\ DOMAIN email' = Ids
          /\ active' \in [Ids -> BOOLEAN] /\ token' \in [Ids -> BOOLEAN] /\ erased' \subseteq Ids
          /\ jobs' = jobs /\ hashing' \subseteq hashing
      <4>1. role' \in [Ids -> {"none", "user", "admin"}]  BY <1>0, <3>3 DEF AccountsTypeOK
      <4>2. active' \in [Ids -> BOOLEAN]  BY <1>0, <2>3 DEF AccountsTypeOK
      <4>3. DOMAIN email' = Ids  BY <1>0, <2>3 DEF AccountsTypeOK
      <4> QED  BY <1>0, <2>0, <4>1, <4>2, <4>3 DEF AccountsTypeOK, poolVars
    <3>7. \A w \in Users : role'[w] = role[w] /\ w \in Users'  BY <1>0, <3>2, <3>3 DEF Users, AccountsTypeOK
    <3>8. Waiting(q)  BY <1>0
    <3>9. pc'[q] = "done" /\ UNCHANGED <<kind, by, about, gone, verdict>>
      BY <1>0, <2>0, <3>1 DEF AccountsTypeOK, reqVars
    <3>10. Waiting(q)'  BY <2>0, <3>7, <3>8, <3>9 DEF Waiting
    <3> QED  BY <2>0, <3>1, <3>5, <3>6, <3>7, <3>10, ServiceKeeps
  <2> QED  BY <1>8, <2>1, <2>2, <2>3 DEF Insert
<1>9. ASSUME NEW q \in Requests, Activity(q)  PROVE AccountsInv'
  <2>0. UNCHANGED <<rowVars, reqVars, verdict, poolVars, audit, erased>> /\ pc[q] = "activity"
    BY <1>9 DEF Activity
  <2>1. CASE Fail(q) /\ UNCHANGED token  BY <2>0, <2>1, FailKeeps
  <2>2. CASE Reply(q, "ok") /\ token' = [token EXCEPT ![by[q]] = TRUE]
    <3>1. pc' = [pc EXCEPT ![q] = "done"] /\ answer' = [answer EXCEPT ![q] = "ok"]  BY <2>2 DEF Reply
    <3>2. by[q] \in Users /\ Waiting(q)  BY <1>0, <2>0 DEF Waiting
    <3>3. UNCHANGED <<email, role, active, jobs, hashing>>  BY <2>0 DEF rowVars, poolVars
    <3>4. token' \in [Ids -> BOOLEAN]  BY <1>0, <2>2, <3>2 DEF AccountsTypeOK, Users
    <3>5. \A u \in Ids \ {by[q]} : token'[u] = token[u]  BY <1>0, <2>2 DEF AccountsTypeOK
    <3>6. RowsOK'  BY <1>0, <2>0, <3>2, <3>3, <3>5 DEF RowsOK, Users
    <3>7. pc'[q] = "done" /\ UNCHANGED <<kind, by, about, gone, verdict>>
      BY <1>0, <2>0, <3>1 DEF AccountsTypeOK, reqVars
    <3>8. Waiting(q)'  BY <2>0, <3>2, <3>3, <3>7 DEF Waiting, Users
    <3>9. /\ role' \in [Ids -> {"none", "user", "admin"}] /\ DOMAIN email' = Ids
          /\ active' \in [Ids -> BOOLEAN] /\ erased' \subseteq Ids
      BY <1>0, <2>0, <3>3 DEF AccountsTypeOK
    <3> QED  BY <2>0, <3>1, <3>3, <3>4, <3>6, <3>8, <3>9, ServiceKeeps
  <2> QED  BY <1>9, <2>1, <2>2 DEF Activity
<1>10. ASSUME NEW q \in Requests, Audit(q)  PROVE AccountsInv'
  <2>0. UNCHANGED <<rowVars, token, reqVars, verdict, poolVars, erased>> /\ pc[q] = "audit"
    BY <1>10 DEF Audit
  <2>1. CASE Fail(q)  BY <2>0, <2>1, FailKeeps
  <2>2. CASE Reply(q, Told(verdict[q]))
    <3> DEFINE status == Told(verdict[q])
    <3>1. pc' = [pc EXCEPT ![q] = "done"] /\ answer' = [answer EXCEPT ![q] = status]  BY <2>2 DEF Reply
    <3>2. status \in {"ok", "404"} /\ (status = "ok" => verdict[q] = "ok")  BY DEF Told
    <3> HIDE DEF status
    <3>3. Waiting(q)  BY <1>0
    <3>4. UNCHANGED <<email, role, active, jobs, hashing>>  BY <2>0 DEF rowVars, poolVars
    <3>5. pc'[q] = "done" /\ answer'[q] = status /\ UNCHANGED <<kind, by, about, gone, verdict>>
      BY <1>0, <2>0, <3>1 DEF AccountsTypeOK, reqVars
    <3>6. Waiting(q)'  BY <2>0, <3>2, <3>3, <3>4, <3>5 DEF Waiting, Users
    <3>7. RowsOK'  BY <1>0, <2>0, RowsKept
    <3>8. /\ role' \in [Ids -> {"none", "user", "admin"}] /\ DOMAIN email' = Ids
          /\ active' \in [Ids -> BOOLEAN] /\ token' \in [Ids -> BOOLEAN] /\ erased' \subseteq Ids
      BY <1>0, <2>0, <3>4 DEF AccountsTypeOK
    <3> QED  BY <2>0, <3>1, <3>2, <3>4, <3>6, <3>7, <3>8, ServiceKeeps
  <2> QED  BY <1>10, <2>1, <2>2 DEF Audit
<1>11. ASSUME NEW q \in Requests, Erase(q)  PROVE AccountsInv'
  <2> DEFINE s == about[q]
  <2>0. UNCHANGED <<token, reqVars, verdict, poolVars>> /\ pc[q] = "erase"  BY <1>11 DEF Erase
  <2>1. CASE Fail(q) /\ UNCHANGED <<rowVars, erased>>  BY <2>0, <2>1, FailKeeps
  <2>2. CASE /\ email' = [email EXCEPT ![s] = Anon(s)]
             /\ active' = [active EXCEPT ![s] = FALSE]
             /\ erased' = erased \cup {s}
             /\ Reply(q, "ok") /\ UNCHANGED role
    <3>1. pc' = [pc EXCEPT ![q] = "done"] /\ answer' = [answer EXCEPT ![q] = "ok"]  BY <2>2 DEF Reply
    <3>2. s \in Users /\ s \in Ids /\ Waiting(q) /\ verdict[q] = "ok"  BY <1>0, <2>0 DEF Waiting, Users
    <3>3. Users' = Users  BY <2>2 DEF Users
    <3>4. email'[s] = Anon(s) /\ DOMAIN email' = Ids /\ \A u \in Ids \ {s} : email'[u] = email[u]
      BY <1>0, <2>2, <3>2 DEF RowsOK, AccountsTypeOK
    <3>5. active' \in [Ids -> BOOLEAN] /\ ~active'[s] /\ \A u \in Ids \ {s} : active'[u] = active[u]
      BY <1>0, <2>2, <3>2 DEF AccountsTypeOK
    <3>6. \A u \in Users \ {s} : email[u] # Anon(s)
      <4>1. ASSUME NEW u \in Users \ {s}, u \in erased  PROVE email[u] # Anon(s)
        <5>1. email[u] = Anon(u) /\ u # s  BY <1>0, <4>1 DEF RowsOK
        <5>2. Anon(u).box = u /\ Anon(s).box = s  BY DEF Anon
        <5> QED  BY <5>1, <5>2
      <4>2. ASSUME NEW u \in Users \ {s}, u \notin erased  PROVE email[u] # Anon(s)
        <5>1. email[u] = [box |-> email[u].box, form |-> "plain"]  BY <1>0, <4>2 DEF RowsOK
        <5> QED  BY <5>1 DEF Anon
      <4> QED  BY <4>1, <4>2
    <3>7. RowsOK'
      <4>1. Users \subseteq Ids /\ erased \subseteq Ids  BY <1>0 DEF Users, AccountsTypeOK
      <4>2. \A u \in Ids : u \notin Users' => email'[u] = NoAddress /\ ~token'[u]
        BY <1>0, <2>0, <3>2, <3>3, <3>4 DEF RowsOK
      <4>3. \A u \in Users' \ erased' : email'[u] = [box |-> email'[u].box, form |-> "plain"]
        BY <1>0, <2>2, <3>3, <3>4, <4>1 DEF RowsOK
      <4>4. \A u \in erased' : email'[u] = Anon(u) /\ ~active'[u] /\ u \in Users'
        BY <1>0, <2>2, <3>2, <3>3, <3>4, <3>5, <4>1 DEF RowsOK
      <4>5. \A u, w \in Users' : u # w => email'[u] # email'[w]
        BY <1>0, <3>2, <3>3, <3>4, <3>6, <4>1 DEF RowsOK
      <4> QED  BY <4>2, <4>3, <4>4, <4>5 DEF RowsOK, Anon, NoAddress
    <3>8. /\ role' \in [Ids -> {"none", "user", "admin"}] /\ token' \in [Ids -> BOOLEAN] /\ erased' \subseteq Ids
          /\ jobs' = jobs /\ hashing' \subseteq hashing /\ \A u \in Users : role'[u] = role[u]
      BY <1>0, <2>0, <2>2, <3>2 DEF AccountsTypeOK, poolVars
    <3>9. pc'[q] = "done" /\ UNCHANGED <<kind, by, about, gone, verdict>>
      BY <1>0, <2>0, <3>1 DEF AccountsTypeOK, reqVars
    <3>10. Waiting(q)'  BY <2>0, <2>2, <3>2, <3>3, <3>9 DEF Waiting
    <3> QED  BY <2>0, <3>1, <3>4, <3>5, <3>7, <3>8, <3>10, ServiceKeeps
  <2>3. CASE Reply(q, "ok") /\ UNCHANGED <<rowVars, erased>>
    <3>1. pc' = [pc EXCEPT ![q] = "done"] /\ answer' = [answer EXCEPT ![q] = "ok"]  BY <2>3 DEF Reply
    <3>2. Waiting(q) /\ verdict[q] = "ok"  BY <1>0, <2>0 DEF Waiting
    <3>3. UNCHANGED <<email, role, active, jobs, hashing>>  BY <2>0, <2>3 DEF rowVars, poolVars
    <3>4. pc'[q] = "done" /\ answer'[q] = "ok" /\ UNCHANGED <<kind, by, about, gone, verdict>>
      BY <1>0, <2>0, <3>1 DEF AccountsTypeOK, reqVars
    <3>5. Waiting(q)'  BY <2>0, <3>2, <3>3, <3>4 DEF Waiting, Users
    <3>6. RowsOK'  BY <1>0, <2>0, <2>3, RowsKept
    <3>7. /\ role' \in [Ids -> {"none", "user", "admin"}] /\ DOMAIN email' = Ids
          /\ active' \in [Ids -> BOOLEAN] /\ token' \in [Ids -> BOOLEAN] /\ erased' \subseteq Ids
      BY <1>0, <2>0, <2>3, <3>3 DEF AccountsTypeOK
    <3> QED  BY <2>0, <3>1, <3>3, <3>5, <3>6, <3>7, ServiceKeeps
  <2> QED  BY <1>11, <2>1, <2>2, <2>3 DEF Erase
<1>12. CASE TakeJob
  <2>0. UNCHANGED <<rowVars, token, reqVars, pc, verdict, answer, erased>>  BY <1>12 DEF TakeJob
  <2>1. jobs \in Seq(Requests) /\ jobs # <<>>  BY <1>0, <1>12 DEF TakeJob, AccountsTypeOK
  <2>2. Head(jobs) \in Requests /\ Tail(jobs) \in Seq(Requests)  BY <2>1
  <2>3. jobs' \in Seq(Requests) /\ hashing' \subseteq Requests  BY <1>0, <1>12, <2>2 DEF TakeJob, AccountsTypeOK
  <2>4. AccountsTypeOK'  BY <1>0, <2>0, <2>3 DEF AccountsTypeOK, rowVars, reqVars
  <2>5. RowsOK'  BY <1>0, <2>0, RowsKept
  <2>6. \A r \in Requests : Waiting(r)'  BY <1>0, <2>0 DEF Waiting, rowVars, reqVars, Users
  <2> QED  BY <2>4, <2>5, <2>6 DEF AccountsInv
<1>13. CASE UNCHANGED accVars
  <2>1. UNCHANGED <<rowVars, token, reqVars, pc, verdict, answer, erased, jobs, hashing>>  BY <1>13 DEF accVars, poolVars
  <2>2. AccountsTypeOK'  BY <1>0, <2>1 DEF AccountsTypeOK, rowVars, reqVars
  <2>3. RowsOK'  BY <1>0, <2>1, RowsKept
  <2>4. \A r \in Requests : Waiting(r)'  BY <1>0, <2>1 DEF Waiting, rowVars, reqVars, Users
  <2> QED  BY <2>2, <2>3, <2>4 DEF AccountsInv
<1>14. Users \cup Next_id \subseteq Ids  BY DEF Users, Next_id
<1> QED
  BY <1>1, <1>2, <1>3, <1>4, <1>5, <1>6, <1>7, <1>8, <1>9, <1>10, <1>11, <1>12, <1>13, <1>14
  DEF AccountsNext, Serve

\* What is known of every request under way, whatever else goes on: it was let
\* in by an account that had not been erased, with the role it needs.
THEOREM AccountsInvariant == AccountsSpec => []AccountsInv
<1>1. AccountsInit => AccountsInv  BY AccountsInvInit
<1>2. AccountsInv /\ [AccountsNext]_accVars => AccountsInv'  BY AccountsInvNext
<1> QED  BY <1>1, <1>2, PTL DEF AccountsSpec

\* No mailbox ever has two accounts, however registrations overlap and however
\* the address is typed (create_user).
THEOREM MailboxesAreUnique == AccountsSpec => []OneAccountPerMailbox
<1>1. AccountsInv => OneAccountPerMailbox
  <2> SUFFICES ASSUME AccountsInv, NEW u \in Users, NEW w \in Users, u # w,
                      email[u].form # "anon", email[w].form # "anon"
               PROVE  email[u].box # email[w].box
    BY DEF OneAccountPerMailbox
  <2>1. RowsOK  BY DEF AccountsInv
  <2>2. ASSUME NEW x \in erased  PROVE email[x].form = "anon"
    <3>1. email[x] = Anon(x)  BY <2>1 DEF RowsOK
    <3> QED  BY <3>1 DEF Anon
  <2>3. u \notin erased /\ w \notin erased  BY <2>2
  <2>4. email[u] = [box |-> email[u].box, form |-> "plain"] /\ email[w] = [box |-> email[w].box, form |-> "plain"]
    BY <2>1, <2>3 DEF RowsOK
  <2>5. email[u] # email[w]  BY <2>1 DEF RowsOK
  <2> QED  BY <2>4, <2>5
<1> QED  BY <1>1, AccountsInvariant, PTL

\* Whoever is told "ok" had the right to ask when the request arrived
\* (get_current_user, require_roles, subject_access).
THEOREM OnlyTheEntitled == AccountsSpec => []AnsweredHadRight
<1>1. AccountsInv => AnsweredHadRight
  BY DEF AccountsInv, Waiting, AnsweredHadRight
<1> QED  BY <1>1, AccountsInvariant, PTL

\* What the answers of logins and of accesses to a subject rest on.  A login
\* acts as the owner of the mailbox it named, and goes on to its token exactly
\* when there is one; an access says "ok" or "404" only once it is recorded.
Recorded(q) ==
    \E r \in audit : r.event = kind[q] /\ r.actor = by[q] /\ r.subject = about[q]
                     /\ (answer[q] = "404" <=> r.result \in {"denied", "not_found"})

LoginOK(q) ==
    /\ pc[q] \in {"hash", "activity", "done"} /\ (pc[q] # "done" => answer[q] = "none")
    /\ by[q] = owner[q] /\ verdict[q] = (IF owner[q] = Nobody THEN "no" ELSE "ok")
    /\ pc[q] = "activity" => verdict[q] = "ok"
    /\ pc[q] = "done" => answer[q] \in {"500", IF verdict[q] = "ok" THEN "ok" ELSE "401"}

AccessOK(q) ==
    /\ pc[q] \in {"audit", "erase", "done"} /\ (pc[q] # "done" => answer[q] = "none")
    /\ pc[q] = "audit" => verdict[q] \in {"ok", "denied", "not_found"}
    /\ answer[q] \in {"ok", "404"} => Recorded(q)

RequestOK(q) ==
    /\ kind[q] = "login" => LoginOK(q)
    /\ kind[q] \in {"export", "anonymize"} => AccessOK(q)

AnswersInv ==
    /\ DOMAIN owner = Requests
    /\ \A u \in Users \ erased : active[u]
    /\ \A q \in Requests : RequestOK(q)

\* The account that authenticate finds is the owner of the mailbox, however
\* the address was typed.
LEMMA OwnerIsFound ==
    ASSUME RowsOK, NEW e \in Addresses
    PROVE  Owner(e) = get_user_by_email(e)
<1>1. e = [box |-> e.box, form |-> e.form]  BY AccountsAssumption
<1>2. normalize_email(e) = [box |-> e.box, form |-> "plain"]  BY <1>1 DEF normalize_email
<1>3. ASSUME NEW u \in Users  PROVE email[u] = normalize_email(e) <=> email[u].box = e.box /\ email[u].form # "anon"
  <2>1. CASE u \in erased
    <3>1. email[u] = Anon(u)  BY <2>1 DEF RowsOK
    <3>2. email[u].form = "anon"  BY <3>1 DEF Anon
    <3>3. normalize_email(e).form = "plain"  BY <1>2
    <3> QED  BY <3>2, <3>3
  <2>2. CASE u \notin erased
    <3>1. email[u] = [box |-> email[u].box, form |-> "plain"]  BY <2>2 DEF RowsOK
    <3> QED  BY <1>2, <3>1
  <2> QED  BY <2>1, <2>2
<1>4. {u \in Users : email[u] = normalize_email(e)} = {u \in Users : email[u].box = e.box /\ email[u].form # "anon"}
  BY <1>3
<1> DEFINE found == {u \in Users : email[u] = normalize_email(e)}
           own   == {u \in Users : email[u].box = e.box /\ email[u].form # "anon"}
<1>5. get_user_by_email(e) = IF found = {} THEN Nobody ELSE CHOOSE u \in found : TRUE  BY DEF get_user_by_email
<1>6. Owner(e) = IF own = {} THEN Nobody ELSE CHOOSE u \in own : TRUE  BY DEF Owner
<1>7. found = own  BY <1>4
<1> HIDE DEF found, own
<1> QED  BY <1>5, <1>6, <1>7

LEMMA AnswersInvInit == AccountsInit => AnswersInv
<1> SUFFICES ASSUME AccountsInit PROVE AnswersInv
  OBVIOUS
<1>1. DOMAIN owner = Requests  BY DEF AccountsInit
<1>2. \A u \in Users \ erased : active[u]  BY AccountsAssumption DEF AccountsInit, Users
<1>3. \A q \in Requests : RequestOK(q)  BY DEF AccountsInit, RequestOK
<1> QED  BY <1>1, <1>2, <1>3 DEF AnswersInv

\* A request whose own record stays as it was, while the audit only grows.
LEMMA OthersAnswered ==
    ASSUME NEW r \in Requests, RequestOK(r), audit \subseteq audit',
           pc'[r] = pc[r], answer'[r] = answer[r], verdict'[r] = verdict[r], kind'[r] = kind[r],
           by'[r] = by[r], about'[r] = about[r], owner'[r] = owner[r]
    PROVE  RequestOK(r)'
<1>1. Recorded(r) => Recorded(r)'  BY DEF Recorded
<1> QED  BY <1>1 DEF RequestOK, LoginOK, AccessOK

\* Arrivals change nothing but the record of the request that arrives.
LEMMA ArrivalAnswered ==
    ASSUME AccountsTypeOK, AnswersInv, NEW q \in Requests, NEW k \in Kinds, NEW u \in Ids \cup {Nobody},
           NEW e \in Addresses \cup {NoAddress}, NEW s \in Ids \cup {Nobody}, Arrive(q, k, u, e, s),
           UNCHANGED <<rowVars, audit, erased>>,
           \A r \in Requests \ {q} : pc'[r] = pc[r] /\ answer'[r] = answer[r] /\ verdict'[r] = verdict[r],
           k = "login" => LoginOK(q)', k \in {"export", "anonymize"} => AccessOK(q)'
    PROVE  AnswersInv'
<1>1. Arrived(q, k, u, e, s)  BY ArriveArrived
<1>2. DOMAIN owner' = Requests /\ \A r \in Requests \ {q} : owner'[r] = owner[r]
  BY DEF Arrive, AnswersInv
<1>3. RequestOK(q)'  BY <1>1 DEF Arrived, RequestOK
<1>4. ASSUME NEW r \in Requests \ {q}  PROVE RequestOK(r)'
  <2>1. RequestOK(r)  BY DEF AnswersInv
  <2> QED  BY <1>1, <1>2, <2>1, OthersAnswered DEF Arrived
<1>5. \A w \in Users' \ erased' : active'[w]  BY DEF AnswersInv, rowVars, Users
<1> QED  BY <1>2, <1>3, <1>4, <1>5 DEF AnswersInv

\* So do the steps by which a request goes on, the rows apart.
LEMMA ServiceAnswered ==
    ASSUME AccountsTypeOK, AnswersInv, NEW q \in Requests, UNCHANGED <<reqVars, verdict>>, audit \subseteq audit',
           \A r \in Requests \ {q} : pc'[r] = pc[r] /\ answer'[r] = answer[r],
           \A w \in Users' \ erased' : active'[w],
           kind[q] = "login" => LoginOK(q)', kind[q] \in {"export", "anonymize"} => AccessOK(q)'
    PROVE  AnswersInv'
<1>1. UNCHANGED <<kind, by, about, owner, verdict>>  BY DEF reqVars
<1>2. RequestOK(q)'  BY <1>1 DEF RequestOK
<1>3. ASSUME NEW r \in Requests \ {q}  PROVE RequestOK(r)'
  <2>1. RequestOK(r)  BY DEF AnswersInv
  <2> QED  BY <1>1, <2>1, OthersAnswered
<1> QED  BY <1>1, <1>2, <1>3 DEF AnswersInv

\* A commit that fails is answered 500, which says nothing.
LEMMA FailAnswered ==
    ASSUME AccountsTypeOK, AnswersInv, NEW q \in Requests, UNCHANGED <<reqVars, verdict, rowVars, audit, erased>>, Fail(q)
    PROVE  AnswersInv'
<1>1. pc' = [pc EXCEPT ![q] = "done"] /\ answer' = [answer EXCEPT ![q] = "500"]  BY DEF Fail, Reply
<1>2. pc'[q] = "done" /\ answer'[q] = "500"  BY <1>1 DEF AccountsTypeOK
<1>3. UNCHANGED <<kind, by, about, owner, verdict>>  BY DEF reqVars
<1>4. \A r \in Requests \ {q} : pc'[r] = pc[r] /\ answer'[r] = answer[r]  BY <1>1 DEF AccountsTypeOK
<1>5. RequestOK(q)  BY DEF AnswersInv
<1>6. kind[q] = "login" => LoginOK(q)'  BY <1>2, <1>3, <1>5 DEF RequestOK, LoginOK
<1>7. kind[q] \in {"export", "anonymize"} => AccessOK(q)'  BY <1>2 DEF AccessOK
<1>8. \A w \in Users' \ erased' : active'[w]  BY DEF AnswersInv, rowVars, Users
<1> QED  BY <1>4, <1>6, <1>7, <1>8, ServiceAnswered

\* Every step keeps what the answers rest on.
LEMMA AnswersInvNext ==
    ASSUME AccountsInv, AnswersInv, [AccountsNext]_accVars
    PROVE  AnswersInv'
<1> USE DEF Nobody
<1>0. AccountsTypeOK /\ RowsOK /\ \A q \in Requests : Waiting(q) /\ RequestOK(q)  BY DEF AccountsInv, AnswersInv
<1>1. ASSUME NEW q \in Requests, NEW e \in Addresses, Register(q, e) \/ console_create_admin(q, e)  PROVE AnswersInv'
  <2>1. PICK k \in {"register", "console"} : Arrive(q, k, Nobody, e, Nobody)
    BY <1>1 DEF Register, console_create_admin
  <2>2. UNCHANGED <<rowVars, audit, erased, verdict>> /\ \A r \in Requests \ {q} : pc'[r] = pc[r] /\ answer'[r] = answer[r]
    BY <1>0, <1>1 DEF Register, console_create_admin, Goto, AccountsTypeOK
  <2> QED  BY <1>0, <2>1, <2>2, ArrivalAnswered DEF Kinds
<1>2. ASSUME NEW q \in Requests, NEW e \in Addresses, NEW u \in Users, create_admin(q, u, e)  PROVE AnswersInv'
  <2>1. Arrive(q, "create_admin", u, e, Nobody) /\ UNCHANGED <<rowVars, audit, erased, verdict>> /\ u \in Ids
    BY <1>2 DEF create_admin, Users
  <2>2. \A r \in Requests \ {q} : pc'[r] = pc[r] /\ answer'[r] = answer[r]
    BY <1>0, <1>2 DEF create_admin, Goto, Reply, AccountsTypeOK
  <2> QED  BY <1>0, <2>1, <2>2, ArrivalAnswered DEF Kinds
<1>3. ASSUME NEW q \in Requests, NEW e \in Addresses, NEW right \in BOOLEAN, login(q, e, right)
      PROVE  AnswersInv'
  <2> DEFINE user == get_user_by_email(e)
             k    == IF right THEN "login" ELSE "guess"
             v    == IF user # Nobody /\ right /\ active[user] THEN "ok" ELSE "no"
  <2>1. user # Nobody => user \in Users \ erased  BY <1>0, FoundIsThere
  <2>2. user \in Ids \cup {Nobody}  BY <2>1 DEF Users
  <2>3. k \in Kinds /\ k \in {"login", "guess"} /\ (k = "login" => right)  BY DEF Kinds
  <2>4. right => v = IF user = Nobody THEN "no" ELSE "ok"  BY <2>1 DEF AnswersInv
  <2>5. Arrive(q, k, user, e, Nobody) /\ Owner(e) = user  BY <1>0, <1>3, OwnerIsFound DEF login
  <2>6. /\ pc' = [pc EXCEPT ![q] = "hash"] /\ answer' = answer
        /\ verdict' = [verdict EXCEPT ![q] = v]
        /\ UNCHANGED <<rowVars, audit, erased>>
    BY <1>3 DEF login, Goto
  <2> HIDE DEF user, k, v
  <2>7. Arrived(q, k, user, e, Nobody)  BY <1>0, <2>2, <2>3, <2>5, ArriveArrived
  <2>8. owner'[q] = user  BY <2>5 DEF Arrive, AnswersInv
  <2>9. pc'[q] = "hash" /\ answer'[q] = "none" /\ verdict'[q] = v /\ by'[q] = user
    BY <1>0, <2>6, <2>7 DEF AccountsTypeOK, Arrived
  <2>10. right => LoginOK(q)'  BY <2>4, <2>8, <2>9 DEF LoginOK
  <2>11. \A r \in Requests \ {q} : pc'[r] = pc[r] /\ answer'[r] = answer[r] /\ verdict'[r] = verdict[r]
    BY <1>0, <2>6 DEF AccountsTypeOK
  <2> QED  BY <1>0, <2>2, <2>3, <2>5, <2>6, <2>10, <2>11, ArrivalAnswered
<1>4. ASSUME NEW q \in Requests, NEW u \in Users, NEW s \in Ids, NEW k \in {"export", "anonymize"},
             on_subject(q, k, u, s)
      PROVE  AnswersInv'
  <2> DEFINE v == access(u, s)
             step == IF k = "anonymize" /\ v = "ok" THEN "erase" ELSE "audit"
  <2>1. u \in Ids /\ k \in Kinds  BY DEF Users, Kinds
  <2>2. v \in {"ok", "denied", "not_found"} /\ step \in {"audit", "erase"}  BY DEF access
  <2>3. Arrive(q, k, u, NoAddress, s) /\ UNCHANGED <<rowVars, audit, erased>>  BY <1>4 DEF on_subject
  <2>4. Arrived(q, k, u, NoAddress, s)  BY <1>0, <2>1, <2>3, ArriveArrived
  <2>5. \A r \in Requests \ {q} : pc'[r] = pc[r] /\ answer'[r] = answer[r] /\ verdict'[r] = verdict[r]
    BY <1>0, <1>4 DEF on_subject, Goto, Reply, AccountsTypeOK
  <2>6. CASE Authentic(u)
    <3>1. pc' = [pc EXCEPT ![q] = step] /\ answer' = answer /\ verdict' = [verdict EXCEPT ![q] = v]
      BY <1>4, <2>6 DEF on_subject, Goto
    <3> HIDE DEF v, step
    <3>2. pc'[q] = step /\ answer'[q] = "none" /\ verdict'[q] = v  BY <1>0, <2>4, <3>1 DEF AccountsTypeOK, Arrived
    <3>3. AccessOK(q)'  BY <2>2, <3>2 DEF AccessOK
    <3> QED  BY <1>0, <2>1, <2>3, <2>5, <3>3, ArrivalAnswered
  <2>7. CASE ~Authentic(u)
    <3>1. pc'[q] = "done" /\ answer'[q] = "401"  BY <1>0, <1>4, <2>7 DEF on_subject, Reply, AccountsTypeOK
    <3>2. AccessOK(q)'  BY <3>1 DEF AccessOK
    <3> QED  BY <1>0, <2>1, <2>3, <2>5, <3>2, ArrivalAnswered
  <2> QED  BY <2>6, <2>7
<1>5. ASSUME NEW q \in Requests, no_token(q)  PROVE AnswersInv'
  <2>1. Arrive(q, "none", Nobody, NoAddress, Nobody) /\ UNCHANGED <<rowVars, audit, erased, verdict>>  BY <1>5 DEF no_token
  <2>2. \A r \in Requests \ {q} : pc'[r] = pc[r] /\ answer'[r] = answer[r]
    BY <1>0, <1>5 DEF no_token, Reply, AccountsTypeOK
  <2> QED  BY <1>0, <2>1, <2>2, ArrivalAnswered DEF Kinds
<1>6. ASSUME NEW q \in Requests, Hashed(q)  PROVE AnswersInv'
  <2>1. UNCHANGED <<rowVars, reqVars, verdict, audit, erased>> /\ pc[q] = "hash" /\ RequestOK(q)  BY <1>0, <1>6 DEF Hashed
  <2>2. UNCHANGED <<kind, by, about, owner, verdict>>  BY <2>1 DEF reqVars
  <2>3. \A r \in Requests \ {q} : pc'[r] = pc[r] /\ answer'[r] = answer[r]
    BY <1>0, <1>6 DEF Hashed, Goto, Reply, AccountsTypeOK
  <2>4. \A w \in Users' \ erased' : active'[w]  BY <2>1 DEF AnswersInv, rowVars, Users
  <2>5. kind[q] \notin {"export", "anonymize"}  BY <2>1 DEF RequestOK, AccessOK
  <2>6. ASSUME kind[q] = "login"  PROVE LoginOK(q)'
    <3>1. LoginOK(q)  BY <2>1, <2>6 DEF RequestOK
    <3>2. /\ verdict[q] = "ok" => pc'[q] = "activity" /\ answer'[q] = answer[q]
          /\ verdict[q] # "ok" => pc'[q] = "done" /\ answer'[q] = "401"
      BY <1>0, <1>6, <2>6 DEF Hashed, Goto, Reply, AccountsTypeOK
    <3> QED  BY <2>1, <2>2, <3>1, <3>2 DEF LoginOK
  <2> QED  BY <1>0, <2>1, <2>3, <2>4, <2>5, <2>6, ServiceAnswered
<1>7. ASSUME NEW q \in Requests, Insert(q)  PROVE AnswersInv'
  <2>1. UNCHANGED <<reqVars, verdict, audit, erased>> /\ pc[q] = "insert" /\ RequestOK(q)  BY <1>0, <1>7 DEF Insert
  <2>2. CASE Fail(q) /\ UNCHANGED rowVars  BY <1>0, <2>1, <2>2, FailAnswered
  <2>3. CASE ~(Fail(q) /\ UNCHANGED rowVars)
    <3>1. PICK status \in {"ok", "409"} : Reply(q, status)  BY <1>7, <2>3 DEF Insert
    <3>2. \A r \in Requests \ {q} : pc'[r] = pc[r] /\ answer'[r] = answer[r]  BY <1>0, <3>1 DEF Reply, AccountsTypeOK
    <3>3. kind[q] \notin {"login", "export", "anonymize"}  BY <2>1 DEF RequestOK, LoginOK, AccessOK
    <3>4. \A w \in Users' \ erased' : active'[w]
      <4>1. CASE UNCHANGED rowVars  BY <2>1, <4>1 DEF AnswersInv, rowVars, Users
      <4>2. CASE ~UNCHANGED rowVars
        <5>1. PICK u \in Next_id :
                /\ role' = [role EXCEPT ![u] = IF kind[q] = "register" THEN "user" ELSE "admin"]
                /\ active' = [active EXCEPT ![u] = TRUE]
          BY <1>7, <4>2 DEF Insert
        <5>2. u \in Ids  BY DEF Next_id
        <5> QED  BY <1>0, <2>1, <5>1, <5>2 DEF AnswersInv, Users, AccountsTypeOK
      <4> QED  BY <4>1, <4>2
    <3> QED  BY <1>0, <2>1, <3>2, <3>3, <3>4, ServiceAnswered
  <2> QED  BY <2>2, <2>3
<1>8. ASSUME NEW q \in Requests, Activity(q)  PROVE AnswersInv'
  <2>1. UNCHANGED <<rowVars, reqVars, verdict, audit, erased>> /\ pc[q] = "activity" /\ RequestOK(q)
    BY <1>0, <1>8 DEF Activity
  <2>2. CASE Fail(q)  BY <1>0, <2>1, <2>2, FailAnswered
  <2>3. CASE Reply(q, "ok")
    <3>1. pc'[q] = "done" /\ answer'[q] = "ok"  BY <1>0, <2>3 DEF Reply, AccountsTypeOK
    <3>2. \A r \in Requests \ {q} : pc'[r] = pc[r] /\ answer'[r] = answer[r]  BY <1>0, <2>3 DEF Reply, AccountsTypeOK
    <3>3. UNCHANGED <<kind, by, about, owner, verdict>>  BY <2>1 DEF reqVars
    <3>4. \A w \in Users' \ erased' : active'[w]  BY <2>1 DEF AnswersInv, rowVars, Users
    <3>5. kind[q] = "login" => LoginOK(q)'  BY <2>1, <3>1, <3>3 DEF RequestOK, LoginOK
    <3>6. kind[q] \notin {"export", "anonymize"}  BY <2>1 DEF RequestOK, AccessOK
    <3> QED  BY <1>0, <2>1, <3>2, <3>4, <3>5, <3>6, ServiceAnswered
  <2> QED  BY <1>8, <2>2, <2>3 DEF Activity
<1>9. ASSUME NEW q \in Requests, Audit(q) \/ Erase(q)  PROVE AnswersInv'
  <2>1. UNCHANGED <<reqVars, verdict>> /\ pc[q] \in {"audit", "erase"} /\ RequestOK(q) /\ Waiting(q)
    BY <1>0, <1>9 DEF Audit, Erase
  <2>2. CASE Fail(q) /\ UNCHANGED <<rowVars, audit, erased>>  BY <1>0, <2>1, <2>2, FailAnswered
  <2>3. CASE ~(Fail(q) /\ UNCHANGED <<rowVars, audit, erased>>)
    <3>1. PICK status, result :
            /\ Reply(q, status) /\ audit' = audit \cup {AuditRow(q, result)}
            /\ \/ pc[q] = "audit" /\ status = Told(verdict[q]) /\ result = verdict[q]
               \/ status = "ok" /\ result \in {"anonymized", "already_anonymized"}
      <4>1. CASE Audit(q)  BY <2>3, <4>1 DEF Audit
      <4>2. CASE Erase(q)  BY <2>3, <4>2 DEF Erase
      <4> QED  BY <1>9, <4>1, <4>2
    <3>2. pc'[q] = "done" /\ answer'[q] = status  BY <1>0, <3>1 DEF Reply, AccountsTypeOK
    <3>3. \A r \in Requests \ {q} : pc'[r] = pc[r] /\ answer'[r] = answer[r]  BY <1>0, <3>1 DEF Reply, AccountsTypeOK
    <3>4. UNCHANGED <<kind, by, about, owner, verdict>>  BY <2>1 DEF reqVars
    <3>5. kind[q] # "login"  BY <2>1 DEF RequestOK, LoginOK
    <3>6. ASSUME kind[q] \in {"export", "anonymize"}  PROVE AccessOK(q)'
      <4>1. AccessOK(q)  BY <2>1, <3>6 DEF RequestOK
      <4>2. status = "404" <=> result \in {"denied", "not_found"}  BY <3>1, <4>1 DEF AccessOK, Told
      <4>3. AuditRow(q, result) \in audit'  BY <3>1
      <4>4. /\ AuditRow(q, result).event = kind[q] /\ AuditRow(q, result).actor = by[q]
            /\ AuditRow(q, result).subject = about[q] /\ AuditRow(q, result).result = result
        BY DEF AuditRow
      <4>5. Recorded(q)'  BY <3>2, <3>4, <4>2, <4>3, <4>4 DEF Recorded
      <4> QED  BY <3>2, <4>5 DEF AccessOK
    <3>7. \A w \in Users' \ erased' : active'[w]
      <4>1. CASE Audit(q)  BY <4>1 DEF Audit, AnswersInv, rowVars, Users
      <4>2. CASE Erase(q)
        <5>1. CASE UNCHANGED role /\ active' = [active EXCEPT ![about[q]] = FALSE] /\ erased' = erased \cup {about[q]}
          BY <1>0, <5>1 DEF AnswersInv, Users, AccountsTypeOK
        <5>2. CASE UNCHANGED <<rowVars, erased>>  BY <5>2 DEF AnswersInv, rowVars, Users
        <5> QED  BY <2>3, <4>2, <5>1, <5>2 DEF Erase
      <4> QED  BY <1>9, <4>1, <4>2
    <3> QED  BY <1>0, <2>1, <3>1, <3>3, <3>5, <3>6, <3>7, ServiceAnswered
  <2> QED  BY <2>2, <2>3
<1>10. CASE TakeJob \/ UNCHANGED accVars
  <2>1. UNCHANGED <<rowVars, reqVars, pc, verdict, answer, audit, erased>>  BY <1>10 DEF TakeJob, accVars
  <2>2. UNCHANGED <<kind, by, about, owner, pc, verdict, answer, audit>>  BY <2>1 DEF reqVars
  <2>3. ASSUME NEW r \in Requests  PROVE RequestOK(r)'
    BY <1>0, <2>2, OthersAnswered
  <2>4. \A w \in Users' \ erased' : active'[w]  BY <2>1 DEF AnswersInv, rowVars, Users
  <2> QED  BY <2>2, <2>3, <2>4 DEF AnswersInv
<1>11. Users \cup Next_id \subseteq Ids  BY DEF Users, Next_id
<1> QED
  BY <1>1, <1>2, <1>3, <1>4, <1>5, <1>6, <1>7, <1>8, <1>9, <1>10, <1>11 DEF AccountsNext, Serve

LEMMA AnswersInvariant == AccountsSpec => []AnswersInv
<1>1. AccountsInit => AnswersInv  BY AnswersInvInit
<1>2. AccountsInv /\ AnswersInv /\ [AccountsNext]_accVars => AnswersInv'  BY AnswersInvNext
<1> QED  BY <1>1, <1>2, AccountsInvariant, PTL DEF AccountsSpec

\* The owner of a mailbox gets in with the right password, and into no other
\* account, however many register, log in and are erased meanwhile
\* (authenticate).
THEOREM OwnersGetIn == AccountsSpec => []OwnerGetsIn
<1>1. AccountsInv /\ AnswersInv => OwnerGetsIn
  <2> SUFFICES ASSUME AccountsInv, AnswersInv, NEW q \in Requests, kind[q] = "login", answer[q] \notin {"none", "500"}
               PROVE  IF owner[q] = Nobody THEN answer[q] = "401" ELSE answer[q] = "ok" /\ by[q] = owner[q]
    BY DEF OwnerGetsIn
  <2>1. LoginOK(q)  BY DEF AnswersInv, RequestOK
  <2> QED  BY <2>1 DEF LoginOK
<1> QED  BY <1>1, AccountsInvariant, AnswersInvariant, PTL

\* No access to a subject's data goes unrecorded, also when commits fail: the
\* audit row is there before the answer (record_audit_event).
THEOREM AccessesAreAudited == AccountsSpec => []AccessIsAudited
<1>1. AnswersInv => AccessIsAudited
  BY DEF AnswersInv, RequestOK, AccessOK, Recorded, AccessIsAudited
<1> QED  BY <1>1, AnswersInvariant, PTL

-----------------------------------------------------------------------------
(* The export                                                              *)

\* Rows are numbered in the order they come, so that none comes back; the
\* rentals of a subject have a renter, which the export has found by the time
\* it asks for them; and the subject is anonymized once the export says so.
ExportInv ==
    /\ writes \in Nat /\ stage \in 0..8
    /\ \A r \in stored \cup atStart \cup wiped : r.id \in 0..writes
    /\ \A r \in stored : r.table = "rentals" => linked
    /\ \A r \in atStart : r.table = "rentals" => linked /\ (stage > 1 => hasRenter)
    /\ stored \cap wiped = {}
    /\ profile = "anonymized" => anonymized
    /\ stage = 0 => got = {} /\ atStart = {}
    /\ ExportIsComplete
    /\ AnonymizedExportIsBare

LEMMA SelectOrderIs ==
    /\ Len(SelectOrder) = 7 /\ Places = 1..7
    /\ \A i \in 1..7 : SelectOrder[i] = "renters" <=> i = 1
    /\ Selected = {SelectOrder[i] : i \in {j \in 1..7 : j < stage}}
BY DEF SelectOrder, Places, Selected

LEMMA ExportInvNext ==
    ASSUME ExportInv, [ExportNext]_exportVars
    PROVE  ExportInv'
<1> USE SelectOrderIs
<1>1. ASSUME NEW tables \in Commits, Store(tables)  PROVE ExportInv'
  <2>1. "rentals" \in tables => linked
    <3>1. \/ \E t \in {"user_activity", "marketing_messages", "analytics_events"} :
               tables = {t}
          \/ tables = {"consent_history", "user_consents"}
          \/ tables = {"consent_history"}
          \/ linked /\ tables = {"rentals"}
          \/ tables = {"renters"}
      BY <1>1, Zenon DEF Commits
    <3>2. ASSUME NEW t \in {"user_activity", "marketing_messages", "analytics_events"},
                 tables = {t}
          PROVE  "rentals" \notin tables
      BY <3>2
    <3>3. CASE tables = {"consent_history", "user_consents"}  BY <3>3
    <3>4. CASE tables = {"consent_history"}  BY <3>4
    <3>5. CASE linked /\ tables = {"rentals"}  BY <3>5
    <3>6. CASE tables = {"renters"}  BY <3>6
    <3> QED  BY <3>1, <3>2, <3>3, <3>4, <3>5, <3>6
  <2>2. \A r \in stored' \ stored : r.id = writes + 1 /\ (r.table = "rentals" => linked)
    BY <1>1, <2>1 DEF Store, ExportInv
  <2>3. stored \subseteq stored' /\ Selected' = Selected
    BY <1>1 DEF Store, Selected
  <2>4. ExportIsComplete'
    BY <1>1, <2>2, <2>3 DEF Store, ExportInv, ExportIsComplete
  <2>5. linked => linked'  BY <1>1, Zenon DEF Store
  <2>6. \A r \in stored' : r.table = "rentals" => linked'
    BY <2>2, <2>5 DEF ExportInv
  <2>7. \A r \in atStart' : r.table = "rentals" => linked' /\ (stage' > 1 => hasRenter')
    BY <1>1, <2>5 DEF Store, ExportInv
  <2>8. /\ writes' \in Nat /\ stored' \cap wiped' = {}
        /\ \A r \in stored' \cup atStart' \cup wiped' : r.id \in 0..writes'
    BY <1>1, <2>2 DEF Store, ExportInv
  <2> QED
    BY <1>1, <2>4, <2>6, <2>7, <2>8 DEF Store, ExportInv, AnonymizedExportIsBare
<1>2. CASE Anonymize
  <2>1. PICK revoked : /\ revoked \subseteq {[table |-> "consent_history", id |-> writes + 1]}
                       /\ stored' = (stored \ wiped') \cup revoked
    BY <1>2 DEF Anonymize
  <2>2. wiped' \subseteq stored  BY <1>2 DEF Anonymize, Of
  <2>3. \A r \in revoked : r.id = writes + 1 /\ r.table = "consent_history"  BY <2>1
  <2>4. /\ ~anonymized /\ writes' = writes + 1 /\ writes' \in Nat
        /\ UNCHANGED <<linked, stage, profile, hasRenter, got, atStart>>
    BY <1>2 DEF Anonymize, ExportInv
  <2>5. /\ \A r \in stored' \cup atStart' \cup wiped' : r.id \in 0..writes'
        /\ \A r \in stored' : r.table = "rentals" => linked'
    BY <2>1, <2>2, <2>3, <2>4 DEF ExportInv
  <2>6. stored' \cap wiped' = {}
    BY <2>1, <2>2, <2>3 DEF ExportInv
  <2>7. ExportIsComplete'
    BY <2>1, <2>3, <2>4 DEF ExportInv, ExportIsComplete, Selected
  <2>8. profile # "anonymized"  BY <2>4 DEF ExportInv
  <2> QED
    BY <1>2, <2>4, <2>5, <2>6, <2>7, <2>8 DEF ExportInv, AnonymizedExportIsBare
<1>3. CASE BeginExport
  <2>1. Selected' = {}  BY <1>3 DEF BeginExport, Selected, ExportInv
  <2> QED
    BY <1>3, <2>1 DEF BeginExport, dataVars, ExportInv, ExportIsComplete, AnonymizedExportIsBare
<1>4. CASE Select
  <2>1. Selected' = Selected \cup {SelectOrder[stage]}
    BY <1>4 DEF Select, Selected
  <2>2. \A r \in atStart \cap stored : r.table = SelectOrder[stage] => r \in Found(SelectOrder[stage])
    BY <1>4 DEF Select, ExportInv, Found, Of
  <2>3. ExportIsComplete'
    BY <1>4, <2>1, <2>2 DEF Select, dataVars, ExportInv, ExportIsComplete
  <2>4. Found(SelectOrder[stage]) \subseteq stored  BY DEF Found, Of
  <2>5. AnonymizedExportIsBare'
    BY <1>4, <2>4 DEF Select, dataVars, ExportInv, AnonymizedExportIsBare
  <2>6. hasRenter \/ (stage = 1 /\ linked) => hasRenter'
    <3>1. stage = 1 => SelectOrder[stage] = "renters"  OBVIOUS
    <3> QED  BY <1>4, <3>1, Zenon DEF Select
  <2>7. \A r \in atStart' : r.table = "rentals" => linked' /\ (stage' > 1 => hasRenter')
    BY <1>4, <2>6 DEF Select, dataVars, ExportInv
  <2> QED  BY <1>4, <2>3, <2>5, <2>7 DEF Select, dataVars, ExportInv
<1>5. CASE EndExport
  BY <1>5 DEF EndExport, dataVars, ExportInv, ExportIsComplete, AnonymizedExportIsBare
<1>6. CASE UNCHANGED exportVars
  BY <1>6 DEF exportVars, dataVars, ExportInv, ExportIsComplete, AnonymizedExportIsBare, Selected
<1> QED  BY <1>1, <1>2, <1>3, <1>4, <1>5, <1>6 DEF ExportNext

\* The invariant above holds in every state of the export (build_export).
THEOREM ExportInvariant == ExportSpec => []ExportInv
<1>1. ExportInit => ExportInv
  BY DEF ExportInit, ExportInv, ExportIsComplete, AnonymizedExportIsBare
<1> QED  BY <1>1, ExportInvNext, PTL DEF ExportSpec

\* However many rows are added while the export runs, it leaves out none that
\* was there when it was asked for and still is (build_export).
THEOREM ExportLeavesNothingOut == ExportSpec => []ExportIsComplete
<1>1. ExportInv => ExportIsComplete  BY DEF ExportInv
<1> QED  BY <1>1, ExportInvariant, PTL

\* No export calls its subject anonymized and shows what the erasure took
\* away (subject_access).
THEOREM AnonymizedMeansBare == ExportSpec => []AnonymizedExportIsBare
<1>1. ExportInv => AnonymizedExportIsBare  BY DEF ExportInv
<1> QED  BY <1>1, ExportInvariant, PTL

\* However many rows are added during an export, whatever is erased during it:
\* it is complete, and bare if it says so (export_user_data).
THEOREM ExportIsAlwaysSound == ExportSpec => []ExportIsSound
BY ExportLeavesNothingOut, AnonymizedMeansBare, PTL DEF ExportIsSound
=============================================================================
