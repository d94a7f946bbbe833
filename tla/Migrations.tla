----------------------------- MODULE Migrations -----------------------------
(***************************************************************************)
(* The database schema (alembic/versions), how replicas that start at once *)
(* and an operator migrate it (alembic/env.py, Dockerfile), and what the   *)
(* ORM models expect of it (models/*.py).                                  *)
(*                                                                         *)
(* A schema is a set of items: columns, keys and native enum types.  Names *)
(* of indexes and constraints follow their columns and are left out, and   *)
(* so is the primary key, which every table has on id.  A type ends with   *)
(* "?" when the column is nullable; an enum that is not native is a string *)
(* to the database, without a constraint that knows its labels.            *)
(***************************************************************************)
EXTENDS Integers, Sequences, SequencesExt

CONSTANTS
    Replicas,       \* containers: alembic upgrade head, then the API
    Operators,      \* consoles: alembic downgrade -1
    NoSession,      \* holds the lock when it is free
    MaxRuns,        \* bound on the runs of alembic
    MaxCrashes      \* bound on processes that die

ASSUME MigrationAssumption ==
    /\ Replicas \cap Operators = {}
    /\ NoSession \notin Replicas \cup Operators
    /\ MaxRuns \in Nat /\ MaxCrashes \in Nat

\* An item; the order of its columns where it matters, or of an enum's labels.
Item(kind, table, on, is, order) ==
    [kind |-> kind, table |-> table, on |-> on, is |-> is, order |-> order]

Column(t, c, type) == Item("column", t, {c}, type, <<>>)
Columns(t, types)  == {Column(t, c, types[c]) : c \in DOMAIN types}
Index(t, cs)       == Item("index", t, ToSet(cs), "", cs)
UniqueIndex(t, cs) == Item("unique index", t, ToSet(cs), "", cs)
Unique(t, cs)      == Item("unique", t, ToSet(cs), "", cs)
Foreign(t, c, to)  == Item("foreign", t, {c}, to, <<>>)
Enum(name, labels) == Item("enum", "", {}, name, labels)

-----------------------------------------------------------------------------
(* What PostgreSQL does with the statements                                *)

Create(items)    == [op |-> "create", items |-> items, table |-> ""]
Drop(item)       == [op |-> "drop", items |-> {item}, table |-> item.table]
DropTable(t)     == [op |-> "drop_table", items |-> {}, table |-> t]
DropColumn(t, c) == [op |-> "drop_column", items |-> {Column(t, c, "")}, table |-> t]
DropEnum(name)   == [op |-> "drop_enum", items |-> {Enum(name, <<>>)}, table |-> ""]

Tables(s) == {x.table : x \in {y \in s : y.kind = "column"}}

\* What a column's own DROP takes with it.
On(s, col) == {x \in s : x.table = col.table /\ col.on \subseteq x.on}

Refused(s, o) ==
    CASE o.op = "create" ->
            \/ \E x \in o.items, y \in s :
                  x.kind = y.kind /\ x.table = y.table /\ x.on = y.on /\ (x.kind = "enum" => x.is = y.is)
            \/ \E x \in o.items :
                  \/ x.kind = "foreign" /\ x.is \notin Tables(s \cup o.items)
                  \/ \E c \in x.on : \A y \in s \cup o.items : ~(y.kind = "column" /\ y.table = x.table /\ y.on = {c})
      [] o.op = "drop"        -> ~(o.items \subseteq s)
      [] o.op = "drop_column" -> \E col \in o.items : On(s, col) = {}
      [] o.op = "drop_table"  -> \/ o.table \notin Tables(s)
                                 \/ \E x \in s : x.kind = "foreign" /\ x.is = o.table /\ x.table # o.table
      [] o.op = "drop_enum"   -> \E e \in o.items : \E x \in s : x.kind = "column" /\ x.is = e.is

Done(s, o) ==
    CASE o.op = "create"      -> s \cup o.items
      [] o.op = "drop"        -> s \ o.items
      [] o.op = "drop_column" -> s \ UNION {On(s, col) : col \in o.items}
      [] o.op = "drop_table"  -> {x \in s : x.table # o.table}
      [] o.op = "drop_enum"   -> {x \in s : \A e \in o.items : ~(x.kind = "enum" /\ x.is = e.is)}

-----------------------------------------------------------------------------
(* The revisions                                                           *)

initial_schema ==
    << Create(Columns("renters", [id |-> "int", full_name |-> "string 150", license_number |-> "string 50"])),
       Create({UniqueIndex("renters", <<"license_number">>)}),
       Create(Columns("stations", [id |-> "int", address |-> "string 200", capacity |-> "int"])),
       Create(Columns("vehicles", [id |-> "int", license_plate |-> "string 20", model |-> "string 100",
                                   status |-> "vehiclestatus", station_id |-> "int"])
              \cup {Enum("vehiclestatus", <<"AVAILABLE", "RENTED", "MAINTENANCE">>),
                    Foreign("vehicles", "station_id", "stations")}),
       Create({UniqueIndex("vehicles", <<"license_plate">>)}),
       Create(Columns("rentals", [id |-> "int", renter_id |-> "int", vehicle_id |-> "int",
                                  start_station_id |-> "int", end_station_id |-> "int?",
                                  started_at |-> "timestamp", ended_at |-> "timestamp?",
                                  status |-> "rentalstatus"])
              \cup {Enum("rentalstatus", <<"ACTIVE", "COMPLETED", "CANCELLED">>),
                    Foreign("rentals", "end_station_id", "stations"),
                    Foreign("rentals", "renter_id", "renters"),
                    Foreign("rentals", "start_station_id", "stations"),
                    Foreign("rentals", "vehicle_id", "vehicles")}) >>

undo_initial_schema ==
    << DropTable("rentals"), Drop(UniqueIndex("vehicles", <<"license_plate">>)), DropTable("vehicles"),
       DropTable("stations"), Drop(UniqueIndex("renters", <<"license_number">>)), DropTable("renters"),
       DropEnum("rentalstatus"), DropEnum("vehiclestatus") >>

add_telemetry_readings ==
    << Create(Columns("telemetry_readings", [id |-> "bigint", vehicle_id |-> "int", recorded_at |-> "timestamptz",
                                             latitude |-> "float", longitude |-> "float",
                                             fuel_level |-> "float", is_locked |-> "bool"])
              \cup {Foreign("telemetry_readings", "vehicle_id", "vehicles"),
                    Unique("telemetry_readings", <<"vehicle_id", "recorded_at">>)}) >>

undo_add_telemetry_readings == << DropTable("telemetry_readings") >>

add_users ==
    << Create(Columns("users", [id |-> "int", email |-> "string 254", hashed_password |-> "string 255",
                                full_name |-> "string 150", role |-> "userrole", is_active |-> "bool",
                                created_at |-> "timestamptz now"])
              \cup {Enum("userrole", <<"ADMIN", "USER">>)}),
       Create({UniqueIndex("users", <<"email">>)}) >>

undo_add_users == << Drop(UniqueIndex("users", <<"email">>)), DropTable("users"), DropEnum("userrole") >>

\* A table about users with its index.
OfUser(t, types, keys) ==
    << Create(Columns(t, types) \cup {Column(t, "id", "int"), Column(t, "user_id", "int"),
                                      Foreign(t, "user_id", "users")} \cup keys),
       Create({Index(t, <<"user_id">>)}) >>

undo_of_user(t) == << Drop(Index(t, <<"user_id">>)), DropTable(t) >>

add_privacy ==
    << Create({Column("users", "phone", "string 32?")}),
       Create({Column("users", "anonymized_at", "timestamptz?")}),
       Create({Column("renters", "user_id", "int?")}),
       Create({Unique("renters", <<"user_id">>)}),
       Create({Foreign("renters", "user_id", "users")}) >>
    \o OfUser("user_consents", [purpose |-> "string 30", status |-> "string 30", policy_version |-> "string 20",
                                granted_at |-> "timestamptz?", withdrawn_at |-> "timestamptz?",
                                updated_at |-> "timestamptz", source |-> "string 50"],
              {Unique("user_consents", <<"user_id", "purpose">>)})
    \o OfUser("consent_history", [purpose |-> "string 30", action |-> "string 30", policy_version |-> "string 20",
                                  source |-> "string 50", occurred_at |-> "timestamptz"], {})
    \o OfUser("user_activity", [action |-> "string 64", occurred_at |-> "timestamptz now",
                                ip_address |-> "string 45?", user_agent |-> "string 255?"], {})
    \o << Create(Columns("audit_events", [id |-> "int", event_type |-> "string 64", actor_id |-> "int?",
                                          subject_id |-> "int?", result |-> "string 64",
                                          correlation_id |-> "string 64", occurred_at |-> "timestamptz now"])),
          Create({Index("audit_events", <<"event_type">>)}),
          Create({Index("audit_events", <<"subject_id">>)}) >>
    \o OfUser("marketing_messages", [campaign |-> "string 64", status |-> "string 30",
                                     created_at |-> "timestamptz now", processed_at |-> "timestamptz?"], {})
    \o OfUser("analytics_events", [event_name |-> "string 64", occurred_at |-> "timestamptz now"], {})

undo_add_privacy ==
    undo_of_user("analytics_events") \o undo_of_user("marketing_messages")
    \o << Drop(Index("audit_events", <<"subject_id">>)), Drop(Index("audit_events", <<"event_type">>)),
          DropTable("audit_events") >>
    \o undo_of_user("user_activity") \o undo_of_user("consent_history") \o undo_of_user("user_consents")
    \o << Drop(Foreign("renters", "user_id", "users")), Drop(Unique("renters", <<"user_id">>)),
          DropColumn("renters", "user_id"), DropColumn("users", "anonymized_at"), DropColumn("users", "phone") >>

add_indexes ==
    << Create({Index("vehicles", <<"station_id", "status">>)}),
       Create({Index("rentals", <<"renter_id", "started_at">>)}) >>

undo_add_indexes ==
    << Drop(Index("rentals", <<"renter_id", "started_at">>)), Drop(Index("vehicles", <<"station_id", "status">>)) >>

\* The revisions in the order of their down_revision.
Upgrades   == << initial_schema, add_telemetry_readings, add_users, add_privacy, add_indexes >>
Downgrades == << undo_initial_schema, undo_add_telemetry_readings, undo_add_users, undo_add_privacy, undo_add_indexes >>
Latest     == Len(Upgrades)

\* The schemas of the revisions: what upgrading from nothing makes.
SchemaAt ==
    LET s1 == FoldLeft(Done, {}, initial_schema)
        s2 == FoldLeft(Done, s1, add_telemetry_readings)
        s3 == FoldLeft(Done, s2, add_users)
        s4 == FoldLeft(Done, s3, add_privacy)
    IN << s1, s2, s3, s4, FoldLeft(Done, s4, add_indexes) >>

-----------------------------------------------------------------------------
(* What the models declare                                                 *)

Station == Columns("stations", [id |-> "int", address |-> "string 200", capacity |-> "int"])

Vehicle ==
    Columns("vehicles", [id |-> "int", license_plate |-> "string 20", model |-> "string 100",
                         status |-> "vehiclestatus", station_id |-> "int"])
    \cup {Enum("vehiclestatus", <<"AVAILABLE", "RENTED", "MAINTENANCE">>),
          UniqueIndex("vehicles", <<"license_plate">>),
          Foreign("vehicles", "station_id", "stations"), Index("vehicles", <<"station_id", "status">>)}

Renter ==
    Columns("renters", [id |-> "int", full_name |-> "string 150", license_number |-> "string 50", user_id |-> "int?"])
    \cup {UniqueIndex("renters", <<"license_number">>), Unique("renters", <<"user_id">>),
          Foreign("renters", "user_id", "users")}

Rental ==
    Columns("rentals", [id |-> "int", renter_id |-> "int", vehicle_id |-> "int", start_station_id |-> "int",
                        end_station_id |-> "int?", started_at |-> "timestamp", ended_at |-> "timestamp?",
                        status |-> "rentalstatus"])
    \cup {Enum("rentalstatus", <<"ACTIVE", "COMPLETED", "CANCELLED">>),
          Index("rentals", <<"renter_id", "started_at">>),
          Foreign("rentals", "renter_id", "renters"), Foreign("rentals", "vehicle_id", "vehicles"),
          Foreign("rentals", "start_station_id", "stations"), Foreign("rentals", "end_station_id", "stations")}

TelemetryReading ==
    Columns("telemetry_readings", [id |-> "bigint", vehicle_id |-> "int", recorded_at |-> "timestamptz",
                                   latitude |-> "float", longitude |-> "float", fuel_level |-> "float",
                                   is_locked |-> "bool"])
    \cup {Foreign("telemetry_readings", "vehicle_id", "vehicles"),
          Unique("telemetry_readings", <<"vehicle_id", "recorded_at">>)}

User ==
    Columns("users", [id |-> "int", email |-> "string 254", hashed_password |-> "string 255",
                      full_name |-> "string 150", role |-> "userrole", phone |-> "string 32?",
                      is_active |-> "bool", created_at |-> "timestamptz now", anonymized_at |-> "timestamptz?"])
    \cup {Enum("userrole", <<"ADMIN", "USER">>), UniqueIndex("users", <<"email">>)}

\* id, and an indexed reference to the user
AboutUser(t) ==
    Columns(t, [id |-> "int", user_id |-> "int"]) \cup {Foreign(t, "user_id", "users"), Index(t, <<"user_id">>)}

UserConsent ==
    AboutUser("user_consents") \cup {Unique("user_consents", <<"user_id", "purpose">>)}
    \cup Columns("user_consents", [purpose |-> "string 30", status |-> "string 30", policy_version |-> "string 20",
                                   granted_at |-> "timestamptz?", withdrawn_at |-> "timestamptz?",
                                   updated_at |-> "timestamptz", source |-> "string 50"])

ConsentHistory ==
    AboutUser("consent_history")
    \cup Columns("consent_history", [purpose |-> "string 30", action |-> "string 30", policy_version |-> "string 20",
                                     source |-> "string 50", occurred_at |-> "timestamptz"])

UserActivity ==
    AboutUser("user_activity")
    \cup Columns("user_activity", [action |-> "string 64", occurred_at |-> "timestamptz now",
                                   ip_address |-> "string 45?", user_agent |-> "string 255?"])

AuditEvent ==
    Columns("audit_events", [id |-> "int", event_type |-> "string 64", actor_id |-> "int?", subject_id |-> "int?",
                             result |-> "string 64", correlation_id |-> "string 64", occurred_at |-> "timestamptz now"])
    \cup {Index("audit_events", <<"event_type">>), Index("audit_events", <<"subject_id">>)}

MarketingMessage ==
    AboutUser("marketing_messages")
    \cup Columns("marketing_messages", [campaign |-> "string 64", status |-> "string 30",
                                        created_at |-> "timestamptz now", processed_at |-> "timestamptz?"])

AnalyticsEvent ==
    AboutUser("analytics_events")
    \cup Columns("analytics_events", [event_name |-> "string 64", occurred_at |-> "timestamptz now"])

\* Base.metadata
Metadata ==
    UNION {Station, Vehicle, Renter, Rental, TelemetryReading, User, UserConsent, ConsentHistory, UserActivity,
           AuditEvent, MarketingMessage, AnalyticsEvent}

-----------------------------------------------------------------------------
(* What the scripts do, one after the other                                *)

SchemaOf(n) == IF n = 0 THEN {} ELSE SchemaAt[n]

\* The schemas a script goes through: the i-th after its first i statements.
Through(s, ops) == [i \in 0..Len(ops) |-> FoldLeft(Done, s, SubSeq(ops, 1, i))]

Leads(s, ops, t) ==
    /\ Len(ops) \in Nat \ {0}
    /\ Through(s, ops)[0] = s /\ Through(s, ops)[Len(ops)] = t
    /\ \A i \in 1..Len(ops) : /\ ~Refused(Through(s, ops)[i - 1], ops[i])
                              /\ Through(s, ops)[i] = Done(Through(s, ops)[i - 1], ops[i])

\* Every upgrade() leads from one revision to the next, its downgrade() back,
\* and the last one makes what the models declare.  No parameter occurs in it:
\* TLC decides it, by executing the scripts, before it looks at any state.
ASSUME ScriptsAssumption ==
    /\ \A n \in 1..Latest : /\ Leads(SchemaOf(n - 1), Upgrades[n], SchemaOf(n))
                            /\ Leads(SchemaOf(n), Downgrades[n], SchemaOf(n - 1))
    /\ SchemaOf(Latest) = Metadata

-----------------------------------------------------------------------------
(* Processes that migrate                                                  *)

VARIABLES
    schema, version,    \* committed: the schema, and alembic_version
    advisory,           \* who holds pg_advisory_lock(MIGRATION_LOCK_KEY)
    run,                \* per process: where its run of alembic is
    base, at, statement, draft,     \* per process: its transaction: from where, at
                        \* which revision and statement, and its schema
    runs, crashes

txVars  == <<base, at, statement, draft>>
migVars == <<schema, version, advisory, run, txVars, runs, crashes>>

Migrators == Replicas \cup Operators

MigrationTypeOK ==
    /\ version \in 0..Latest
    /\ advisory \in Migrators \cup {NoSession}
    /\ run \in [Migrators -> {"idle", "waiting", "locked", "running", "refused", "failed", "committed"}]
    /\ base \in [Migrators -> 0..Latest]
    /\ at \in [Migrators -> 0..Latest]
    /\ statement \in [Migrators -> Nat \ {0}]

MigrationInit ==
    /\ schema = {} /\ version = 0
    /\ advisory = NoSession
    /\ run = [p \in Migrators |-> "idle"]
    /\ base = [p \in Migrators |-> 0]
    /\ at = [p \in Migrators |-> 0]
    /\ statement = [p \in Migrators |-> 1]
    /\ draft = [p \in Migrators |-> {}]
    /\ runs = 0 /\ crashes = 0

Begin(p) ==
    /\ run[p] = "idle"
    /\ runs < MaxRuns
    /\ runs' = runs + 1
    /\ run' = [run EXCEPT ![p] = "waiting"]
    /\ UNCHANGED <<schema, version, advisory, txVars, crashes>>

\* Mutant of Lock: nobody waits for anybody.
LockAtOnce(p) ==
    /\ run[p] = "waiting"
    /\ advisory' = p
    /\ run' = [run EXCEPT ![p] = "locked"]
    /\ UNCHANGED <<schema, version, txVars, runs, crashes>>

Lock(p) ==
    /\ run[p] = "waiting"
    /\ advisory = NoSession
    /\ advisory' = p
    /\ run' = [run EXCEPT ![p] = "locked"]
    /\ UNCHANGED <<schema, version, txVars, runs, crashes>>

\* run_migrations begins a transaction and reads alembic_version; below the
\* first revision there is nothing to downgrade.
ReadVersion(p) ==
    /\ run[p] = "locked"
    /\ run' = [run EXCEPT ![p] = IF p \in Operators /\ version = 0 THEN "refused" ELSE "running"]
    /\ base' = [base EXCEPT ![p] = version]
    /\ at' = [at EXCEPT ![p] = version]
    /\ statement' = [statement EXCEPT ![p] = 1]
    /\ draft' = [draft EXCEPT ![p] = schema]
    /\ UNCHANGED <<schema, version, advisory, runs, crashes>>

Goal(p) == IF p \in Replicas THEN Latest ELSE base[p] - 1

\* One statement of the next revision in the transaction; one that is refused
\* rolls it back.
Migrate(p) ==
    LET up     == p \in Replicas
        ops    == IF up THEN Upgrades[at[p] + 1] ELSE Downgrades[at[p]]
        failed == Refused(draft[p], ops[statement[p]])
        last   == statement[p] = Len(ops)
    IN /\ run[p] = "running"
       /\ at[p] # Goal(p)
       /\ run' = [run EXCEPT ![p] = IF failed THEN "failed" ELSE @]
       /\ draft' = [draft EXCEPT ![p] = IF failed THEN {} ELSE Done(@, ops[statement[p]])]
       /\ statement' = [statement EXCEPT ![p] = IF last THEN 1 ELSE @ + 1]
       /\ at' = [at EXCEPT ![p] = IF ~last THEN @ ELSE IF up THEN @ + 1 ELSE @ - 1]
       /\ UNCHANGED <<schema, version, advisory, base, runs, crashes>>

\* The commit, unless another transaction committed since this one began.
CommitMigration(p) ==
    LET failed == version # base[p]
    IN /\ run[p] = "running"
       /\ at[p] = Goal(p)
       /\ run' = [run EXCEPT ![p] = IF failed THEN "failed" ELSE "committed"]
       /\ schema' = IF failed THEN schema ELSE draft[p]
       /\ version' = IF failed THEN version ELSE at[p]
       /\ UNCHANGED <<advisory, txVars, runs, crashes>>

\* The transaction is over.
Forget(p) ==
    /\ base' = [base EXCEPT ![p] = 0]
    /\ at' = [at EXCEPT ![p] = 0]
    /\ statement' = [statement EXCEPT ![p] = 1]
    /\ draft' = [draft EXCEPT ![p] = {}]

\* Mutant of Close: the connection goes back to a pool and keeps the lock.
CloseToPool(p) ==
    /\ run[p] \in {"committed", "failed", "refused"}
    /\ run' = [run EXCEPT ![p] = "idle"]
    /\ Forget(p)
    /\ UNCHANGED <<schema, version, advisory, runs, crashes>>

\* The connection is closed, and with it the lock is released.
Close(p) ==
    /\ run[p] \in {"committed", "failed", "refused"}
    /\ run' = [run EXCEPT ![p] = "idle"]
    /\ advisory' = IF advisory = p THEN NoSession ELSE advisory
    /\ Forget(p)
    /\ UNCHANGED <<schema, version, runs, crashes>>

\* The process dies: PostgreSQL rolls back and releases the session's lock.
Die(p) ==
    /\ run[p] # "idle"
    /\ crashes < MaxCrashes
    /\ crashes' = crashes + 1
    /\ run' = [run EXCEPT ![p] = "idle"]
    /\ advisory' = IF advisory = p THEN NoSession ELSE advisory
    /\ Forget(p)
    /\ UNCHANGED <<schema, version, runs>>

Proceed(p) == ReadVersion(p) \/ Migrate(p) \/ CommitMigration(p) \/ Close(p)

MigrationNext == \E p \in Migrators : Begin(p) \/ Lock(p) \/ Proceed(p) \/ Die(p)

MigrationSpec == MigrationInit /\ [][MigrationNext]_migVars

\* A process that is not killed goes on, and PostgreSQL queues who waits.
FairMigrationSpec ==
    MigrationSpec /\ \A p \in Migrators : WF_migVars(Proceed(p)) /\ SF_migVars(Lock(p))

-----------------------------------------------------------------------------
(* Properties                                                              *)

\* The inductive invariant: who is past the lock holds it, its transaction
\* began at the committed version, and it moves towards its goal.
MigrationInv ==
    /\ MigrationTypeOK
    /\ \A p \in Migrators :
          /\ run[p] \notin {"idle", "waiting"} => advisory = p
          /\ run[p] = "running" => version = base[p]
          /\ run[p] = "running" /\ p \in Operators => at[p] \in {base[p], base[p] - 1} /\ base[p] > 0

(***************************************************************************)
(* At the latest revision the schema is the one the models declare: every  *)
(* column with its type and nullability, every key and native type.        *)
(***************************************************************************)
HeadIsMetadata == version = Latest => schema = Metadata

(***************************************************************************)
(* alembic_version tells the truth: whatever was upgraded, downgraded,     *)
(* interrupted and upgraded again, the schema is the one upgrading from    *)
(* nothing makes.  Every downgrade undoes its upgrade, native types too.   *)
(***************************************************************************)
VersionNamesSchema == schema = SchemaOf(version)

\* "Several API replicas start at once; only one may migrate at a time": no
\* run of alembic fails, neither on an object that is there already nor on
\* another's transaction (do_run_migrations).
NoRunFails == \A p \in Migrators : run[p] # "failed"

\* The schema stays whole while containers and consoles migrate it at once,
\* fail and die (alembic/env.py, alembic/versions).
SchemaIsSound == MigrationInv /\ HeadIsMetadata /\ VersionNamesSchema /\ NoRunFails

\* A container that starts gets its turn although others migrate or die
\* (pg_advisory_lock, NullPool).
EveryRunEnds == \A p \in Migrators : run[p] = "waiting" ~> run[p] = "idle"
=============================================================================
