------------------------------- MODULE Export -------------------------------
(***************************************************************************)
(* The personal-data export (services/export_service.py): one SELECT per   *)
(* table, each of which sees what is committed by then, while the          *)
(* subject's rows are added and an erasure commits.                        *)
(*                                                                         *)
(* A row is its table and a number.  The erasure is its commit, which      *)
(* misses nothing (EraseMissesNothing of Erasure); rows of renters stand   *)
(* for the name and licence in them, which it takes away, while the link   *)
(* to the account stays.                                                   *)
(***************************************************************************)
EXTENDS Integers, Sequences

CONSTANT MaxWrites      \* bound on the rows added

ASSUME ExportAssumption == MaxWrites \in Nat

VARIABLES
    stored,     \* rows about the subject
    linked,     \* whether the subject has a renter profile
    anonymized, \* users.anonymized_at is set
    writes,
    stage,      \* the export: 0, or the SELECT it is at
    profile,    \* the subject as subject_access loaded it
    hasRenter,  \* whether it found the renter
    got,        \* the rows it found
    wiped, atStart      \* history: rows erased, rows stored when the export began

dataVars   == <<stored, linked, anonymized, writes, wiped>>
exportVars == <<dataVars, stage, profile, hasRenter, got, atStart>>

\* Mutant of SelectOrder: the rentals come before the renter they belong to.
RentalsFirst ==
    << "rentals", "renters", "user_activity", "marketing_messages", "analytics_events",
       "consent_history", "user_consents" >>

SelectOrder ==
    << "renters", "user_activity", "marketing_messages", "analytics_events", "consent_history",
       "rentals", "user_consents" >>

Places == 1..Len(SelectOrder)

Of(table) == {r \in stored : r.table = table}

ExportInit ==
    /\ stored = {} /\ linked = FALSE /\ anonymized = FALSE
    /\ writes = 0
    /\ stage = 0 /\ profile = "none" /\ hasRenter = FALSE
    /\ got = {} /\ atStart = {}
    /\ wiped = {}

-----------------------------------------------------------------------------
(* What others commit                                                      *)

\* Tables whose rows come together: a consent row comes with its first event
\* and later ones without it; a renter profile is unique, and there are no
\* rentals without one.
Commits ==
    {{t} : t \in {"user_activity", "marketing_messages", "analytics_events"}}
    \cup {{"consent_history", "user_consents"}}
    \cup (IF Of("user_consents") = {} THEN {} ELSE {{"consent_history"}})
    \cup {IF linked THEN {"rentals"} ELSE {"renters"}}

Store(tables) ==
    /\ writes < MaxWrites
    /\ writes' = writes + 1
    /\ stored' = stored \cup {[table |-> t, id |-> writes'] : t \in tables}
    /\ linked' = (linked \/ "renters" \in tables)
    /\ UNCHANGED <<anonymized, wiped, stage, profile, hasRenter, got, atStart>>

\* anonymize_user: what it deletes or overwrites; withdraw_all adds an event
\* when a consent is still granted.
Anonymize ==
    LET gone   == UNION {Of(t) : t \in {"renters", "user_activity", "marketing_messages", "analytics_events"}}
        events == {r \in {[table |-> "consent_history", id |-> writes + 1]} : Of("user_consents") # {}}
    IN /\ ~anonymized
       /\ anonymized' = TRUE
       /\ writes' = writes + 1
       /\ \E revoked \in SUBSET events : stored' = (stored \ gone) \cup revoked
       /\ wiped' = gone
       /\ UNCHANGED <<linked, stage, profile, hasRenter, got, atStart>>

-----------------------------------------------------------------------------
(* The export                                                              *)

\* subject_access loads the subject; the session keeps it as it is then.
BeginExport ==
    /\ stage = 0
    /\ stage' = 1
    /\ profile' = IF anonymized THEN "anonymized" ELSE "original"
    /\ atStart' = stored
    /\ UNCHANGED <<dataVars, hasRenter, got>>

\* _rentals_of returns nothing without a renter.
Found(table) == IF table = "rentals" /\ ~hasRenter THEN {} ELSE Of(table)

Select ==
    /\ stage \in Places
    /\ got' = got \cup Found(SelectOrder[stage])
    /\ hasRenter' = (hasRenter \/ (SelectOrder[stage] = "renters" /\ linked))
    /\ stage' = stage + 1
    /\ UNCHANGED <<dataVars, profile, atStart>>

\* The audit row is committed and the export answered.
EndExport ==
    /\ stage > Len(SelectOrder)
    /\ stage' = 0 /\ profile' = "none" /\ hasRenter' = FALSE
    /\ got' = {} /\ atStart' = {}
    /\ UNCHANGED dataVars

ExportNext ==
    \/ \E tables \in Commits : Store(tables)
    \/ Anonymize
    \/ BeginExport \/ Select \/ EndExport

ExportSpec == ExportInit /\ [][ExportNext]_exportVars

-----------------------------------------------------------------------------
(* Properties                                                              *)

Selected == {SelectOrder[i] : i \in {j \in Places : j < stage}}

(***************************************************************************)
(* The export leaves out nothing that was stored when it was asked for and *)
(* still is when it answers, the rentals of a renter profile included,     *)
(* although no snapshot holds its statements together ("Right of Access    *)
(* (GDPR Art. 15)", build_export).                                         *)
(***************************************************************************)
ExportIsComplete ==
    \A r \in atStart \cap stored : r.table \in Selected => r \in got

(***************************************************************************)
(* An export that calls its subject anonymized shows nothing the erasure   *)
(* took away, whenever it commits between two statements: the subject is   *)
(* loaded before them all (subject_access, SettingsSection.anonymized).    *)
(***************************************************************************)
AnonymizedExportIsBare == profile = "anonymized" => got \cap wiped = {}

\* An export read statement by statement is complete and, where it says so,
\* bare (build_export).
ExportIsSound == ExportIsComplete /\ AnonymizedExportIsBare
=============================================================================
