------------------------------- MODULE Startup -------------------------------
(***************************************************************************)
(* The start of the service (lifespan in src/src/main.py): alembic takes   *)
(* the schema to its head, ensure_schema creates what is still missing,    *)
(* and only then are requests served.                                      *)
(*                                                                         *)
(* On SQLite a migration is not one transaction.  Its CREATE TABLE is in   *)
(* force at once; alembic_version is written afterwards and committed by   *)
(* itself.  A process that ends in between leaves a table that the next    *)
(* start creates again, which fails.  A start can fail in many other ways. *)
(***************************************************************************)
EXTENDS Naturals

CONSTANTS
  HeadRev,     \* number of migrations; a version is how many are stamped
  Creates,     \* the tables each migration creates, at most one
  ModelTables, \* the tables of the models that ensure_schema knows
  NoDatabase   \* there is no database file

Tables == UNION {Creates[m] : m \in 1 .. HeadRev}

Database == [tables : SUBSET Tables, version : 0 .. HeadRev]

ASSUME SchemaConstantsOK ==
  /\ HeadRev \in Nat
  /\ \A m \in 1 .. HeadRev : \A t, u \in Creates[m] : t = u
  /\ \A m, n \in 1 .. HeadRev : m # n => Creates[m] \cap Creates[n] = {}
  /\ ModelTables = Tables
  /\ NoDatabase \notin Database

VARIABLES
  db,      \* the database file: its tables and the version in alembic_version
  service, \* the process: down, upgrading, migrated, ready, or failed to start
  applied, \* the migration under way has run its DDL and is not stamped yet
  torn     \* history: a process ended between a CREATE TABLE and its stamp

startupVars == <<db, service, applied, torn>>

StartupInit ==
  /\ db = NoDatabase
  /\ service = "down"
  /\ applied = FALSE
  /\ torn = FALSE

(* The process connects, which creates the file, and alembic reads how far *)
(* the schema has come.  To a later start an empty file is what no file    *)
(* is, so a process that ends before it connects is not told apart.        *)
Start ==
  /\ service \in {"down", "failed"}
  /\ service' = "upgrading"
  /\ db' = IF db = NoDatabase THEN [tables |-> {}, version |-> 0] ELSE db
  /\ applied' = FALSE
  /\ UNCHANGED torn

Migrating == service = "upgrading" /\ db.version < HeadRev

(* upgrade() of the next migration; its DDL commits by itself. *)
Apply ==
  /\ Migrating /\ ~ applied
  /\ Creates[db.version + 1] \cap db.tables = {}
  /\ db' = [db EXCEPT !.tables = @ \cup Creates[db.version + 1]]
  /\ applied' = TRUE
  /\ UNCHANGED <<service, torn>>

(* One way in which a start fails: the table exists already.  The          *)
(* OperationalError leaves lifespan and the server exits.                  *)
Collide ==
  /\ Migrating /\ ~ applied
  /\ Creates[db.version + 1] \cap db.tables # {}
  /\ service' = "failed"
  /\ UNCHANGED <<db, applied, torn>>

(* The migration under way ends without its stamp. *)
Tears == applied /\ Creates[db.version + 1] # {}

(* All other ways: any exception in lifespan, from a missing configuration *)
(* or a database that is locked or on a full disk, at any statement up to  *)
(* create_all.  What was executed stays.                                   *)
StartFails ==
  /\ service \in {"upgrading", "migrated"}
  /\ service' = "failed"
  /\ applied' = FALSE
  /\ torn' = (torn \/ Tears)
  /\ UNCHANGED db

(* Variant: the stamp is one too far. *)
StampAhead ==
  /\ Migrating /\ applied
  /\ db' = [db EXCEPT !.version = @ + 2]
  /\ applied' = FALSE
  /\ UNCHANGED <<service, torn>>

Stamp ==
  /\ Migrating /\ applied
  /\ db' = [db EXCEPT !.version = @ + 1]
  /\ applied' = FALSE
  /\ UNCHANGED <<service, torn>>

(* Variant: the upgrade goes one revision up instead of to the head. *)
UpgradeOnce ==
  /\ service = "upgrading" /\ db.version > 0 /\ ~ applied
  /\ service' = "migrated"
  /\ UNCHANGED <<db, applied, torn>>

(* command.upgrade(config, "head") returns. *)
Upgraded ==
  /\ service = "upgrading" /\ db.version = HeadRev
  /\ service' = "migrated"
  /\ UNCHANGED <<db, applied, torn>>

(* Variant: the exception of the upgrade is logged and passed over. *)
EnsureRegardless ==
  /\ service \in {"migrated", "failed"}
  /\ db' = [db EXCEPT !.tables = @ \cup ModelTables]
  /\ service' = "ready"
  /\ UNCHANGED <<applied, torn>>

(* create_all looks for each table before it creates it. *)
EnsureSchema ==
  /\ service = "migrated"
  /\ db' = [db EXCEPT !.tables = @ \cup ModelTables]
  /\ service' = "ready"
  /\ UNCHANGED <<applied, torn>>

Lifespan == Apply \/ Collide \/ Stamp \/ Upgraded \/ EnsureSchema

(* The process ends, killed or told to stop. *)
Down ==
  /\ service' = "down"
  /\ applied' = FALSE
  /\ torn' = (torn \/ Tears)

-----------------------------------------------------------------------------
(* Type invariant of the variables above. *)
StartupTypeOK ==
  /\ db \in Database \cup {NoDatabase}
  /\ service \in {"down", "upgrading", "migrated", "ready", "failed"}
  /\ applied \in BOOLEAN
  /\ torn \in BOOLEAN

(* The tables that the first n migrations create. *)
TablesUpTo(n) == UNION {Creates[m] : m \in 1 .. n}

(* However often the process dies and starts again, the schema is at most  *)
(* one CREATE TABLE ahead of its version and never behind it; a service    *)
(* that answers requests has the whole schema and the last version.        *)
SchemaFollowsVersion ==
  /\ db # NoDatabase =>
       \/ db.tables = TablesUpTo(db.version)
       \/ db.version < HeadRev /\ db.tables = TablesUpTo(db.version + 1)
  /\ service = "ready" => db.version = HeadRev /\ db.tables = ModelTables

(* Whatever ended the starts and the services before it, wherever it did,  *)
(* a start finds none of the tables that it has yet to create, unless some *)
(* process ended between a CREATE TABLE and its stamp: a start that failed *)
(* over a locked database, say, can be repeated.                           *)
RestartsUnlessTorn ==
  service = "upgrading" /\ ~ applied /\ ~ torn =>
    \A m \in (db.version + 1) .. HeadRev : Creates[m] \cap db.tables = {}
=============================================================================
