-------------------------------- MODULE Upgrade --------------------------------
(***************************************************************************)
(* Migrations under a running metrics exporter.  The two meet in           *)
(* PostgreSQL: a scrape names tables and columns that the migrations       *)
(* create; an ALTER TABLE waits for the scrapes whose transaction has the  *)
(* tables locked, and a scrape waits for a migration that has altered      *)
(* them.                                                                   *)
(***************************************************************************)
EXTENDS Migrate

CONSTANTS Request, Queries, MaxConns, Required, MaxCommits

VARIABLES commits, process, code, phase, stamp, reads, conns, scrapes, failures

ASSUME RequestsRead == Request = Reader

(* A killed exporter has none of the exit codes of runMetrics.             *)
ASSUME ExporterAssumption ==
    /\ Queries \in Nat /\ MaxConns \in Nat /\ MaxCommits \in Nat
    /\ None \notin {"ok", "unavailable", "partial"}

E == INSTANCE Exporter WITH
        installed <- Versions(schema),
        altering  <- \E r \in Runner : \E m \in effects[r] : m[1] \in Altering

exporter == <<commits, process, code, phase, stamp, reads, conns, scrapes, failures>>
all      == <<vars, exporter>>

UpgradeInit == Init /\ E!Init
Exporting   == E!Next /\ UNCHANGED <<database, lock, pc, local, effects, logged>>
UpgradeNext == (Migrating /\ UNCHANGED exporter) \/ Exporting
UpgradeSpec == UpgradeInit /\ [][UpgradeNext]_all

MigrationsFair ==
    \A r \in Runner :
        /\ WF_all(Step(r) /\ UNCHANGED <<readers, exporter>>)
        /\ SF_all(TakeLock(r) /\ UNCHANGED <<readers, exporter>>)
        /\ SF_all(ApplySQL(r) /\ UNCHANGED <<readers, exporter>>)
FairUpgradeSpec == UpgradeSpec /\ MigrationsFair /\ E!Fairness
--------------------------------------------------------------------------------
(* Both components' variables have their types.                            *)
AllTypesOK == TypeOK /\ E!TypeOK

(* The exporter's properties, under migrations: a page is one state of the *)
(* database (Snapshot, postgres.go).                                       *)
OneSnapshot == E!OneSnapshot

(* A page holds all that was committed before its CollectedAt.             *)
NotOlderThanStamped == E!NotOlderThanStamped

(* The exporter's counters account for every scrape.                       *)
ScrapesAccounted == E!ScrapesAccounted

(* The exporter's exit code 0 means that no request was cut off.           *)
CleanExit == E!CleanExit

(* SIGTERM ends the exporter, also while a migration keeps its tables.     *)
Stops == E!Stops

(* A migration ends although an exporter keeps scraping the tables that it *)
(* alters: a scrape that has read them gives up their locks, also when it  *)
(* fails half way (the deferred Rollback of Snapshot, postgres.go).        *)
ScrapesLetMigrationsEnd == EveryRunEnds
================================================================================
