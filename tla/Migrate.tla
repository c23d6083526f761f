------------------------------- MODULE Migrate -------------------------------
(***************************************************************************)
(* Schema migrations: internal/migrate (Runner.Plan, Runner.Run, planTx)   *)
(* as `cpctl migrate` calls it (cli/state.go, runMigrate).                 *)
(*                                                                         *)
(* Several runners, of several releases, migrate one database at once.     *)
(* Each statement is a step; the transaction is READ COMMITTED, its writes *)
(* are its own until COMMIT, and the end of its session, at any moment,    *)
(* undoes them.  A migration is its version and the checksum of its        *)
(* content.                                                                *)
(***************************************************************************)
EXTENDS Naturals, FiniteSets

CONSTANTS
    Runner,       \* cpctl migrate processes
    Release,      \* builds of cpctl
    Embedded,     \* release |-> version |-> checksum of the embedded content
    Altering,     \* versions whose SQL alters tables that readers lock
    Reader,       \* sessions of other programs that read the tables
    None

Version   == UNION {DOMAIN Embedded[b] : b \in Release}
Checksum  == UNION {{Embedded[b][v] : v \in DOMAIN Embedded[b]} : b \in Release}
Migration == Version \X Checksum

(* Versions are positive and unique (New), and a release adds the next one *)
(* (wiki/Development-and-Roadmap.md:56): a release has no gap.             *)
ASSUME EmbeddedAssumption ==
    \A b \in Release :
        /\ DOMAIN Embedded[b] \subseteq Nat \ {0}
        /\ \A v \in DOMAIN Embedded[b] : 1..v \subseteq DOMAIN Embedded[b]

ASSUME NoneAssumption == None \notin Runner \cup Release

VARIABLES
    schema,       \* migrations whose SQL is in the database, committed
    recorded,     \* rows of bkcp.schema_migrations, committed
    created,      \* bkcp.schema_migrations exists, committed
    lock,         \* holder of the transaction-scoped advisory lock
    pc,           \* where each runner is
    release,      \* the build it runs
    pending,      \* Plan.Pending
    effects,      \* SQL its open transaction has executed
    logged,       \* rows its open transaction has inserted
    readers       \* sessions of others inside a transaction on the tables

database == <<schema, recorded, created>>
local    == <<release, pending>>
vars     == <<database, lock, pc, local, effects, logged, readers>>

Locked   == {"planning", "applying", "recording"}
Running  == {"inspecting", "reading", "waiting"} \cup Locked
Finished == {"ok", "planned", "blocked", "unknown", "error", "lost"}

(* Rows, statements and answers are those of the runner.                   *)
TypeOK ==
    /\ schema \subseteq Migration /\ recorded \subseteq Migration
    /\ created \in BOOLEAN
    /\ lock \in Runner \cup {None}
    /\ pc \in [Runner -> {"idle"} \cup Running \cup Finished]
    /\ release \in [Runner -> Release \cup {None}]
    /\ pending \in [Runner -> SUBSET Version]
    /\ effects \in [Runner -> SUBSET Migration]
    /\ logged \in [Runner -> SUBSET Migration]
    /\ readers \subseteq Reader

Init ==
    /\ schema = {} /\ recorded = {} /\ created = FALSE
    /\ lock = None
    /\ pc = [r \in Runner |-> "idle"]
    /\ release = [r \in Runner |-> None]
    /\ pending = [r \in Runner |-> {}]
    /\ effects = [r \in Runner |-> {}]
    /\ logged = [r \in Runner |-> {}]
    /\ readers = {}
--------------------------------------------------------------------------------
Versions(M)  == {m[1] : m \in M}
Go(r, label) == pc' = [pc EXCEPT ![r] = label]

(* What the release of the runner embeds, and what the rows say of it.     *)
Content(r)        == Embedded[release[r]]
VersionOnly(r, rows) ==   \* a mutant of Mismatch: checksums are not compared
    FALSE

Mismatch(r, rows) == \E m \in rows : m[1] \in DOMAIN Content(r) /\ Content(r)[m[1]] # m[2]
FromZero(r, rows) ==   \* a mutant of Missing: a file numbered 0 is a migration
    (DOMAIN Content(r) \ Versions(rows)) \cup {0}

Missing(r, rows)  == DOMAIN Content(r) \ Versions(rows)
Unknown(r, rows)  == Versions(rows) \ DOMAIN Content(r) # {}

(* The migration the loop over plan.Pending is at: the lowest version.     *)
Current(r) == {v \in pending[r] : \A u \in pending[r] : v <= u}
Item(r, v) == <<v, Content(r)[v]>>

KeepLock(r) ==   \* a mutant of Unlock: a session lock, which the pooled session keeps after a rollback
    lock' = IF pc[r] = "applying" /\ pending[r] = {} THEN None ELSE lock

(* The end of the runner's transaction, committed or not, and of its lock. *)
Unlock(r) == lock' = IF lock = r THEN None ELSE lock
End(r) ==
    /\ Unlock(r)
    /\ effects' = [effects EXCEPT ![r] = {}]
    /\ logged' = [logged EXCEPT ![r] = {}]

Rollback(r, answer) == Go(r, answer) /\ End(r) /\ UNCHANGED <<database, local>>
--------------------------------------------------------------------------------
(***************************************************************************)
(* Run.                                                                    *)
(***************************************************************************)
(* cpctl migrate: connect and BEGIN; the next statement asks for the lock. *)
Start(r, b) ==
    /\ pc[r] \in {"idle"} \cup Finished
    /\ release' = [release EXCEPT ![r] = b]
    /\ pending' = [pending EXCEPT ![r] = {}]
    /\ Go(r, "waiting")
    /\ UNCHANGED <<database, lock, effects, logged>>

PlanBeforeLock(r) ==   \* a mutant of TakeLock: the advisory lock is taken after the plan
    \/ /\ pc[r] = "waiting" /\ pending[r] = {} /\ ~Mismatch(r, recorded)
       /\ pending' = [pending EXCEPT ![r] = Missing(r, recorded)]
       /\ UNCHANGED <<database, lock, pc, release, effects, logged>>
    \/ /\ pc[r] = "waiting" /\ pending[r] # {} /\ lock = None
       /\ lock' = r
       /\ Go(r, "applying")
       /\ UNCHANGED <<database, local, effects, logged>>

(* pg_advisory_xact_lock waits.  CREATE TABLE IF NOT EXISTS runs under the *)
(* lock and is seen by others at the commit only.                          *)
TakeLock(r) ==
    /\ pc[r] = "waiting" /\ lock = None
    /\ lock' = r
    /\ Go(r, "planning")
    /\ UNCHANGED <<database, local, effects, logged>>

RepairChecksum(r) ==   \* a mutant of PlanTx: a mismatch is repaired by rewriting the row
    /\ pc[r] = "planning"
    /\ recorded' = {<<m[1], IF m[1] \in DOMAIN Content(r) THEN Content(r)[m[1]] ELSE m[2]>>
                      : m \in recorded}
    /\ pending' = [pending EXCEPT ![r] = Missing(r, recorded)]
    /\ Go(r, "applying")
    /\ UNCHANGED <<schema, created, lock, release, effects, logged>>

(* planTx: what is recorded must be what is embedded; the rest is pending. *)
(* Versions this release does not know are not looked at.                  *)
PlanTx(r) ==
    /\ pc[r] = "planning"
    /\ IF Mismatch(r, recorded)
       THEN Rollback(r, "blocked")
       ELSE /\ pending' = [pending EXCEPT ![r] = Missing(r, recorded)]
            /\ Go(r, "applying")
            /\ UNCHANGED <<database, lock, release, effects, logged>>

(* The SQL of one migration fails on what exists already and on what it    *)
(* builds on and is missing.                                               *)
Applicable(r, v) ==
    LET there == Versions(schema \cup effects[r])
    IN v \notin there /\ \A u \in 1..(v - 1) : u \in there

(* ALTER TABLE waits for the transactions that read the tables.            *)
ApplySQL(r) ==
    /\ pc[r] = "applying"
    /\ \E v \in Current(r) :
          /\ v \in Altering => readers = {}
          /\ IF Applicable(r, v)
             THEN /\ effects' = [effects EXCEPT ![r] = @ \cup {Item(r, v)}]
                  /\ Go(r, "recording")
                  /\ UNCHANGED <<database, lock, local, logged>>
             ELSE Rollback(r, "error")

RecordAtOnce(r) ==   \* a mutant of Record: the row is inserted in autocommit, outside the transaction
    /\ pc[r] = "recording"
    /\ recorded' = recorded \cup {Item(r, v) : v \in Current(r)}
    /\ pending' = [pending EXCEPT ![r] = @ \ Current(r)]
    /\ Go(r, "applying")
    /\ UNCHANGED <<schema, created, lock, release, effects, logged>>

(* INSERT INTO bkcp.schema_migrations: version is the primary key.         *)
Record(r) ==
    /\ pc[r] = "recording"
    /\ \E v \in Current(r) :
          IF v \in Versions(recorded \cup logged[r])
          THEN Rollback(r, "error")
          ELSE /\ logged' = [logged EXCEPT ![r] = @ \cup {Item(r, v)}]
               /\ pending' = [pending EXCEPT ![r] = @ \ {v}]
               /\ Go(r, "applying")
               /\ UNCHANGED <<database, lock, release, effects>>

Commit(r) ==
    /\ pc[r] = "applying" /\ pending[r] = {}
    /\ schema' = schema \cup effects[r]
    /\ recorded' = recorded \cup logged[r]
    /\ created' = TRUE
    /\ Go(r, "ok")
    /\ End(r)
    /\ UNCHANGED local

(* The process dies, its context of 30 seconds expires, a statement fails  *)
(* or the session ends: PostgreSQL rolls back.                             *)
Lose(r) == pc[r] \in Running /\ Rollback(r, "lost")
--------------------------------------------------------------------------------
(***************************************************************************)
(* Plan, the dry run: two statements outside any transaction.              *)
(***************************************************************************)
StartDryRun(r, b) ==
    /\ pc[r] \in {"idle"} \cup Finished
    /\ release' = [release EXCEPT ![r] = b]
    /\ pending' = [pending EXCEPT ![r] = {}]
    /\ Go(r, "inspecting")
    /\ UNCHANGED <<database, lock, effects, logged>>

InspectTable(r) ==
    /\ pc[r] = "inspecting"
    /\ IF created
       THEN Go(r, "reading") /\ UNCHANGED pending
       ELSE /\ Go(r, "planned")
            /\ pending' = [pending EXCEPT ![r] = Missing(r, {})]
    /\ UNCHANGED <<database, lock, release, effects, logged>>

ReadApplied(r) ==
    /\ pc[r] = "reading"
    /\ \/ Mismatch(r, recorded) /\ Go(r, "blocked") /\ UNCHANGED pending
       \/ /\ ~Mismatch(r, recorded) /\ Unknown(r, recorded)
          /\ Go(r, "unknown") /\ UNCHANGED pending
       \/ /\ ~Mismatch(r, recorded) /\ ~Unknown(r, recorded)
          /\ Go(r, "planned")
          /\ pending' = [pending EXCEPT ![r] = Missing(r, recorded)]
    /\ UNCHANGED <<database, lock, release, effects, logged>>
--------------------------------------------------------------------------------
(* What a runner does once it is started.                                  *)
Step(r) ==
    \/ TakeLock(r) \/ PlanTx(r) \/ ApplySQL(r) \/ Record(r) \/ Commit(r)
    \/ InspectTable(r) \/ ReadApplied(r)

Migrating ==
    /\ \E r \in Runner :
          \/ Step(r) \/ Lose(r)
          \/ \E b \in Release : Start(r, b) \/ StartDryRun(r, b)
    /\ UNCHANGED readers

(* Other programs read the tables.                                         *)
Sessions ==
    /\ readers' \in SUBSET Reader
    /\ UNCHANGED <<database, lock, pc, local, effects, logged>>

Next == Migrating \/ Sessions
Spec == Init /\ [][Next]_vars

(* A live process goes on; PostgreSQL queues advisory locks and table      *)
(* locks, so a waiter is served when the lock keeps becoming free; the     *)
(* transactions of readers end.                                            *)
Fairness ==
    /\ \A r \in Runner :
          /\ WF_vars(Step(r) /\ UNCHANGED readers)
          /\ SF_vars(TakeLock(r) /\ UNCHANGED readers)
          /\ SF_vars(ApplySQL(r) /\ UNCHANGED readers)
    /\ WF_vars(Sessions /\ readers' = {})
FairSpec == Spec /\ Fairness
--------------------------------------------------------------------------------
(* What is recorded is what is in the schema: whatever dies whenever, no   *)
(* migration is in one and not in the other, no version twice with two     *)
(* contents, and none without those before it.                             *)
SchemaIsHistory ==
    /\ schema = recorded
    /\ \A m, n \in schema : m[1] = n[1] => m = n
    /\ \A v \in Versions(schema) : 1..v \subseteq Versions(schema)

(* Two runners never meet inside the transaction: concurrent migrations    *)
(* fail neither on an object that exists nor on a duplicate row, so a      *)
(* runner that ends without success met a checksum, a version it does not  *)
(* know, or the loss of its session.                                       *)
NeverCollide == \A r \in Runner : pc[r] # "error"

(* A migration reported done, or one that a dry run does not list, is in   *)
(* the database with the content this release embeds, and stays there.     *)
NothingLeftOut ==
    \A r \in Runner : pc[r] \in {"ok", "planned"} =>
        \A v \in DOMAIN Content(r) \ pending[r] : <<v, Content(r)[v]>> \in recorded

(* Applied migrations are immutable: no run, whatever its release, removes *)
(* or rewrites a row, and a dry run writes nothing.                        *)
HistoryOnlyGrows ==
    [][/\ recorded \subseteq recorded'
       /\ \A m \in recorded' \ recorded : m[1] \notin Versions(recorded)]_vars

(* Every run ends: nobody waits for the lock of a runner that is gone.     *)
EveryRunEnds == \A r \in Runner : pc[r] \in Running ~> pc[r] \in Finished
================================================================================
