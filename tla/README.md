# TLA+ verification of the bhyve/Kea control plane

This directory models and verifies `cpctl`, the control plane that creates,
reconciles and deletes bhyve guests on a FreeBSD host. PostgreSQL holds what
was declared, allocated, planned, executed and observed; typed drivers change
ZFS, vm-bhyve, cloud-init seeds, Kea and PF. `cpctl` has no daemon that acts: an
operator types `apply`, `reconcile` or `delete`, one process runs it, and
whatever it left unfinished is the next command's to resume.

    tlc -workers 2 -config contention.cfg MCExecution      # any run of section 4
    tlapm Execution_proofs.tla                             # any *_proofs module

## 1. The system

| Component | State it keeps | Operations | Hard behaviour |
|---|---|---|---|
| Executable planner (`internal/planner/execution.go`, `reconcile.go`) | none | build the step list, digest each input, derive plan digest and idempotency key | the key decides whether a command is new or a retry |
| Execution repository (`internal/state/postgres/execution.go`, `reconcile.go`, `execution_steps.go`) | resources, vm_specs, vm_allocations, vm_effective, operations, operation_steps, vm_observations | prepare apply/delete/reconcile; start, claim, complete, fail, complete operation, record observation | transactions of several commands overlap; retries find old rows |
| Execution lock (`execution_lock.go`) | one advisory lock per resource | try in a transaction (prepare), try in a session (execute), unlock | the session can end under a live executor |
| Executor (`internal/execution/executor.go`) | locals of one run | inspect, lock, inspect, snapshot steps, then claim/ensure/record/settle each step, complete, report | crash, timeout or database error between any two statements |
| System drivers (`system.go`), runtime driver (`runtime_driver.go`) | the host: image cache, zvol, seed, `.conf`, power, Kea reservations, PF anchor, services | one `ensure` function per driver action, `observe` | each is several external commands; an error, a kill or a command without effect in between leaves part of it |
| CLI (`internal/cli/execution.go`) | none | prepare, for apply perhaps prepare a reconcile, then run | which of several operations a command really executes |
| IPAM (`ensureAllocation`, `internal/allocation`) | vm_allocations | reuse, scan a pool, release | a scan is many statements; overlapping pools, unique columns, row locks in two orders |
| Migrations (`internal/migrate`) | schema_migrations and the schema | plan, run | several programs, of several releases, migrate at once |
| Metrics exporter (`internal/metrics`, `internal/cli/metrics.go`) | counters, a connection pool, a process | scrape, ready, shutdown | concurrent scrapes, a slow or migrating database, a shutdown that times out |
| Resource repository (`repository.go`) | the same rows | `InspectResource`, `ListResources`, legacy `PrepareApply` (called by tests only) | read-only except `PrepareApply` |
| Configuration, doctor, output, dashboards, rc scripts | none | parse, check, print | none |

How they interact: the CLI calls the repository to prepare an operation in one
transaction, then the executor, which calls the repository around every driver
call. Processes never talk to each other; they meet in the rows and at the
locks. The drivers know only the step input stored in the row. The exporter and
the migrations meet the control plane, and each other, in PostgreSQL only.

What makes each correct: *planner*, the same intent gives the same operation and
another intent another; *repository*, no preparation disturbs a running
operation, rows that belong together change together; *lock*, one command works
on a resource; *executor*, steps in order, none skipped, success only with
evidence; *drivers*, repeatable after any interruption, success only for what is
there; *IPAM*, an identity belongs to one guest and is not moved, and no command
waits for ever; *migrations*, each version once, in order, in the schema exactly
when in the history; *exporter*, a page is one state of the database, and
neither its shutdown nor a migration is held up by a scrape.

## 2. Modules

    Planner <- Host <- Execution <- MCExecution, Execution_proofs <- Lifecycle_proofs
                       Execution implements Lifecycle (one resource, seen from outside)
               Host <- Host_proofs <- Execution_proofs, DriverCall_proofs, Drivers_proofs
               Host <- DriverCall, Drivers
               DriverCall <- DriverCall_proofs;   Drivers <- MCDrivers, Drivers_proofs
                       Drivers implements DriverCall (one call, in one step)
    Allocation <- MCAllocation, Allocation_proofs
    Migrate <- MCMigrate, Migrate_proofs
    Migrate + Exporter <- Upgrade <- MCUpgrade
    Migrate_proofs + Upgrade <- Upgrade_proofs (Upgrade implements Migrate)

### 2.1 One resource: Planner, Host, Execution, Lifecycle

**Planner** has the three step lists and `Operation`, the identity of an
operation. The idempotency key is a SHA-256 over the resource, generation,
action and plan digest, and the plan digest covers every step input. SHA-256 is
taken to be injective, so the key *is* the record of what it digests:
generation, action and allocation (identity and allocation generation). The
site file is taken not to change.

**Host** has the host as one record and, per `ensure` function, the state after
a call that returned no error (`Ensured` and the operators it names), when the
driver refuses (`Blocked`), errs after half its work (`MarkerMissing`,
`HalfStored`) or reports drift (`Drifted`), and the states an erring or
interrupted call may leave (`Torn`): nothing done, all done with the answer
lost, or a prefix of its commands. That these one-step summaries are right is
what module Drivers is checked for (2.2).

**Execution** has the rows of one resource, the lock, the host and the
processes. Correspondence of the variables:

| Variable | Code |
|---|---|
| `declared`, `archived`, `alloc`, `effective` | `vm_specs` by generation; `resources.archived_at`; `vm_allocations`; `vm_effective` state and plan digest |
| `operations`, `steps`, `observation` | status of each operation row; statuses of its step rows in sequence; latest `vm_observations` row |
| `newest` | what `ORDER BY created_at DESC LIMIT 1` returns |
| `older`, `overtaken` | history that orders `created_at`, the timestamp of BEGIN: which open transactions began before `p`'s, and which began before the one that created `newest` |
| `lock` | holder of the advisory lock `bkcp:execute:vm:<name>` |
| `pc`, `cmd`, `kind`, `current`, `todo`, `result` | where a process is, its command, the transaction it prepares, and the executor's locals |
| `reply` | what the command that ended in the last step exited with |
| `crashes`, `losses`, `drifts`, `failures` | faults so far; they carry the bounds |

| Action | Code |
|---|---|
| `BeginTx`, `LockPreparation` | BEGIN; `pg_try_advisory_xact_lock` |
| `PrepareExecutableApply`, `PrepareExecutableDelete`, `PrepareExecutableReconcile`, `RefuseApply`, `PrepareNotFound` | the rest of each transaction up to COMMIT or rollback |
| `InspectBefore`, `LockExecution`, `Inspect`, `ExecutionSteps`, `StartOperation` | `Executor.Run` before its loop |
| `ClaimStep`, `Ensure` / `EnsureFails`, `RecordObservation`, `CompleteStep` / `FailStep` | one turn of the loop |
| `CompleteOperation`, `Report` | after the loop |
| `Crash`, `SessionLoss`, `Drift` | a process that stops without another write (killed, timed out, or a statement failed), inside a driver call with the host anywhere in `Torn`; the lock session ends unnoticed; anyone else changes the host |

**Lifecycle** is the abstract specification: one resource without processes,
transactions or retries. One operation is carried out at a time, its steps one
after the other; it is finished once, after its last step; an identity is held
from an apply to a delete. `Execution` implements it (`FollowsLifecycle`) under
the mapping in its instance `L`: the satisfied steps of the newest operation,
whether it succeeded, whether some process holds an operation, the identity of
the unreleased allocation. Once a lock session was lost all that is promised is
that an identity never changes into another (`Unguarded`).

Abstractions. A statement is atomic, and so is a preparation between taking its
lock and COMMIT (it holds the lock, and reads and writes only rows of this
resource; the allocation inside it, which reads others, is module Allocation);
`InspectResource` is six SELECTs and one step here, because its callers hold the
lock or use only whether the resource exists. Under a lost session that
atomicity is an approximation. Two operations never get equal timestamps. A Kea
reservation is present or absent per identity. What the drivers put in files is
the manifest it came from. Validation errors that a stored row cannot cause
(digest mismatch of a step input) are left out, as are wording, logging, JSON.

### 2.2 Driver calls: DriverCall, Drivers

**DriverCall** is what the executor takes a driver call to be: between `Begin`
and an answer the host is somewhere in `Torn` of where it was before; the answer
is one the host before calls for (`Answers`), or an error (`Errs`), or never
comes (`Killed`). Its `Answers` and `Errs` are
`Execution`'s `Ensure` and `EnsureFails`, its `Killed` is `Execution`'s `Crash`
in a driver call: that is proved, in both directions (section 5).

**Drivers** has `SystemDriver` and `RuntimeDriver` command by command. `sys` is
the machine in more detail than `Host`: raw image and marker file apart, dataset
and zvol apart, what the zvol really holds (`content`: nothing, part of the
image, the image) apart from its `bkcp:image-sha256` (`stamp`), ISO and its
marker apart, Kea's answer for a MAC (`none`, `match`, `other`), each managed
service. `HostOf` forgets the detail. `at` is the command the call is at; one
action per driver (`EnsureServices`, `DriveImage`, `DriveStorage`,
`DriveStorageAbsent`, `DriveSeed`, `DriveSeedAbsent`, `DriveGuest`,
`DrivePower`, `DriveVMAbsent`, `DriveKea`, `DriveKeaAbsent`, `DrivePF`,
`Observe`) says which command follows which, `Effect` what a command does,
`Partly` what an interrupted one may leave. `Begin` stands for the executor: calls
follow a plan, a call without success is made again, another operation may take
over between two calls. `Interrupt` lets any command err, do part of its work, do all of
it and lose the answer, or be killed with the process; `Runs` lets a command
whose effect is read back answer without effect; `Disturb` is anyone else,
between calls. Drivers implements DriverCall under `HostOf` (`FollowsCall`).

### 2.3 Several resources: Allocation

**Allocation** has `vm_allocations` (`rows`) and every lock of the preparation
and completion transactions that two commands can meet at: execution locks, pool
locks, rows of `resources`, `vm_effective`, `vm_allocations`, and the index
entries of the two UNIQUE columns. Statements are steps: `BeginApply`, `Declare`,
`LockPool`, `ScanAddress` (one look per address, READ COMMITTED), `ScanMac`,
`WriteRow`, `Persist`; `BeginDelete`, `DriversDone`, `MarkAbsent`, `ReleaseRow`,
`Archive`. `Crash` rolls back, `LoseSession` takes the execution lock away
under a running delete, `DetectDeadlock` is PostgreSQL ending one transaction of a
cycle. A row stays, with its address, when it is released, as in the schema.

### 2.4 Migrations and the exporter: Migrate, Exporter, Upgrade

**Migrate** has `Runner.Run` (`Start`, `TakeLock`, `PlanTx`, `ApplySQL`,
`Record`, `Commit`) and the dry run (`StartDryRun`, `InspectTable`,
`ReadApplied`), statement by statement, for any number of runners of any
releases, with the loss of the session at any statement (`Lose`). What a
transaction has done but not committed (`effects`, `logged`) is seen by itself
only. A migration is a version and a checksum. An ALTER TABLE waits for readers.

**Exporter** has a request (`Scrape`, `Probe`, `Ping`, `Begin`, `Stamp`,
`Query`, `CommitSnapshot`, `FailSnapshot`, `Rollback`, `Render`, `Refuse`) and the process
(`Open`, `Terminate`, `Drained`, `ShutdownTimeout`, `ServeFails`, `Close`,
`Kill`). Its database is a counter of commits, which is also its clock, and the
schema versions its statements need. **Upgrade** composes the two: the
exporter's `installed` and `altering` are functions of Migrate's variables, and
Migrate's `readers` are the exporter's transactions that hold table locks. A
scrape locks the tables with its first successful statement, until its
transaction ends. An error of the server, a missing column among them, aborts
the transaction and gives up its locks at once, while the connection stays out
of the pool until the deferred `Rollback`; when the client gives up (its context
expired, a row it cannot scan) the locks stay as well. The tables of a migration
are altered in one step. PostgreSQL locks one after the other and may meet a
scrape in the opposite order; the deadlock it then ends by aborting one of the two
is `Lose` or `FailSnapshot`.

## 3. Properties

*Execution.* Those that rely on the lock carry the antecedent `losses = 0`.

* `ExclusiveMutator`: whoever executes or prepares holds the lock.
* `ExecutesNewest`: an executor works on the newest operation until its last write.
* `OnlyNewestAdvances`: no other operation's steps move except back to pending.
* `StepsInOrder`: a satisfied step has only satisfied steps before it, across retries and resets.
* `SucceededIsFinal`: a finished apply or delete is not run again.
* `ConvergedHasEvidence`, `AbsentHasEvidence`: the effective state is backed by a finished newest operation and a matching observation of that operation.
* `ConvergedApplyMatchesHost`: a converged apply is on the host what it declared.
* `ReleasedLeavesNothing`, `ReleasedIffArchived`, `IdentityKept`: the life of an allocation.
* `StorageDestroyedByDelete`: no other operation destroys the zvol.
* `FollowsLifecycle`: the refinement of 2.1.
* `ApplyConverges`, `DeleteArchives`: liveness.

*Drivers.*

* `FollowsCall`: every command of every call, with every fault, is a step of DriverCall; so what Execution does in one step is what the code does in several.
* `RetryRepairs`: making an interrupted call again brings the host where the undisturbed call would have, but for two exceptions: a zvol whose image identity was not written stays refused, and after `vm destroy` a retry leaves the seed to a later step.
* `StampMeansImage`: a zvol that carries the image identity holds the whole image.
* `StartsWholeDisk`: no guest is powered on on a disk written in part.
* `DoneHolds`: a call that reports success has left all the step is for.

*Allocation.* `OneOwner`: no address and no MAC has two live owners.
`ChoiceHolds`: what a scan chose stays free of that pool's guests until it is
written. `DeadlockNeedsLoss`: the execution lock alone keeps the two lock orders
apart. `Answered`: every command ends.

*Migrate.* `SchemaIsHistory`, `NeverCollide` (no runner fails on what another
did), `NothingLeftOut` (reports are true), `HistoryOnlyGrows`, `EveryRunEnds`.

*Upgrade.* `OneSnapshot`, `NotOlderThanStamped`, `ScrapesAccounted`, `CleanExit`,
`Stops`, `ScrapesLetMigrationsEnd`.

## 4. Runs

| Run | Module, instance | Question | Result |
|---|---|---|---|
| `contention` | MCExecution: 2 processes, no anchor, 1 fault (crash, failure or lost session) | do overlapping commands keep to one operation at a time, is converged backed by evidence, and does the whole implement Lifecycle? | holds, 1.46 M states |
| `redeclare` | MCExecution: power running/stopped, 2 generations, services managed, 1 fault or outside change | is a converged apply on the host; are steps in order and finished operations final? | holds, 1.24 M |
| `retyped` | MCExecution: apply and delete, 2 identities, a crash and a failure, fairness | is an identity kept and released clean; does a repeated apply converge and a repeated delete archive? | holds with the named exceptions, 322 k |
| `drivers` | MCDrivers: 2 manifests, 2 services, 2 faults, 2 disturbances | do the commands implement the one-step calls; do retries repair? | holds, 681 k |
| `allocation` | MCAllocation: 2 processes, 2 resources, 2 pools that share an address, colliding MAC candidates, 1 lost session, fairness | one owner per address, valid scans, no deadlock, every command answers? | holds, 72 k |
| `migrate` | MCMigrate: 2 runners, 3 builds (old, new, edited), a reader, fairness | do schema and history agree, and do runs end? | holds, 6 k |
| `upgrade` | MCUpgrade: 1 runner, 2 builds, 2 requests, 1 connection, 2 statements a page, 1 commit, fairness | are pages consistent, and do scrapes, shutdown and migrations let each other end? | holds, 342 k |
| `converged_declaration` | MCExecution: CPUs redeclared, 1 crash | wiki: converged only when state agrees | violated |
| `apply_destroys` | MCExecution: 1 crash | README: storage needs `--destroy-storage` | violated |
| `apply_after_delete` | MCExecution: no fault, fairness | README: apply executes typed steps | violated |
| `delete_repeated` | MCExecution: 1 crash, fairness | README: crash-resumable delete | violated |
| `released_address` | MCAllocation: 2 resources, one pool of 2 | STATE.md: exhaustion is a typed blocked condition | violated |

Why the bounds are enough to be interesting. *Execution*: commands are typed
without limit, so every order of apply, reconcile and delete occurs; the lock
involves at most one holder and one contender; an operation is determined by
generation, action and allocation, so two generations and two identities give a
stale one and a fresh one of each; two faults cover a fault and one during the
recovery from it. `MaxGeneration` is the only bound on data, and a new
declaration beyond it is refused; `MaxFaults` bounds all faults of a run
together. *Drivers*: operations follow each other without limit, the two
manifests differ in disk and power, two faults are an interruption and one in
the retry, two disturbances meet each other; identities do not interact in one
guest's calls, so one is enough. *Allocation*: a cycle of waits needs two
transactions; the shared address and MAC give a scan that skips, one that
chooses what another pool has, and an exhausted one. *Migrate*: two runners and
an edited build give every pair of old, newer and disagreeing content; the
longest chain is two migrations. *Upgrade*: one connection for two requests is
the smallest pool that can be exhausted, two statements the least that can
disagree. Migration 1 stands for all that the exporter's release embeds (its
first statement names columns of 0002_v2_execution.sql) and 2 for the one of the
next release, which alters the tables: `Required = {1}` and `Altering = {2}`, so
that statements fail on the empty schema, a migration waits for a scrape between
its statements, and a scrape waits for a migration that is not yet committed. No run turns deadlock checking off: every system can always go on.
Symmetry, over the processes, is used in `contention` only, which checks no
liveness.

The counterexamples, briefly (PROJECT.json quotes the sentence each refutes):
observation does not compare CPUs, memory or seed, and a reconcile converges a
declaration no apply brought to the host (`converged_declaration`); a command
that finds its idempotency key keeps the old `created_at`, so it executes some
other, newer operation (`apply_destroys`); a deleted guest re-applied with the
same manifest and address has the key of its first life
(`apply_after_delete`); `ensure-stopped` refuses a guest that does not exist
(`delete_repeated`); a scan offers an address that a released row still owns,
and the insert fails on the unique key with another address free
(`released_address`).

Further consequences of the code that have no run of their own. When the lock
session ends, two executors work at once until the first one's drivers return
(docs/STATE.md:52 excludes it); the properties that depend on the lock say so.
A zvol that an interrupted call left without image identity is refused by every
later apply, an exception of `ApplyConverges` and `RetryRepairs`. A satisfied
step is never run again, so what is undone outside while an apply runs is not
restored by applying again: `ApplyConverges` is checked without outside changes.

Fairness, and why the code justifies it:

* Execution, `FairSpec`: weak fairness of `Prepare(p) \/ Run(p)` for each
  process. A running command is scheduled, its external commands end (they run
  under a context with a timeout), and an operator types another command after
  the last returned. Nothing forces a fault, and faults are bounded, so in the
  end every driver call is answered. The liveness properties assume that from
  some time on only one command is typed; their exceptions are named in the
  formulas (no identity in the pool, a blank zvol, a delete prepared earlier; for
  a delete, a guest that cannot be stopped) and the violated runs show that they
  are needed.
* Allocation: strong fairness of a transaction's statements, because PostgreSQL
  serves the waiters of a lock in order; weak fairness of its deadlock detector.
* Migrate: weak fairness of a live runner, strong of the two statements that
  queue (the advisory lock and the ALTER TABLE); readers' transactions end.
* Exporter: weak fairness of the handler and of its query timeout
  (`FailSnapshot`), and of the three ways a shutdown goes on. Nothing makes a
  signal arrive.

## 5. Proofs

Each proof module proves its theorems for every value of the constants, from the
named assumptions on them (`PlannerAssumption`, `HostAssumption`,
`ExecutionAssumption`, `RowAssumption`, `AllocationAssumption`,
`EmbeddedAssumption`, `NoneAssumption`, `RequestsRead`, `ExporterAssumption`, ...),
which type the constants, keep `None` apart from every value and, for migrations,
say that a release has no gap.
TLC evaluates every one of them in a run.

**Execution_proofs**, for any number of processes, identities, manifests and faults.

* `MutualExclusion`: `ExclusiveMutator`. Inductive as `Exclusion`, which adds
  where a process can be.
* `NoLockLeftBehind`: the holder of the lock is a process at work with it
  (`LockIsAlive`), also after lost sessions.
* `TypeCorrect`: `TypeOK`. A type alone is not inductive: `CompleteOperation`
  updates a field of `effective` and `alloc`, and `Inspect` looks up `newest`.
  `Wellformed` adds `RowsTogether` (which rows exist together: a declaration
  implies allocation, effective state and a newest operation) and `Progress`
  (what the label of a process says of its locals). `WellformedStep` takes
  them through each action.
* `IdentityIsKept` and `ReleaseIsArchive`: from `Wellformed`; they need no
  lock, so lost sessions are included.
* `NewestIsExecuted` and `NewestAdvances`: by `Serial`, the conjunction of
  `Wellformed`, `Exclusion`, `Busy` (an operation is held exactly while
  executing) and `ExecutesNewest`. The step: a preparation that would create a
  newer operation holds the lock (`Alone`), so nobody else executes; and
  `losses` only grows (`LossesGrow`), so the antecedent held before.

* `CallsAreDriverCalls`: a call in Execution ends as DriverCall says. The lemmas
  behind it are equivalences, so Execution takes every answer that DriverCall
  allows too, errors as long as the bound on failures is not reached. Drivers
  implements DriverCall, so the commands of the drivers do nothing to a host
  that the proofs about Execution leave out.

**Lifecycle_proofs**, the refinement: `StepsAreInOrder`, `SuccessIsFinal` and
`Implementation` (`Spec => FollowsLifecycle`). The invariant is `Orderly`:
`Serial`, release and archive agree, `Snapshot` (what the executor still has to
do, `todo`, is exactly what is not satisfied in the rows) and `StepsInOrder`.
`Snapshot` is why the executor's stale copy of the steps does no harm; it makes
the next step the first unsatisfied one (`NextStepIsFirst`), so a completed step
is Lifecycle's `Advance` and the completion of the operation its `Finish`. The
refinement has one step per action: preparing (`PreparingRefines`), reading and
faults (`QuietRefines`), running (`RunningRefines`).

**Lifecycle_proofs**, the evidence: `ConvergedIsShown`, `AbsentIsShown`,
`ConvergedIsOnHost`, `ReleasedIsGone` and `OnlyDeleteDestroys`, for any number of
processes, commands, redeclarations, crashes, failed calls and session losses.
What a converged row claims is about a host that was last looked at several
steps and maybe several processes ago, so the invariant (`Evident`) has to carry
it from the driver call to the row:

* `Planned`: what is to be done is in the plan of the operation and, at a claimed
  step, not empty (`TodoInPlan`); the operation an effective row names exists
  (`PlanExists`); an allocation comes with an operation (`Prepared`); a guest
  without a config is off (`OffWithoutConfig`). It needs no lock.
* `Evidence`, while no session was lost. `AnswerHolds`: an answer that is not
  settled yet is true of the host, and of the observation once that is stored.
  `StepsHold`: so is every satisfied step of the newest operation. `SuccessIsWhole`:
  an operation that has succeeded has all its steps. `DeleteHolds`: until it is
  archived, a delete is about the identity that is allocated. What a step shows is
  `Shows`; after a change by somebody else only the absence that ends a delete is
  still claimed (`Delivered`): a change by others (`Drift`) takes things
  away, or starts and stops a guest that is there.
* `ConvergedHasEvidence` and `AbsentHasEvidence` themselves.

The step that is not obvious is a driver call: it must not undo what an earlier
step of the same plan has brought about, whether it answers, fails, or is killed
in the middle. That is a fact about `Host`'s operators (`CallShows`,
`TornKeepsBuilt`: only removing steps take away what building steps have made),
used with the order of the plans (`PlanHas`, `PlanOrder`). Nobody else calls
meanwhile, because of `Exclusion`; a new declaration creates a newest operation
of which no step is satisfied, so it claims nothing. `OnlyDeleteDestroys` needs
no lock: only the storage step of a delete leaves a zvol gone that was there
(`TornKeepsStorage`).

**Allocation_proofs**: `NoAddressShared` and `ScanStaysValid` by `IInv`: types,
what a label says of locals (`WorkOK`), no lock has two holders (`Exclusive`),
which locks a process has at which label (`Guarded`), the unique keys
(`KeysUnique`, over released rows too) and `ChoiceHolds`. `NoDeadlock` gives
the locks an order under which, as long as no session was lost, everyone waits only for
what is above all it holds (`HeldShape`, `WaitOrder`): two transactions of one
resource exclude each other by the execution lock, so the opposite orders
of preparation and completion never meet.

**Migrate_proofs**: `SchemaMatchesRows`, `NoCollision`, `ReportsAreTrue`,
`HistoryIsImmutable`, `LockHasOwner`, by an invariant that adds to the
properties that only the holder of the lock has uncommitted work (`LockedWork`), that its plan is still
what is missing (`PlanIsCurrent`) and that what it executed and what it inserted
differ by the migration it is at (`EffectsLogged`).

**Upgrade_proofs**, for any number of runners, requests, statements of a snapshot
and connections. `ExporterIsReaders` (`UpgradeSpec => Spec`): a step of the exporter
changes of Migrate's state only `readers`, so it is Migrate's `Sessions`, and
`HistoryUnderScrapes` follows from Migrate_proofs. The other way round, a
migration leaves the exporter's state alone, and `ExporterInv` is inductive
whatever is installed or being altered:

* `Snapshot`: a scrape has read nothing before its stamp; what it has read since
  is one state, not older than the stamp. `PageIsOneSnapshot` and `PageIsFresh`
  are what is left of it when all statements are done.
* `Accounted` is `ScrapesAccounted` and the finiteness of what it counts; no
  assumption makes `Request` finite, `CountersAccount` holds because a behaviour
  has served finitely many at any time.
* `Lifetime`: a request comes only while the process serves, nobody is cut off
  before it has exited, and the code 0 is set when nobody is left: `ExitIsClean`.
* `Connected`: a connection is out of the pool exactly while a request of the
  living process is in its transaction. `ConnectionsReturn` states it; it is the
  safety half of `Stops` and `ScrapesLetMigrationsEnd`.

**Host_proofs** has the facts about the host's operators that several modules need:
what a call leaves has its type (`EnsuredType`, `TornType`), a finished call made
again changes nothing (`Idempotent`), a retry from any host in `Torn` repairs
(`TornRepaired`), and which steps' results which calls keep (`Shows`, above).
**DriverCall_proofs**: `InterruptionIsRepaired`, from
`TornRepaired` and the invariant that a running call is in `Torn` (`Underway`).

**Drivers_proofs** proves every property of the run `drivers`, for any manifests
and identities, any number of services from one, and any finite number of faults
and disturbances (`DriversAssumption`).

* `DriversFollowCall` (`Spec => FollowsCall`), by `Inv`: types; `Sound` (a zvol
  is in its dataset, and carries the image identity only when it holds the image);
  and `Underway`. The last says which commands a call has (`Commands`), from which
  hosts a command can begin (`Reach`: a set, because a command can be reached on
  several ways) and what the driver knows there from the commands before
  (`Knows`: the zvol is new, the config was there). It is needed because the
  refinement holds only of hosts that the call itself can have left: `Reach` is
  part of `Torn`, so an interruption is one of DriverCall's, and what a last
  command makes of a host in `Reach` is `Ensured`, so a return is its `Return`.
  One lemma per driver (`ImageKeeps`, `StorageKeeps`, ...) proves the invariant
  and the abstract step together; `StepKeeps` puts them together.
* `DriversRepair`: each step of a call leaves a host in `Torn` (`CallLeaves`), so
  `TornRepaired` applies. `StampTrusted`: a part of
  `Inv`.
* `DoneDelivers`: `DoneHolds` is about files and services the abstract host does
  not show; `Progress` says what the commands so far have done of those (the
  services before the `nth` are up, the seed is there when it is marked).
* `WholeDisksStart` and `DriversTyped`: by `OnPlan`, which relates the place in the
  plan to the disk: past its storage step, an apply has no disk written in part,
  whatever others did; `StorageBeforePower` says that in every plan the storage step is
  before the power step.

Only model-checked: liveness (`ApplyConverges`, `DeleteArchives`, `Answered`,
`EveryRunEnds`, `Stops`, `ScrapesLetMigrationsEnd`), which is beyond the prover, as
is anything with ENABLED. The proofs have the safety half of most of it:
`NoLockLeftBehind`, `NoDeadlock`, `LockHasOwner`, `ConnectionsReturn`. Every
invariant and action property of the passing runs is a theorem.

## 6. Assumptions and what is not modelled

Taken of the world outside the repository: `vm stop` returns when the guest is
off (system.go:390 does not read it back); PostgreSQL's locks, unique keys,
isolation levels and rollback are as documented; the end of a process ends its
sessions.

Abstracted in modelled parts: the text of command output (power and PF rules are
substring searches, so a guest whose name contains "running" or an address that
is a prefix of another is misread; a hazard listed without a property); several
images (one is modelled); an empty or malformed service list; the several
`unavailable` parts of an observation; the exporter's page text and its
last-success timestamp, which two scrapes may store out of order.

Not modelled: parsing and validation of site and manifest files, `doctor`,
command dispatch, output and read-only state commands, the step list of plan
previews, dashboards, collector configuration, rc scripts and JSON schemas. They
keep no state or are no behaviour of the control plane. `ListResources` only
reads, and `PrepareApply` has no caller in the CLI.
