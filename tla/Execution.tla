------------------------------- MODULE Execution -------------------------------
(***************************************************************************)
(* One managed VM resource and the cpctl processes that mutate it: the     *)
(* preparation transactions of internal/state/postgres, the journal of     *)
(* operations and steps, the execution lock, and the step loop of          *)
(* internal/execution.Executor against the typed drivers of module Host.   *)
(*                                                                         *)
(* Every process runs one command at a time: apply, reconcile or delete.   *)
(* A statement of the journal, a transaction from its first statement to   *)
(* COMMIT, and a driver call are each one step; processes interleave       *)
(* between them.  BEGIN is a step of its own because it fixes the          *)
(* transaction timestamp that becomes an operation's created_at.           *)
(***************************************************************************)
EXTENDS Host, FiniteSets

CONSTANTS
    Proc,                \* cpctl processes
    Commands,            \* what operators may type: [action, manifest]
    MaxCrashes,          \* bound: processes that stop without another write
    MaxSessionLosses,    \* bound: lock sessions lost under a live executor
    MaxDrifts,           \* bound: changes of the host by anyone else
    MaxFailures,         \* bound: driver or observation-persisting errors
    MaxFaults            \* bound: all of these together

ASSUME ExecutionAssumption ==
    /\ Commands \subseteq [action : Action, manifest : Manifests \cup {None}]
    /\ \A c \in Commands : (c.action = "apply") = (c.manifest \in Manifests)
    /\ None \notin Proc /\ None \notin Commands
    /\ {MaxCrashes, MaxSessionLosses, MaxDrifts, MaxFailures, MaxFaults} \subseteq Nat

VARIABLES
    (* the bkcp schema, rows of this resource *)
    declared,      \* vm_specs: the manifest of generation i is declared[i]
    archived,      \* resources.archived_at is set
    alloc,         \* vm_allocations row, or None
    effective,     \* vm_effective: state and current_plan_digest, or None
    operations,    \* operations: status of each operation created
    steps,         \* operation_steps: statuses in sequence order
    newest,        \* the operation with the greatest created_at
    observation,   \* the latest vm_observations row
    lock,          \* holder of the execution advisory lock, or None
    older,         \* open transactions that began before p's
    overtaken,     \* open transactions that began before newest's creator
    (* the host *)
    host,
    (* the processes *)
    pc,            \* where the command is
    cmd,           \* the command line
    kind,          \* the transaction being prepared
    current,       \* the operation being executed
    todo,          \* steps of its snapshot not yet satisfied
    result,        \* what the driver returned
    reply,         \* what a command that ended in the last step exited with
    (* faults so far *)
    crashes, losses, drifts, failures

journal   == <<operations, steps, newest>>
resource  == <<declared, archived, alloc, effective>>
txOrder   == <<older, overtaken>>
work      == <<current, todo, result>>
faults    == <<crashes, losses, drifts, failures>>
vars == <<journal, resource, observation, lock, txOrder, host,
          pc, cmd, kind, work, reply, faults>>

(***************************************************************************)
(* Value sets.                                                             *)
(***************************************************************************)
OperationStatus == {"pending", "running", "succeeded", "failed", "blocked"}
StepStatus      == {"pending", "running", "succeeded", "failed", "skipped"}
EffectiveState  == {"pending", "applying", "converged", "deleting", "absent"}
Verdict         == {"match", "mismatch", "unavailable"}
Exit            == {"ok", "not_found", "blocked", "drift", "partial"}
Outcome         == {"done", "skipped", "blocked", "drift", "failed"}

AllocationRow == [identity : Identities, since : Generation, released : BOOLEAN]
EffectiveRow  == [state : EffectiveState, plan : Operation]
Observation   == [op : Operation, verdict : Verdict]
Reply         == [command : Commands, exit : Exit, effective : EffectiveState \cup {None}]

ASSUME RowAssumption == None \notin AllocationRow \cup EffectiveRow

Preparing == {"begun", "preparing"}
Executing == {"inspect", "snapshot", "start", "step", "ensure", "record", "settle", "report"}
Label == {"idle", "again", "run", "locking"} \cup Preparing \cup Executing

ResourceType ==
    /\ declared \in Seq(Manifests) /\ Len(declared) <= MaxGeneration
    /\ archived \in BOOLEAN
    /\ alloc \in AllocationRow \cup {None}
    /\ effective \in EffectiveRow \cup {None}

JournalType ==
    /\ DOMAIN operations \subseteq Operation
    /\ operations \in [DOMAIN operations -> OperationStatus]
    /\ DOMAIN steps = DOMAIN operations
    /\ steps = [o \in DOMAIN steps |-> steps[o]]
    /\ \A o \in DOMAIN operations : steps[o] \in [DOMAIN Plan(o.action) -> StepStatus]
    /\ newest \in DOMAIN operations \cup {None}
    /\ observation \in Observation \cup {None}

LockType ==
    /\ lock \in Proc \cup {None}
    /\ older \in [Proc -> SUBSET Proc]
    /\ overtaken \subseteq Proc

ProcessType ==
    /\ pc \in [Proc -> Label]
    /\ cmd \in [Proc -> Commands \cup {None}]
    /\ kind \in [Proc -> Action \cup {None}]
    /\ current \in [Proc -> Operation \cup {None}]
    /\ todo \in [Proc -> SUBSET Nat]
    /\ result \in [Proc -> Outcome \cup {None}]
    /\ reply \in Reply \cup {None}

FaultType == {crashes, losses, drifts, failures} \subseteq Nat

(* Every variable has its type: rows, statuses and labels are those of the *)
(* schema and of the commands.                                             *)
TypeOK ==
    ResourceType /\ JournalType /\ LockType /\ ProcessType /\ FaultType /\ host \in HostState

Init ==
    /\ declared = <<>> /\ archived = FALSE /\ alloc = None /\ effective = None
    /\ operations = <<>> /\ steps = <<>> /\ newest = None /\ observation = None
    /\ lock = None
    /\ older = [p \in Proc |-> {}] /\ overtaken = {}
    /\ host = EmptyHost
    /\ pc = [p \in Proc |-> "idle"]
    /\ cmd = [p \in Proc |-> None] /\ kind = [p \in Proc |-> None]
    /\ current = [p \in Proc |-> None] /\ todo = [p \in Proc |-> {}]
    /\ result = [p \in Proc |-> None] /\ reply = None
    /\ crashes = 0 /\ losses = 0 /\ drifts = 0 /\ failures = 0
--------------------------------------------------------------------------------
(***************************************************************************)
(* Control of one process.                                                 *)
(***************************************************************************)
FaultsLeft == crashes + losses + drifts + failures < MaxFaults

Goto(p, label) == pc' = [pc EXCEPT ![p] = label]

FreeAnyLock(p) == lock' = None   \* a mutant of Unlock: frees another process's lock

(* defer unlock(), or the rollback that frees a transaction's own lock.    *)
(* A process whose session was lost holds nothing and frees nothing.       *)
Unlock(p) == lock' = IF lock = p THEN None ELSE lock

Forget(p) ==
    /\ cmd' = [cmd EXCEPT ![p] = None]
    /\ kind' = [kind EXCEPT ![p] = None]
    /\ current' = [current EXCEPT ![p] = None]
    /\ todo' = [todo EXCEPT ![p] = {}]
    /\ result' = [result EXCEPT ![p] = None]

Return(p, exit, shown) ==
    /\ Goto(p, "idle")
    /\ Forget(p)
    /\ Unlock(p)
    /\ reply' = [command |-> cmd[p], exit |-> exit, effective |-> shown]

(* Every step that ends no command.                                        *)
Silent == reply' = None

CloseTx(p) ==
    /\ older' = [q \in Proc |-> IF q = p THEN {} ELSE older[q] \ {p}]
    /\ overtaken' = overtaken \ {p}
--------------------------------------------------------------------------------
(***************************************************************************)
(* Preparation transactions.                                               *)
(***************************************************************************)
OpenTx == {q \in Proc : pc[q] \in Preparing}

(* BEGIN: a command starts its first transaction, or an apply that found   *)
(* its operation succeeded starts the reconcile transaction.               *)
BeginTx(p) ==
    /\ \/ /\ pc[p] = "idle"
          /\ \E c \in Commands :
                /\ cmd' = [cmd EXCEPT ![p] = c]
                /\ kind' = [kind EXCEPT ![p] = c.action]
       \/ /\ pc[p] = "again"
          /\ kind' = [kind EXCEPT ![p] = "reconcile"]
          /\ UNCHANGED cmd
    /\ Goto(p, "begun")
    /\ older' = [older EXCEPT ![p] = OpenTx]
    /\ overtaken' = overtaken \ {p}
    /\ Silent
    /\ UNCHANGED <<journal, resource, observation, lock, host, work, faults>>

LockNothing(p) ==   \* a mutant of LockPreparation: only the preparation's own lock
    /\ pc[p] = "begun"
    /\ Goto(p, "preparing")
    /\ Silent
    /\ UNCHANGED <<cmd, kind, work, txOrder, lock, journal, resource, observation, host, faults>>

(* pg_try_advisory_xact_lock: never waits.                                 *)
LockPreparation(p) ==
    /\ pc[p] = "begun"
    /\ \/ /\ lock = None
          /\ lock' = p
          /\ Goto(p, "preparing")
          /\ Silent
          /\ UNCHANGED <<cmd, kind, work, txOrder>>
       \/ /\ lock # None
          /\ Return(p, "blocked", None)
          /\ CloseTx(p)
    /\ UNCHANGED <<journal, resource, observation, host, faults>>

HeaderOnly(p, o, statuses, stepRows) ==   \* a mutant of Persist: no step rows
    LET created == o \notin DOMAIN operations
    IN  /\ operations' = IF created
                         THEN [k \in DOMAIN operations \cup {o} |->
                                  IF k = o THEN "pending" ELSE operations[k]]
                         ELSE statuses
        /\ newest' = IF created THEN o ELSE newest
        /\ UNCHANGED steps
        /\ overtaken' = overtaken \ {p}
        /\ older' = [q \in Proc |-> IF q = p THEN {} ELSE older[q] \ {p}]

(* INSERT ... ON CONFLICT (idempotency_key) DO NOTHING.  created_at is the *)
(* transaction timestamp, so a new row is the newest one unless p's BEGIN  *)
(* precedes that of the transaction that created the newest.               *)
Persist(p, o, statuses, stepRows) ==
    LET created == o \notin DOMAIN operations
        leads   == created /\ p \notin overtaken
    IN  /\ operations' = IF created
                         THEN [k \in DOMAIN operations \cup {o} |->
                                  IF k = o THEN "pending" ELSE operations[k]]
                         ELSE statuses
        /\ steps' = IF created
                    THEN [k \in DOMAIN steps \cup {o} |->
                             IF k = o THEN [i \in DOMAIN Plan(o.action) |-> "pending"] ELSE steps[k]]
                    ELSE stepRows
        /\ newest' = IF leads THEN o ELSE newest
        /\ overtaken' = (IF leads THEN overtaken \cup older[p] ELSE overtaken) \ {p}
        /\ older' = [q \in Proc |-> IF q = p THEN {} ELSE older[q] \ {p}]

(* ON CONFLICT DO NOTHING: the statuses when the operation exists already. *)
RequeueOnConflict(o) ==   \* a mutant of OnConflict
    IF o \in DOMAIN operations THEN [operations EXCEPT ![o] = "pending"] ELSE operations

OnConflict(o) == operations

KeepConverged(state, o) ==   \* a mutant of MarkEffective
    effective' = [state |-> IF effective # None /\ effective.state = "converged"
                            THEN "converged" ELSE state, plan |-> o]

MarkEffective(state, o) == effective' = [state |-> state, plan |-> o]

Allocated == alloc # None /\ ~alloc.released
Identity(row) == [identity |-> row.identity, since |-> row.since]

(* prepareDeclaration: an unchanged digest keeps the generation.           *)
NextGeneration(m) ==
    IF declared # <<>> /\ declared[Len(declared)] = m THEN Len(declared) ELSE Len(declared) + 1

AlwaysScan(generation, row) ==   \* a mutant of EnsureAllocation: never reuses
    \E i \in Identities : row = [identity |-> i, since |-> generation, released |-> FALSE]

StayArchived(g, m) ==   \* a mutant of Declare: a deleted resource is not revived
    /\ declared' = IF g > Len(declared) THEN Append(declared, m) ELSE declared
    /\ UNCHANGED archived

Declare(g, m) ==
    /\ declared' = IF g > Len(declared) THEN Append(declared, m) ELSE declared
    /\ archived' = FALSE

(* ensureAllocation: an active allocation is reused; otherwise the IPAM    *)
(* scan, whose outcome depends on other resources, picks an identity.      *)
EnsureAllocation(generation, row) ==
    IF Allocated THEN row = alloc
    ELSE \E i \in Identities : row = [identity |-> i, since |-> generation, released |-> FALSE]

PrepareExecutableApply(p) ==
    /\ pc[p] = "preparing" /\ kind[p] = "apply"
    /\ LET m == cmd[p].manifest
           g == NextGeneration(m)
       IN  /\ g <= MaxGeneration
           /\ \E row \in AllocationRow :
                /\ EnsureAllocation(g, row)
                /\ LET o == BuildExecutable("apply", g, Identity(row))
                       stays == /\ effective # None
                                /\ effective.state = "converged" /\ effective.plan = o
                   IN  /\ Persist(p, o, OnConflict(o), steps)
                       /\ alloc' = row
                       /\ MarkEffective(IF stays THEN "converged" ELSE "pending", o)
                       /\ IF o \in DOMAIN operations /\ operations[o] = "succeeded"
                          THEN Goto(p, "again") ELSE Goto(p, "run")
           /\ Declare(g, m)
    /\ Unlock(p)
    /\ Silent
    /\ UNCHANGED <<observation, host, cmd, kind, work, faults>>

(* The pool is exhausted or its row conflicts; or the bound on generations *)
(* is met, in which case the model lets the command give up as well.       *)
RefuseApply(p) ==
    /\ pc[p] = "preparing" /\ kind[p] = "apply"
    /\ ~Allocated \/ NextGeneration(cmd[p].manifest) > MaxGeneration
    /\ Return(p, "blocked", None)
    /\ CloseTx(p)
    /\ UNCHANGED <<journal, resource, observation, host, faults>>

Present == declared # <<>> /\ ~archived

PrepareExecutableDelete(p) ==
    /\ pc[p] = "preparing" /\ kind[p] = "delete"
    /\ Present
    /\ LET o == BuildExecutable("delete", Len(declared), Identity(alloc))
       IN  /\ Persist(p, o, OnConflict(o), steps)
           /\ MarkEffective("deleting", o)
    /\ Goto(p, "run")
    /\ Unlock(p)
    /\ Silent
    /\ UNCHANGED <<declared, archived, alloc, observation, host, cmd, kind, work, faults>>

(* A reconcile operation that exists already is reset with all its steps.  *)
PrepareExecutableReconcile(p) ==
    /\ pc[p] = "preparing" /\ kind[p] = "reconcile"
    /\ Present
    /\ LET o == BuildExecutable("reconcile", Len(declared), Identity(alloc))
           reset == IF o \in DOMAIN operations /\ operations[o] # "running"
                    THEN [operations EXCEPT ![o] = "pending"] ELSE operations
           rows  == IF o \in DOMAIN operations
                    THEN [steps EXCEPT ![o] = [i \in DOMAIN @ |-> "pending"]] ELSE steps
       IN  /\ Persist(p, o, reset, rows)
           /\ MarkEffective("applying", o)
    /\ Goto(p, "run")
    /\ Unlock(p)
    /\ Silent
    /\ UNCHANGED <<declared, archived, alloc, observation, host, cmd, kind, work, faults>>

(* Delete and reconcile find no row that is not archived.                  *)
PrepareNotFound(p) ==
    /\ pc[p] = "preparing" /\ kind[p] \in {"delete", "reconcile"}
    /\ ~Present
    /\ Return(p, "not_found", None)
    /\ CloseTx(p)
    /\ UNCHANGED <<journal, resource, observation, host, faults>>
--------------------------------------------------------------------------------
(***************************************************************************)
(* Executor.Run.                                                           *)
(***************************************************************************)

(* The inspection before the lock only decides not-found.                  *)
InspectBefore(p) ==
    /\ pc[p] = "run"
    /\ IF archived THEN Return(p, "not_found", None)
       ELSE /\ Goto(p, "locking")
            /\ Silent
            /\ UNCHANGED <<lock, cmd, kind, work>>
    /\ UNCHANGED <<journal, resource, observation, txOrder, host, faults>>

RunUnlocked(p) ==   \* a mutant of LockExecution: the lock is never taken
    /\ pc[p] = "locking"
    /\ Goto(p, "inspect")
    /\ Silent
    /\ UNCHANGED <<cmd, kind, work, lock, journal, resource, observation, txOrder, host, faults>>

(* pg_try_advisory_lock on a dedicated session: never waits.               *)
LockExecution(p) ==
    /\ pc[p] = "locking"
    /\ \/ /\ lock = None
          /\ lock' = p
          /\ Goto(p, "inspect")
          /\ Silent
          /\ UNCHANGED <<cmd, kind, work>>
       \/ /\ lock # None
          /\ Return(p, "blocked", None)
    /\ UNCHANGED <<journal, resource, observation, txOrder, host, faults>>

(* The operation executed is the newest one of the resource, whichever     *)
(* command prepared it.                                                    *)
Inspect(p) ==
    /\ pc[p] = "inspect"
    /\ \/ /\ archived
          /\ Return(p, "not_found", None)
       \/ /\ ~archived /\ operations[newest] = "succeeded"
          /\ Return(p, "ok", effective.state)
       \/ /\ ~archived /\ operations[newest] # "succeeded"
          /\ current' = [current EXCEPT ![p] = newest]
          /\ Goto(p, "snapshot")
          /\ Silent
          /\ UNCHANGED <<lock, cmd, kind, todo, result>>
    /\ UNCHANGED <<journal, resource, observation, txOrder, host, faults>>

Satisfied(status) == status \in {"succeeded", "skipped"}

(* The steps a run has to satisfy: all but the satisfied ones.             *)
OnlyPending(o) == {i \in DOMAIN steps[o] : steps[o][i] = "pending"}   \* a mutant
Unsatisfied(o) == {i \in DOMAIN steps[o] : ~Satisfied(steps[o][i])}

ExecutionSteps(p) ==
    /\ pc[p] = "snapshot"
    /\ todo' = [todo EXCEPT ![p] = Unsatisfied(current[p])]
    /\ Goto(p, "start")
    /\ Silent
    /\ UNCHANGED <<journal, resource, observation, lock, txOrder, host, cmd, kind, current, result, faults>>

(* A succeeded operation is left alone and the run continues.              *)
StartOperation(p) ==
    /\ pc[p] = "start"
    /\ operations' = IF operations[current[p]] # "succeeded"
                     THEN [operations EXCEPT ![current[p]] = "running"] ELSE operations
    /\ Goto(p, "step")
    /\ Silent
    /\ UNCHANGED <<steps, newest, resource, observation, lock, txOrder, host, cmd, kind, work, faults>>

NextStep(p) == CHOOSE i \in todo[p] : \A j \in todo[p] : i <= j
StepName(p) == Plan(current[p].action)[NextStep(p)]
TargetOf(o) == [manifest |-> declared[o.generation], identity |-> o.allocation.identity]

NeverRunning(status) == status \in {"pending", "failed"}   \* a mutant of Claimable
Claimable(status) == status \in {"pending", "failed", "running"}

(* A step another executor has satisfied since the snapshot is not         *)
(* claimable: no row, and the run ends with that error.                    *)
ClaimStep(p) ==
    /\ pc[p] = "step" /\ todo[p] # {}
    /\ IF ~Claimable(steps[current[p]][NextStep(p)])
       THEN /\ Return(p, "partial", None)
            /\ UNCHANGED steps
       ELSE /\ steps' = [steps EXCEPT ![current[p]][NextStep(p)] = "running"]
            /\ Goto(p, "ensure")
            /\ Silent
            /\ UNCHANGED <<lock, cmd, kind, work>>
    /\ UNCHANGED <<operations, newest, resource, observation, txOrder, host, faults>>

Answer(p, outcome, h) ==
    /\ result' = [result EXCEPT ![p] = outcome]
    /\ host' = h
    /\ Goto(p, IF StepName(p) \in ObserverStep THEN "record" ELSE "settle")
    /\ Silent
    /\ UNCHANGED <<journal, resource, observation, lock, txOrder, cmd, kind, current, todo>>

(* Driver.Ensure with every command of it answering.                       *)
Ensure(p) ==
    /\ pc[p] = "ensure"
    /\ LET step == StepName(p)
           t == TargetOf(current[p])
       IN  \/ /\ Blocked(step, t, host)
              /\ Answer(p, "blocked", host)
           \/ /\ MarkerMissing(step, t, host)
              /\ \E outcome \in {"failed", "blocked"} : Answer(p, outcome, HalfStored(t, host))
           \/ /\ Drifted(step, t, host)
              /\ Answer(p, "drift", host)
           \/ /\ ~Blocked(step, t, host) /\ ~MarkerMissing(step, t, host) /\ ~Drifted(step, t, host)
              /\ Answer(p, IF Skips(step) THEN "skipped" ELSE "done", Ensured(step, t, host))
    /\ UNCHANGED faults

(* Driver.Ensure when a command, file or request of it errs, or when a     *)
(* command answers without having had its effect.                          *)
EnsureFails(p) ==
    /\ pc[p] = "ensure"
    /\ failures < MaxFailures /\ FaultsLeft
    /\ ~Skips(StepName(p))
    /\ \/ \E h \in Torn(StepName(p), TargetOf(current[p]), host) :
              \/ Answer(p, "failed", h)
              \/ StepName(p) \in ReadsBack /\ Answer(p, "drift", h)
       \/ Refusable(StepName(p), host) /\ Answer(p, "blocked", host)
    /\ failures' = failures + 1
    /\ UNCHANGED <<crashes, losses, drifts>>

VerdictOf(outcome) ==
    CASE outcome = "done"   -> "match"
      [] outcome = "drift"  -> "mismatch"
      [] outcome = "failed" -> "unavailable"

(* The observation is stored before the step is settled, whatever it says. *)
RecordObservation(p) ==
    /\ pc[p] = "record"
    /\ \/ /\ observation' = [op |-> current[p], verdict |-> VerdictOf(result[p])]
          /\ UNCHANGED <<result, faults>>
       \/ /\ failures < MaxFailures /\ FaultsLeft
          /\ failures' = failures + 1
          /\ result' = [result EXCEPT ![p] = "failed"]
          /\ UNCHANGED <<observation, crashes, losses, drifts>>
    /\ Goto(p, "settle")
    /\ Silent
    /\ UNCHANGED <<journal, resource, lock, txOrder, host, cmd, kind, current, todo>>

CompleteStep(p) ==
    /\ pc[p] = "settle" /\ result[p] \in {"done", "skipped"}
    /\ steps' = [steps EXCEPT ![current[p]][NextStep(p)] =
                    IF result[p] = "done" THEN "succeeded" ELSE "skipped"]
    /\ todo' = [todo EXCEPT ![p] = @ \ {NextStep(p)}]
    /\ result' = [result EXCEPT ![p] = None]
    /\ Goto(p, "step")
    /\ Silent
    /\ UNCHANGED <<operations, newest, resource, observation, lock, txOrder, host, cmd, kind, current, faults>>

(* One transaction: the step fails, the operation fails or blocks, and the *)
(* run returns the driver's error.  vm_effective is left as it is.         *)
FailStep(p) ==
    /\ pc[p] = "settle" /\ result[p] \in {"blocked", "drift", "failed"}
    /\ steps' = [steps EXCEPT ![current[p]][NextStep(p)] = "failed"]
    /\ operations' = [operations EXCEPT ![current[p]] =
                         IF result[p] = "blocked" THEN "blocked" ELSE "failed"]
    /\ Return(p, IF result[p] = "failed" THEN "partial" ELSE result[p], None)
    /\ UNCHANGED <<newest, resource, observation, txOrder, host, faults>>

AbsentUnlessApply(action) ==   \* a mutant of FinalState
    IF action = "apply" THEN "converged" ELSE "absent"

FinalState(action) == IF action = "delete" THEN "absent" ELSE "converged"

(* One transaction: the operation succeeds and the resource converges, or  *)
(* is archived with its allocation released.                               *)
CompleteOperation(p) ==
    /\ pc[p] = "step" /\ todo[p] = {}
    /\ operations' = [operations EXCEPT ![current[p]] = "succeeded"]
    /\ LET final == FinalState(current[p].action)
       IN  /\ effective' = [effective EXCEPT !.state = final]
           /\ IF final = "absent"
              THEN alloc' = [alloc EXCEPT !.released = TRUE] /\ archived' = TRUE
              ELSE UNCHANGED <<alloc, archived>>
    /\ Goto(p, "report")
    /\ Silent
    /\ UNCHANGED <<steps, newest, declared, observation, lock, txOrder, host, cmd, kind, work, faults>>

(* A delete reports the inspection it took before; the others inspect      *)
(* again, then the lock is released.                                       *)
Report(p) ==
    /\ pc[p] = "report"
    /\ \/ current[p].action = "delete" /\ Return(p, "ok", "absent")
       \/ current[p].action # "delete" /\ ~archived /\ Return(p, "ok", effective.state)
       \/ current[p].action # "delete" /\ archived  /\ Return(p, "not_found", None)
    /\ UNCHANGED <<journal, resource, observation, txOrder, host, faults>>
--------------------------------------------------------------------------------
(***************************************************************************)
(* Faults.                                                                 *)
(***************************************************************************)

(* What an interrupted driver call leaves; elsewhere nothing is under way. *)
Interrupted(p) ==
    IF pc[p] = "ensure" THEN Torn(StepName(p), TargetOf(current[p]), host) ELSE {host}

(* The process is killed, its --timeout expires, or a statement of its own *)
(* fails: open transactions roll back, PostgreSQL frees its lock, and the  *)
(* journal stays as it was last written.                                   *)
Crash(p) ==
    /\ pc[p] # "idle"
    /\ crashes < MaxCrashes /\ FaultsLeft
    /\ crashes' = crashes + 1
    /\ Goto(p, "idle")
    /\ Forget(p)
    /\ Unlock(p)
    /\ CloseTx(p)
    /\ Silent
    /\ host' \in Interrupted(p)
    /\ UNCHANGED <<journal, resource, observation, losses, drifts, failures>>

(* The dedicated session ends under a live executor, which is not told.    *)
SessionLoss(p) ==
    /\ pc[p] \in Executing /\ lock = p
    /\ losses < MaxSessionLosses /\ FaultsLeft
    /\ losses' = losses + 1
    /\ lock' = None
    /\ Silent
    /\ UNCHANGED <<journal, resource, observation, txOrder, host, pc, cmd, kind, work, crashes, drifts, failures>>

(* Someone else changes the host.                                          *)
Drift ==
    /\ drifts < MaxDrifts /\ FaultsLeft
    /\ drifts' = drifts + 1
    /\ \/ VMExists(host) /\ host' = [host EXCEPT !.running = ~@]
       \/ host.pf # None /\ host' = [host EXCEPT !.pf = None]
       \/ host.kea # {}  /\ host' = [host EXCEPT !.kea = {}]
       \/ host.image     /\ host' = [host EXCEPT !.image = FALSE]
       \/ host.disk # 0  /\ host' = [host EXCEPT !.disk = 0, !.imaged = FALSE]
       \/ VMExists(host) /\ host' = [host EXCEPT !.config = None, !.seed = None, !.running = FALSE]
    /\ Silent
    /\ UNCHANGED <<journal, resource, observation, lock, txOrder, pc, cmd, kind, work, crashes, losses, failures>>
--------------------------------------------------------------------------------
Prepare(p) ==
    \/ BeginTx(p) \/ LockPreparation(p)
    \/ PrepareExecutableApply(p) \/ RefuseApply(p)
    \/ PrepareExecutableDelete(p) \/ PrepareExecutableReconcile(p) \/ PrepareNotFound(p)

Run(p) ==
    \/ InspectBefore(p) \/ LockExecution(p) \/ Inspect(p)
    \/ ExecutionSteps(p) \/ StartOperation(p) \/ ClaimStep(p)
    \/ Ensure(p) \/ EnsureFails(p) \/ RecordObservation(p)
    \/ CompleteStep(p) \/ FailStep(p) \/ CompleteOperation(p) \/ Report(p)

Next ==
    \/ \E p \in Proc : Prepare(p) \/ Run(p) \/ Crash(p) \/ SessionLoss(p)
    \/ Drift

Spec == Init /\ [][Next]_vars
--------------------------------------------------------------------------------
(***************************************************************************)
(* Safety.  A property that relies on the execution lock carries the       *)
(* antecedent losses = 0: no lock session ended under a live executor.     *)
(***************************************************************************)
Holding == Executing \cup {"preparing"}
LockIsSafe == losses = 0

(* Whoever executes an operation or has a preparation transaction past its *)
(* lock holds the execution lock, so no two commands ever work on the      *)
(* resource at once, through crashes, failed steps and returns.            *)
ExclusiveMutator ==
    LockIsSafe => \A p \in Proc : pc[p] \in Holding => lock = p

(* An executor works on the newest operation from its inspection to its    *)
(* last write: no preparation can create a newer one meanwhile.            *)
ExecutesNewest ==
    LockIsSafe => \A p \in Proc :
        current[p] # None =>
            /\ current[p] = newest
            /\ pc[p] # "report" => operations[newest] # "succeeded"

(* Steps are satisfied strictly in sequence order, across retries.         *)
StepsInOrder ==
    LockIsSafe => \A o \in DOMAIN operations : \A i, j \in DOMAIN steps[o] :
        i < j /\ Satisfied(steps[o][j]) => Satisfied(steps[o][i])

AllSatisfied(o) == \A i \in DOMAIN steps[o] : Satisfied(steps[o][i])

(* The resource is converged only if the newest operation succeeded, is    *)
(* not a delete, has every step satisfied, and the last observation was    *)
(* made for that operation and matched.                                    *)
ConvergedHasEvidence ==
    LockIsSafe /\ effective # None /\ effective.state = "converged" =>
        /\ newest # None /\ newest.action # "delete"
        /\ operations[newest] = "succeeded" /\ AllSatisfied(newest)
        /\ observation = [op |-> newest, verdict |-> "match"]

(* An allocation is released, and the resource archived, only by a delete  *)
(* that observed the absence of everything it removed.                     *)
AbsentHasEvidence ==
    LockIsSafe /\ (archived \/ (alloc # None /\ alloc.released)) =>
        /\ archived /\ alloc.released /\ effective.state = "absent"
        /\ newest.action = "delete" /\ operations[newest] = "succeeded"
        /\ observation = [op |-> newest, verdict |-> "match"]

(* While nobody else touches the host, a resource that an apply converged  *)
(* is on the host what its declaration and allocation say, whatever        *)
(* failed, crashed or was declared before.                                 *)
ConvergedApplyMatchesHost ==
    LockIsSafe /\ drifts = 0 /\ effective # None /\ effective.state = "converged"
               /\ newest.action = "apply" =>
        LET t == TargetOf(newest)
        IN  /\ ObservedPresent(t, host)
            /\ host.config = t /\ host.seed = t.manifest
            /\ host.disk = t.manifest.disk /\ host.imaged

(* An allocation is released exactly while the resource is archived, lost  *)
(* lock sessions and late writes of a second executor included.            *)
ReleasedIffArchived == archived <=> alloc # None /\ alloc.released

(* A released identity has no reservation, no rules, no guest and no       *)
(* storage left behind.                                                    *)
ReleasedLeavesNothing ==
    LockIsSafe /\ alloc # None /\ alloc.released =>
        /\ host.config = None /\ ~host.running /\ host.disk = 0 /\ host.seed = None
        /\ alloc.identity \notin host.kea
        /\ ManageAnchor => host.pf = None

(* Only the newest operation makes progress: a step of any other is never  *)
(* claimed, completed or failed again, it can only be reset to pending.    *)
AdvanceNewest ==
    LockIsSafe => \A o \in DOMAIN operations : \A i \in DOMAIN steps[o] :
        steps'[o][i] \notin {steps[o][i], "pending"} => o = newest

(* AdvanceNewest of every step of every behaviour.                         *)
OnlyNewestAdvances == [][AdvanceNewest]_vars

(* Storage is destroyed only by the delete operation.                      *)
StorageDestroyedByDelete ==
    [][host.disk # 0 /\ host'.disk = 0 =>
          \/ drifts' # drifts
          \/ \E p \in Proc : current[p] # None /\ current[p].action = "delete"]_vars

(* A succeeded apply or delete is final: only a reconcile runs again.      *)
SucceededIsFinal ==
    [][LockIsSafe => \A o \in DOMAIN operations :
          operations[o] = "succeeded" /\ o.action # "reconcile" =>
              operations'[o] = "succeeded" /\ steps'[o] = steps[o]]_vars

(* An allocation keeps its identity until it is released, and only the     *)
(* completion of a delete releases it: no retry, redeclaration or second   *)
(* executor moves a guest to another address.                              *)
KeepIdentity ==
    alloc # None /\ ~alloc.released /\ alloc' # alloc =>
        /\ alloc' = [alloc EXCEPT !.released = TRUE]
        /\ \E p \in Proc : current[p] # None /\ current[p].action = "delete" /\ pc'[p] = "report"

(* KeepIdentity of every step of every behaviour, lost sessions included.  *)
IdentityKept == [][KeepIdentity]_vars
--------------------------------------------------------------------------------
(***************************************************************************)
(* The journal, the lock and the processes implement module Lifecycle.     *)
(***************************************************************************)
DoneSteps ==
    IF newest = None THEN {} ELSE {i \in DOMAIN steps[newest] : Satisfied(steps[newest][i])}
Finished == newest # None /\ operations[newest] = "succeeded"
Working  == \E p \in Proc : current[p] # None
Holder   == IF Allocated THEN alloc.identity ELSE None

L == INSTANCE Lifecycle WITH
         exclusive <- LockIsSafe, done <- DoneSteps, finished <- Finished,
         working <- Working, holder <- Holder

(* Seen from outside, whatever is retried, crashes or overlaps: the newest *)
(* operation is carried out by one executor at a time, step after step,    *)
(* finished once and after its last step, never replaced while it is being *)
(* carried out; and one identity is held from an apply to a delete.        *)
FollowsLifecycle == L!Spec
--------------------------------------------------------------------------------
(***************************************************************************)
(* Statements of the documentation about commands and their results.       *)
(***************************************************************************)

(* The resource is marked converged only when authoritative state agrees   *)
(* with its newest declaration: no session was lost, nobody else touched   *)
(* the host, nothing executes.                                             *)
ConvergedMatchesDeclaration ==
    LockIsSafe /\ drifts = 0 /\ effective # None /\ effective.state = "converged" =>
        host.config # None /\ host.config.manifest = declared[Len(declared)]

(* Only a delete command destroys storage.                                 *)
ApplyNeverDestroys ==
    [][host.disk # 0 /\ host'.disk = 0 =>
          \E p \in Proc : cmd[p] # None /\ cmd[p].action = "delete"]_vars
--------------------------------------------------------------------------------
(***************************************************************************)
(* Liveness.  A command that is running is scheduled, every command of its *)
(* drivers answers in the end because faults are bounded, and an operator  *)
(* types another command when the last one returned.                       *)
(***************************************************************************)
FairSpec == Spec /\ \A p \in Proc : WF_vars(Prepare(p) \/ Run(p))

OnlyTyped(action) ==
    <>[](\A p \in Proc : cmd[p] # None => cmd[p].action = action)

Converged == effective # None /\ effective.state = "converged"

(* A zvol created by a call that died before it was imaged.                *)
BlankStorage == host.disk # 0 /\ ~host.imaged

(* A delete was prepared before.  An apply of the same generation and      *)
(* identity then finds its operation and goes on with the newest one.      *)
DeletePrepared == \E o \in DOMAIN operations : o.action = "delete"

(* Whatever failed or crashed on the way, an apply typed again and again   *)
(* converges a resource that nobody meant to delete, unless its pool never *)
(* has an identity for it or a blank zvol was left behind: no lock, status *)
(* or step is left in a state that a retry cannot get out of.              *)
ApplyConverges ==
    OnlyTyped("apply") =>
        []<>Converged \/ <>[](~Allocated \/ BlankStorage) \/ <>DeletePrepared

(* The newest operation is a delete to be run, and it is past stopping the *)
(* guest or vm-bhyve knows the guest.                                      *)
DeletePossible ==
    /\ newest # None /\ newest.action = "delete" /\ operations[newest] # "succeeded"
    /\ VMExists(host) \/ Satisfied(steps[newest][1])

(* A delete typed again and again archives the resource, whatever failed   *)
(* or crashed on the way, if from some time on it is possible.             *)
DeleteArchives ==
    OnlyTyped("delete") => []<>~Present \/ <>[]~DeletePossible

(* The same without the exceptions, as the documentation has it: running   *)
(* apply again resumes or repairs what was left behind and converges.      *)
RepeatedApplyConverges ==
    OnlyTyped("apply") => []<>Converged \/ <>[]~Allocated

(* A delete typed again and again archives the resource in the end: crash- *)
(* resumable delete execution.                                             *)
RepeatedDeleteArchives ==
    OnlyTyped("delete") => []<>~Present
================================================================================
