--------------------------- MODULE Execution_proofs ---------------------------
(***************************************************************************)
(* Theorems of module Execution, for every set of processes, manifests,    *)
(* identities and commands and every bound on faults and generations.      *)
(***************************************************************************)
EXTENDS Execution, Host_proofs, TLAPS

(***************************************************************************)
(* Mutual exclusion.  ExclusiveMutator is inductive once pc is known to be *)
(* a function on Proc: a label of Holding is entered only with lock = None *)
(* and taken by the same step, and Unlock frees the lock of nobody else.   *)
(***************************************************************************)
Exclusion ==
    /\ pc \in [Proc -> Label]
    /\ losses \in Nat
    /\ ExclusiveMutator

(* At first nobody works and nobody holds the lock.                        *)
LEMMA ExclusionInit == Init => Exclusion
BY DEF Init, Exclusion, ExclusiveMutator, LockIsSafe, Label, Holding, Executing, Preparing

(* Every step keeps it: the two actions that start work take a free lock,  *)
(* every action that ends work goes through Return or Crash, and both only *)
(* free a lock of their own.                                               *)
LEMMA ExclusionStep == Exclusion /\ [Next]_vars => Exclusion'
<1> SUFFICES ASSUME Exclusion, [Next]_vars PROVE Exclusion'
  OBVIOUS
<1> None \notin Proc
  BY ExecutionAssumption
<1> USE DEF Exclusion, ExclusiveMutator, LockIsSafe, Label, Holding, Executing, Preparing,
            Goto, Unlock, Return, Answer, faults
<1>1. ASSUME NEW p \in Proc, Prepare(p) PROVE Exclusion'
  <2>1. CASE BeginTx(p) BY <2>1 DEF BeginTx
  <2>2. CASE LockPreparation(p) BY <2>2 DEF LockPreparation
  <2>3. CASE PrepareExecutableApply(p) BY <2>3 DEF PrepareExecutableApply
  <2>4. CASE RefuseApply(p) BY <2>4 DEF RefuseApply
  <2>5. CASE PrepareExecutableDelete(p) BY <2>5 DEF PrepareExecutableDelete
  <2>6. CASE PrepareExecutableReconcile(p) BY <2>6 DEF PrepareExecutableReconcile
  <2>7. CASE PrepareNotFound(p) BY <2>7 DEF PrepareNotFound
  <2> QED BY <1>1, <2>1, <2>2, <2>3, <2>4, <2>5, <2>6, <2>7 DEF Prepare
<1>2. ASSUME NEW p \in Proc, Run(p) PROVE Exclusion'
  <2>1. CASE InspectBefore(p) BY <2>1 DEF InspectBefore
  <2>2. CASE LockExecution(p) BY <2>2 DEF LockExecution
  <2>3. CASE Inspect(p) BY <2>3 DEF Inspect
  <2>4. CASE ExecutionSteps(p) BY <2>4 DEF ExecutionSteps
  <2>5. CASE StartOperation(p) BY <2>5 DEF StartOperation
  <2>6. CASE ClaimStep(p) BY <2>6 DEF ClaimStep
  <2>7. CASE Ensure(p) BY <2>7 DEF Ensure
  <2>8. CASE EnsureFails(p) BY <2>8 DEF EnsureFails
  <2>9. CASE RecordObservation(p) BY <2>9 DEF RecordObservation
  <2>10. CASE CompleteStep(p) BY <2>10 DEF CompleteStep
  <2>11. CASE FailStep(p) BY <2>11 DEF FailStep
  <2>12. CASE CompleteOperation(p) BY <2>12 DEF CompleteOperation
  <2>13. CASE Report(p) BY <2>13 DEF Report
  <2> QED BY <1>2, <2>1, <2>2, <2>3, <2>4, <2>5, <2>6, <2>7, <2>8, <2>9, <2>10, <2>11,
             <2>12, <2>13 DEF Run
<1>3. ASSUME NEW p \in Proc, Crash(p) PROVE Exclusion'
  BY <1>3 DEF Crash
<1>4. ASSUME NEW p \in Proc, SessionLoss(p) PROVE Exclusion'
  BY <1>4 DEF SessionLoss
<1>5. CASE Drift BY <1>5 DEF Drift
<1>6. CASE UNCHANGED vars BY <1>6 DEF vars
<1> QED BY <1>1, <1>2, <1>3, <1>4, <1>5, <1>6 DEF Next

(***************************************************************************)
(* No two commands ever work on the resource at once while no lock session *)
(* is lost, through crashes, failures and returns.                         *)
(***************************************************************************)
THEOREM MutualExclusion == Spec => []ExclusiveMutator
<1>1. Exclusion => ExclusiveMutator BY DEF Exclusion
<1> QED BY ExclusionInit, ExclusionStep, <1>1, PTL DEF Spec

(* The execution lock is held by a process that is at work with it.        *)
LockIsAlive == lock # None => lock \in Proc /\ pc[lock] \in Holding

(* An action that ends a command frees its lock: each uses Return, Unlock   *)
(* or Crash.                                                               *)
LEMMA LockIsAliveStep == Exclusion /\ LockIsAlive /\ [Next]_vars => LockIsAlive'
<1> SUFFICES ASSUME Exclusion, LockIsAlive, [Next]_vars PROVE LockIsAlive'
  OBVIOUS
<1> None \notin Proc
  BY ExecutionAssumption
<1> USE DEF Exclusion, LockIsAlive, Label, Holding, Executing, Preparing, Goto, Unlock
<1>1. ASSUME NEW p \in Proc, NEW exit, NEW shown, Return(p, exit, shown) PROVE LockIsAlive'
  BY <1>1 DEF Return
<1>2. ASSUME NEW p \in Proc, Prepare(p) PROVE LockIsAlive'
  <2>1. CASE BeginTx(p) BY <2>1 DEF BeginTx
  <2>2. CASE LockPreparation(p) BY <2>2 DEF LockPreparation, Return
  <2>3. CASE PrepareExecutableApply(p) BY <2>3 DEF PrepareExecutableApply
  <2>4. CASE RefuseApply(p) BY <1>1, <2>4 DEF RefuseApply
  <2>5. CASE PrepareExecutableDelete(p) BY <2>5 DEF PrepareExecutableDelete
  <2>6. CASE PrepareExecutableReconcile(p) BY <2>6 DEF PrepareExecutableReconcile
  <2>7. CASE PrepareNotFound(p) BY <1>1, <2>7 DEF PrepareNotFound
  <2> QED BY <1>2, <2>1, <2>2, <2>3, <2>4, <2>5, <2>6, <2>7 DEF Prepare
<1>3. ASSUME NEW p \in Proc, Run(p) PROVE LockIsAlive'
  <2>1. CASE InspectBefore(p) BY <1>1, <2>1 DEF InspectBefore
  <2>2. CASE LockExecution(p) BY <1>1, <2>2 DEF LockExecution
  <2>3. CASE Inspect(p) BY <1>1, <2>3 DEF Inspect
  <2>4. CASE ExecutionSteps(p) BY <1>1, <2>4 DEF ExecutionSteps
  <2>5. CASE StartOperation(p) BY <2>5 DEF StartOperation
  <2>6. CASE ClaimStep(p) BY <1>1, <2>6 DEF ClaimStep
  <2>7. CASE Ensure(p) \/ EnsureFails(p) BY <2>7 DEF Ensure, EnsureFails, Answer
  <2>8. CASE RecordObservation(p) BY <2>8 DEF RecordObservation
  <2>9. CASE CompleteStep(p) BY <2>9 DEF CompleteStep
  <2>10. CASE FailStep(p) BY <1>1, <2>10 DEF FailStep
  <2>11. CASE CompleteOperation(p) BY <1>1, <2>11 DEF CompleteOperation
  <2>12. CASE Report(p) BY <1>1, <2>12 DEF Report
  <2> QED BY <1>3, <2>1, <2>2, <2>3, <2>4, <2>5, <2>6, <2>7, <2>8, <2>9, <2>10, <2>11, <2>12
          DEF Run
<1>4. ASSUME NEW p \in Proc, Crash(p) PROVE LockIsAlive'
  BY <1>4 DEF Crash
<1>5. ASSUME NEW p \in Proc, SessionLoss(p) PROVE LockIsAlive'
  BY <1>5 DEF SessionLoss
<1>6. CASE Drift BY <1>6 DEF Drift
<1>7. CASE UNCHANGED vars BY <1>7 DEF vars
<1> QED BY <1>2, <1>3, <1>4, <1>5, <1>6, <1>7 DEF Next

(***************************************************************************)
(* Whoever ends, by a return, an error or a crash, leaves no lock behind:  *)
(* a command that is refused the lock meets one that is still at work,     *)
(* also after sessions were lost.                                          *)
(***************************************************************************)
THEOREM NoLockLeftBehind == Spec => []LockIsAlive
<1>1. Init => LockIsAlive BY DEF Init, LockIsAlive
<1> QED BY ExclusionInit, ExclusionStep, LockIsAliveStep, <1>1, PTL DEF Spec

(***************************************************************************)
(* Type correctness.  A handler may look a row up only because another     *)
(* transaction wrote it before: Wellformed is what the program counters    *)
(* say about the rows, and makes TypeOK inductive.                         *)
(***************************************************************************)

(* The preparation transactions write a declaration, an allocation, an     *)
(* operation and an effective state together.                              *)
RowsTogether ==
    /\ declared # <<>> => alloc # None /\ effective # None
    /\ newest # None => effective # None /\ declared # <<>>
    /\ newest = None => overtaken = {} /\ DOMAIN operations = {}
    /\ \A o \in DOMAIN operations : o.generation \in DOMAIN declared

(* What a process at each label has prepared, read and been answered.      *)
Progress ==
    \A p \in Proc :
        /\ pc[p] # "idle" => cmd[p] # None /\ kind[p] # None
        /\ kind[p] = "apply" => cmd[p].action = "apply" /\ cmd[p] # None
        /\ pc[p] \in {"again", "run", "locking"} \cup Executing => newest # None
        /\ pc[p] \in Executing \ {"inspect"} => current[p] # None
        /\ current[p] # None => current[p] \in DOMAIN operations
        /\ pc[p] = "record" => result[p] \in {"done", "drift", "failed"}

Wellformed == TypeOK /\ RowsTogether /\ Progress

(* The sequence numbers of a plan are naturals.                            *)
LEMMA PlanDomain == \A a \in Action : DOMAIN Plan(a) \subseteq Nat
<1>1. DOMAIN ResourceSteps = 1..9 /\ DOMAIN DeleteSteps = 1..7 /\ DOMAIN ReconcileSteps = 1..1
  BY DEF ResourceSteps, DeleteSteps, ReconcileSteps
<1>2. DOMAIN (<<"service/ensure-ready">> \o ResourceSteps) = 1..10
  BY DEF ResourceSteps
<1>3. DOMAIN ApplySteps \subseteq Nat
  BY <1>1, <1>2 DEF ApplySteps
<1> QED BY <1>1, <1>3 DEF Plan, Action

(* The empty schema, the empty host and idle processes are well-formed.    *)
LEMMA WellformedInit == Init => Wellformed
<1> SUFFICES ASSUME Init PROVE Wellformed
  OBVIOUS
<1>1. ResourceType
  <2>1. <<>> \in Seq(Manifests) /\ Len(<<>>) <= MaxGeneration
    BY PlannerAssumption
  <2> QED BY <2>1 DEF Init, ResourceType
<1>2. JournalType BY DEF Init, JournalType
<1>3. LockType BY DEF Init, LockType
<1>4. ProcessType BY DEF Init, ProcessType, Label
<1>5. FaultType BY DEF Init, FaultType
<1>6. host \in HostState BY DEF Init, HostState, EmptyHost
<1>7. RowsTogether BY DEF Init, RowsTogether
<1>8. Progress BY HostAssumption DEF Init, Progress, Executing, Action
<1> QED BY <1>1, <1>2, <1>3, <1>4, <1>5, <1>6, <1>7, <1>8 DEF Wellformed, TypeOK

(* A command that returns leaves every process well-formed.                *)
LEMMA ReturnKeeps ==
    ASSUME Wellformed, NEW p \in Proc, pc[p] # "idle",
           NEW exit \in Exit, NEW shown \in EffectiveState \cup {None},
           Return(p, exit, shown),
           DOMAIN operations' = DOMAIN operations, newest' = newest
    PROVE  ProcessType' /\ Progress' /\ lock' \in Proc \cup {None}
<1> USE DEF Wellformed, TypeOK, Return, Goto, Forget, Unlock
<1>1. cmd[p] \in Commands
  BY DEF ProcessType, Progress
<1>2. reply' \in Reply
  BY <1>1 DEF Reply
<1>3. ProcessType'
  BY <1>2 DEF ProcessType, Label
<1>4. Progress'
  BY HostAssumption DEF Progress, ProcessType, Executing, Action
<1>5. lock' \in Proc \cup {None}
  BY DEF LockType
<1> QED BY <1>3, <1>4, <1>5

(* Closing a transaction.                                                  *)
LEMMA CloseTxKeeps ==
    ASSUME Wellformed, NEW p \in Proc, CloseTx(p)
    PROVE  /\ older' \in [Proc -> SUBSET Proc] /\ overtaken' \subseteq Proc
           /\ overtaken = {} => overtaken' = {}
BY DEF Wellformed, TypeOK, LockType, CloseTx

(* Persisting an operation keeps the journal typed and gives the resource  *)
(* a newest operation.                                                     *)
LEMMA PersistKeeps ==
    ASSUME Wellformed, NEW p \in Proc, NEW o \in Operation, NEW statuses, NEW rows,
           statuses \in [DOMAIN operations -> OperationStatus],
           rows = [k \in DOMAIN operations |-> rows[k]],
           \A k \in DOMAIN operations : rows[k] \in [DOMAIN Plan(k.action) -> StepStatus],
           Persist(p, o, statuses, rows)
    PROVE  /\ DOMAIN operations' = DOMAIN operations \cup {o}
           /\ operations' \in [DOMAIN operations' -> OperationStatus]
           /\ DOMAIN steps' = DOMAIN operations'
           /\ steps' = [k \in DOMAIN steps' |-> steps'[k]]
           /\ \A k \in DOMAIN operations' : steps'[k] \in [DOMAIN Plan(k.action) -> StepStatus]
           /\ newest' \in DOMAIN operations' /\ newest' # None
           /\ older' \in [Proc -> SUBSET Proc] /\ overtaken' \subseteq Proc
<1> USE DEF Wellformed, TypeOK, JournalType, LockType
<1>1. CASE o \in DOMAIN operations
  <2>1. operations' = statuses /\ steps' = rows /\ newest' = newest
    BY <1>1 DEF Persist
  <2>2. newest # None
    BY <1>1 DEF RowsTogether
  <2>3. older' \in [Proc -> SUBSET Proc] /\ overtaken' \subseteq Proc
    BY <1>1 DEF Persist
  <2> QED BY <1>1, <2>1, <2>2, <2>3
<1>2. CASE o \notin DOMAIN operations
  <2>1. operations' = [k \in DOMAIN operations \cup {o} |->
                          IF k = o THEN "pending" ELSE operations[k]]
    BY <1>2 DEF Persist
  <2>2. steps' = [k \in DOMAIN steps \cup {o} |->
                     IF k = o THEN [i \in DOMAIN Plan(o.action) |-> "pending"] ELSE steps[k]]
    BY <1>2 DEF Persist
  <2>3. newest' \in DOMAIN operations'
    BY <1>2, <2>1 DEF Persist, RowsTogether
  <2>4. newest' # None
    BY <1>2, <2>3, HostAssumption, <2>1
  <2>5. older' \in [Proc -> SUBSET Proc] /\ overtaken' \subseteq Proc
    BY <1>2 DEF Persist
  <2>6. operations' \in [DOMAIN operations' -> OperationStatus]
    BY <2>1 DEF OperationStatus
  <2>7. \A k \in DOMAIN operations' : steps'[k] \in [DOMAIN Plan(k.action) -> StepStatus]
    BY <2>1, <2>2 DEF StepStatus
  <2> QED BY <2>1, <2>2, <2>3, <2>4, <2>5, <2>6, <2>7
<1> QED BY <1>1, <1>2

(* The preparation transactions, action by action.                         *)
LEMMA PrepareKeeps ==
    ASSUME Wellformed, NEW p \in Proc, Prepare(p)
    PROVE  Wellformed'
<1> USE DEF Wellformed, TypeOK
<1>1. CASE BeginTx(p)
  <2> USE <1>1 DEF BeginTx, Goto, Silent
  <2>1. ResourceType' /\ JournalType' /\ FaultType' /\ (host \in HostState)' /\ RowsTogether'
    <3>1. overtaken = {} => overtaken' = {} BY DEF LockType
    <3> QED BY <3>1 DEF ResourceType, JournalType, FaultType, RowsTogether,
                        resource, journal, faults
  <2>2. LockType'
    BY DEF LockType, OpenTx
  <2>3. ProcessType' /\ Progress'
    <3>1. CASE pc[p] = "idle"
      <4>1. PICK c \in Commands : cmd' = [cmd EXCEPT ![p] = c] /\ kind' = [kind EXCEPT ![p] = c.action]
        BY <3>1
      <4>2. c.action \in Action /\ c # None /\ c.action # None
        BY ExecutionAssumption, HostAssumption
      <4>3. ProcessType'
        BY <4>1, <4>2 DEF ProcessType, Label, Preparing, work
      <4>4. Progress'
        BY <4>1, <4>2 DEF ProcessType, Progress, Executing, work, journal
      <4> QED BY <4>3, <4>4
    <3>2. CASE pc[p] = "again"
      <4>1. kind' = [kind EXCEPT ![p] = "reconcile"] /\ UNCHANGED cmd /\ "reconcile" # None
        BY <3>2, HostAssumption DEF Action
      <4>2. ProcessType'
        BY <4>1 DEF ProcessType, Label, Preparing, work, Action
      <4>3. Progress'
        BY <3>2, <4>1 DEF ProcessType, Progress, Executing, work, journal
      <4> QED BY <4>2, <4>3
    <3> QED BY <3>1, <3>2
  <2> QED BY <2>1, <2>2, <2>3
<1>2. CASE LockPreparation(p)
  <2> USE <1>2 DEF LockPreparation
  <2>1. ResourceType' /\ JournalType' /\ FaultType' /\ (host \in HostState)'
    BY DEF ResourceType, JournalType, FaultType, resource, journal, faults
  <2>2. CASE lock = None
    <3>1. LockType' /\ RowsTogether'
      BY <2>2 DEF LockType, RowsTogether, txOrder, resource, journal
    <3>2. ProcessType' /\ Progress'
      BY <2>2 DEF ProcessType, Progress, Label, Preparing, Executing, work, Goto, Silent, journal
    <3> QED BY <2>1, <3>1, <3>2
  <2>3. CASE lock # None
    <3>1. Return(p, "blocked", None) /\ CloseTx(p)
      BY <2>3
    <3>2. ProcessType' /\ Progress' /\ lock' \in Proc \cup {None}
      BY <3>1, ReturnKeeps DEF Exit, journal
    <3>3. LockType' /\ RowsTogether'
      BY <3>1, <3>2, CloseTxKeeps DEF LockType, RowsTogether, resource, journal
    <3> QED BY <2>1, <3>2, <3>3
  <2> QED BY <2>2, <2>3
<1>3. CASE RefuseApply(p) \/ PrepareNotFound(p)
  <2>1. \/ Return(p, "blocked", None)
        \/ Return(p, "not_found", None)
    BY <1>3 DEF RefuseApply, PrepareNotFound
  <2>2. CloseTx(p) /\ UNCHANGED <<journal, resource, observation, host, faults>> /\ pc[p] # "idle"
    BY <1>3 DEF RefuseApply, PrepareNotFound
  <2>3. ProcessType' /\ Progress' /\ lock' \in Proc \cup {None}
    BY <2>1, <2>2, ReturnKeeps DEF Exit, journal
  <2>4. LockType' /\ RowsTogether'
    BY <2>2, <2>3, CloseTxKeeps DEF LockType, RowsTogether, resource, journal
  <2>5. ResourceType' /\ JournalType' /\ FaultType' /\ (host \in HostState)'
    BY <2>2 DEF ResourceType, JournalType, FaultType, resource, journal, faults
  <2> QED BY <2>3, <2>4, <2>5
<1>4. CASE PrepareExecutableApply(p)
  <2> DEFINE m == cmd[p].manifest
             g == NextGeneration(m)
  <2>1. m \in Manifests
    BY <1>4, ExecutionAssumption DEF PrepareExecutableApply, ProcessType, Progress
  <2>2. declared \in Seq(Manifests) /\ Len(declared) \in Nat /\ Len(declared) <= MaxGeneration
    BY DEF ResourceType
  <2>3. g \in Generation
    BY <1>4, <2>2, PlannerAssumption DEF PrepareExecutableApply, NextGeneration, Generation
  <2>4. PICK row \in AllocationRow :
           LET o == BuildExecutable("apply", g, Identity(row))
           IN  /\ Persist(p, o, OnConflict(o), steps)
               /\ alloc' = row
               /\ MarkEffective(IF effective # None /\ effective.state = "converged" /\ effective.plan = o
                                THEN "converged" ELSE "pending", o)
               /\ pc' = [pc EXCEPT ![p] = "again"] \/ pc' = [pc EXCEPT ![p] = "run"]
    BY <1>4 DEF PrepareExecutableApply, Goto
  <2> DEFINE o == BuildExecutable("apply", g, Identity(row))
  <2>5. o \in Operation /\ o.generation = g
    BY <2>3, <2>4 DEF BuildExecutable, Identity, Operation, Allocation, AllocationRow, Action
  <2>6. /\ DOMAIN operations' = DOMAIN operations \cup {o}
        /\ operations' \in [DOMAIN operations' -> OperationStatus]
        /\ DOMAIN steps' = DOMAIN operations'
        /\ steps' = [k \in DOMAIN steps' |-> steps'[k]]
        /\ \A k \in DOMAIN operations' : steps'[k] \in [DOMAIN Plan(k.action) -> StepStatus]
        /\ newest' \in DOMAIN operations' /\ newest' # None
        /\ older' \in [Proc -> SUBSET Proc] /\ overtaken' \subseteq Proc
    BY <2>4, <2>5, PersistKeeps DEF OnConflict, JournalType
  <2>7. /\ declared' \in Seq(Manifests) /\ Len(declared') <= MaxGeneration
        /\ DOMAIN declared \subseteq DOMAIN declared' /\ g \in DOMAIN declared'
    <3>1. declared' = IF g > Len(declared) THEN Append(declared, m) ELSE declared
      BY <1>4 DEF PrepareExecutableApply, Declare
    <3>2. CASE declared # <<>> /\ declared[Len(declared)] = m
      <4>1. g = Len(declared) /\ declared' = declared
        BY <2>2, <3>1, <3>2 DEF NextGeneration
      <4>2. Len(declared) # 0
        BY <2>2, <3>2
      <4> QED BY <2>2, <4>1, <4>2
    <3>3. CASE ~(declared # <<>> /\ declared[Len(declared)] = m)
      <4>1. g = Len(declared) + 1
        BY <2>2, <3>3 DEF NextGeneration
      <4>2. declared' = Append(declared, m)
        BY <2>2, <3>1, <4>1
      <4>3. g <= MaxGeneration
        BY <2>3, PlannerAssumption DEF Generation
      <4> QED BY <2>1, <2>2, <4>1, <4>2, <4>3
    <3> QED BY <3>2, <3>3
  <2>8. effective' \in EffectiveRow
    BY <2>4, <2>5 DEF MarkEffective, EffectiveRow, EffectiveState
  <2>9. ResourceType'
    <3>1. archived' = FALSE
      BY <1>4 DEF PrepareExecutableApply, Declare
    <3> QED BY <2>4, <2>7, <2>8, <3>1 DEF ResourceType
  <2>10. JournalType'
    BY <1>4, <2>5, <2>6 DEF JournalType, PrepareExecutableApply
  <2>11. LockType'
    BY <1>4, <2>6 DEF LockType, PrepareExecutableApply, Unlock
  <2>12. ProcessType' /\ FaultType' /\ (host \in HostState)'
    BY <1>4, <2>4 DEF ProcessType, FaultType, PrepareExecutableApply, work, faults, Label, Silent
  <2>13. RowsTogether'
    <3>1. alloc' # None /\ effective' # None /\ declared' # <<>>
      BY <2>4, <2>7, <2>8, RowAssumption
    <3>2. \A k \in DOMAIN operations' : k.generation \in DOMAIN declared'
      BY <2>5, <2>6, <2>7 DEF RowsTogether
    <3> QED BY <2>6, <3>1, <3>2 DEF RowsTogether
  <2>14. Progress'
    BY <1>4, <2>4, <2>6 DEF Progress, ProcessType, PrepareExecutableApply, work, Executing
  <2> QED BY <2>9, <2>10, <2>11, <2>12, <2>13, <2>14
<1>5. CASE PrepareExecutableDelete(p) \/ PrepareExecutableReconcile(p)
  <2>1. declared # <<>> /\ alloc \in AllocationRow /\ effective \in EffectiveRow
    BY <1>5 DEF PrepareExecutableDelete, PrepareExecutableReconcile, Present, RowsTogether,
                ResourceType
  <2>2. Len(declared) \in Generation /\ Len(declared) \in DOMAIN declared
    BY <2>1, PlannerAssumption DEF ResourceType, Generation
  <2>3. PICK action \in {"delete", "reconcile"}, state \in {"deleting", "applying"} :
           \E statuses, rows :
             LET o == BuildExecutable(action, Len(declared), Identity(alloc))
             IN  /\ Persist(p, o, statuses, rows)
                 /\ statuses \in [DOMAIN operations -> OperationStatus]
                 /\ rows = [k \in DOMAIN operations |-> rows[k]]
                 /\ \A k \in DOMAIN operations : rows[k] \in [DOMAIN Plan(k.action) -> StepStatus]
                 /\ MarkEffective(state, o)
    <3>1. CASE PrepareExecutableDelete(p)
      <4> DEFINE o == BuildExecutable("delete", Len(declared), Identity(alloc))
      <4>1. Persist(p, o, operations, steps) /\ MarkEffective("deleting", o)
        BY <3>1 DEF PrepareExecutableDelete, OnConflict
      <4> QED BY <4>1 DEF JournalType
    <3>2. CASE PrepareExecutableReconcile(p)
      <4> DEFINE o == BuildExecutable("reconcile", Len(declared), Identity(alloc))
                 statuses == IF o \in DOMAIN operations /\ operations[o] # "running"
                             THEN [operations EXCEPT ![o] = "pending"] ELSE operations
                 rows == IF o \in DOMAIN operations
                         THEN [steps EXCEPT ![o] = [i \in DOMAIN @ |-> "pending"]] ELSE steps
      <4>1. Persist(p, o, statuses, rows) /\ MarkEffective("applying", o)
        BY <3>2 DEF PrepareExecutableReconcile
      <4>2. statuses \in [DOMAIN operations -> OperationStatus]
        BY DEF JournalType, OperationStatus
      <4>3. rows = [k \in DOMAIN operations |-> rows[k]]
        BY DEF JournalType
      <4>4. \A k \in DOMAIN operations : rows[k] \in [DOMAIN Plan(k.action) -> StepStatus]
        BY DEF JournalType, StepStatus
      <4> HIDE DEF statuses, rows
      <4> QED BY <4>1, <4>2, <4>3, <4>4
    <3> QED BY <1>5, <3>1, <3>2
  <2> DEFINE o == BuildExecutable(action, Len(declared), Identity(alloc))
  <2>4. o \in Operation /\ o.generation = Len(declared)
    BY <2>1, <2>2, <2>3 DEF BuildExecutable, Identity, Operation, Allocation, AllocationRow, Action
  <2>5. /\ DOMAIN operations' = DOMAIN operations \cup {o}
        /\ operations' \in [DOMAIN operations' -> OperationStatus]
        /\ DOMAIN steps' = DOMAIN operations'
        /\ steps' = [k \in DOMAIN steps' |-> steps'[k]]
        /\ \A k \in DOMAIN operations' : steps'[k] \in [DOMAIN Plan(k.action) -> StepStatus]
        /\ newest' \in DOMAIN operations' /\ newest' # None
        /\ older' \in [Proc -> SUBSET Proc] /\ overtaken' \subseteq Proc
    <3> HIDE DEF o
    <3> QED BY <2>3, <2>4, PersistKeeps DEF o
  <2>6. effective' \in EffectiveRow
    BY <2>3, <2>4 DEF MarkEffective, EffectiveRow, EffectiveState
  <2>7. /\ pc' = [pc EXCEPT ![p] = "run"]
        /\ Unlock(p) /\ Silent
        /\ UNCHANGED <<declared, archived, alloc, observation, host, cmd, kind, work, faults>>
        /\ pc[p] = "preparing"
    BY <1>5 DEF PrepareExecutableDelete, PrepareExecutableReconcile, Goto
  <2>8. ResourceType'
    BY <2>6, <2>7 DEF ResourceType
  <2>9. JournalType'
    BY <2>4, <2>5, <2>7 DEF JournalType
  <2>10. LockType'
    BY <2>5, <2>7 DEF LockType, Unlock
  <2>11. ProcessType' /\ FaultType' /\ (host \in HostState)'
    BY <2>7 DEF ProcessType, FaultType, work, faults, Label, Silent
  <2>12. RowsTogether'
    <3>1. effective' # None
      BY <2>6, RowAssumption
    <3> QED BY <2>1, <2>2, <2>4, <2>5, <2>7, <3>1 DEF RowsTogether
  <2>13. Progress'
    BY <2>5, <2>7 DEF Progress, ProcessType, work, Executing
  <2> QED BY <2>8, <2>9, <2>10, <2>11, <2>12, <2>13
<1> QED BY <1>1, <1>2, <1>3, <1>4, <1>5 DEF Prepare

(* A step that leaves the rows and the fault counters alone leaves their   *)
(* invariants alone.                                                       *)
LEMMA RowsUnchanged ==
    ASSUME Wellformed, UNCHANGED <<journal, resource, observation, overtaken>>
    PROVE  ResourceType' /\ JournalType' /\ RowsTogether'
BY DEF Wellformed, TypeOK, ResourceType, JournalType, RowsTogether, journal, resource

(* Executor.Run, action by action: the steps before the driver.            *)
LEMMA ReadKeeps ==
    ASSUME Wellformed, NEW p \in Proc,
           InspectBefore(p) \/ LockExecution(p) \/ Inspect(p) \/ ExecutionSteps(p)
    PROVE  Wellformed'
<1> USE DEF Wellformed, TypeOK
<1>1. UNCHANGED <<journal, resource, observation, txOrder, host, faults>> /\ pc[p] # "idle"
  BY DEF InspectBefore, LockExecution, Inspect, ExecutionSteps
<1>2. ResourceType' /\ JournalType' /\ RowsTogether'
  BY <1>1, RowsUnchanged DEF txOrder
<1>3. FaultType' /\ (host \in HostState)'
  BY <1>1 DEF FaultType, faults
<1>4. ASSUME NEW exit \in Exit, NEW shown \in EffectiveState \cup {None}, Return(p, exit, shown)
      PROVE  Wellformed'
  <2>1. ProcessType' /\ Progress' /\ lock' \in Proc \cup {None}
    BY <1>1, <1>4, ReturnKeeps DEF journal
  <2>2. LockType'
    BY <1>1, <2>1 DEF LockType, txOrder
  <2> QED BY <1>2, <1>3, <2>1, <2>2
<1>5. CASE InspectBefore(p)
  <2>1. CASE archived
    BY <1>4, <1>5, <2>1 DEF InspectBefore, Exit
  <2>2. CASE ~archived
    <3>1. LockType'
      BY <1>1, <1>5, <2>2 DEF InspectBefore, LockType, txOrder
    <3>2. ProcessType'
      BY <1>5, <2>2 DEF InspectBefore, ProcessType, Goto, Silent, Label, work
    <3>3. Progress'
      BY <1>1, <1>5, <2>2 DEF InspectBefore, ProcessType, Progress, Goto, Executing, work, journal
    <3> QED BY <1>2, <1>3, <3>1, <3>2, <3>3
  <2> QED BY <2>1, <2>2
<1>6. CASE LockExecution(p)
  <2>1. CASE lock # None
    BY <1>4, <1>6, <2>1 DEF LockExecution, Exit
  <2>2. CASE lock = None
    <3>1. LockType'
      BY <1>1, <1>6, <2>2 DEF LockExecution, LockType, txOrder
    <3>2. ProcessType'
      BY <1>6, <2>2 DEF LockExecution, ProcessType, Goto, Silent, Label, Executing, work
    <3>3. Progress'
      BY <1>1, <1>6, <2>2 DEF LockExecution, ProcessType, Progress, Goto, Executing, work, journal
    <3> QED BY <1>2, <1>3, <3>1, <3>2, <3>3
  <2> QED BY <2>1, <2>2
<1>7. CASE Inspect(p)
  <2>1. newest \in DOMAIN operations /\ newest # None /\ effective \in EffectiveRow
    BY <1>7 DEF Inspect, Progress, Executing, JournalType, ResourceType, RowsTogether
  <2>2. newest \in Operation
    BY <2>1 DEF JournalType
  <2>3. CASE Return(p, "not_found", None) \/ Return(p, "ok", effective.state)
    <3>1. effective.state \in EffectiveState
      BY <2>1 DEF EffectiveRow
    <3> QED BY <1>4, <2>3, <3>1 DEF Exit
  <2>4. CASE /\ current' = [current EXCEPT ![p] = newest]
             /\ Goto(p, "snapshot") /\ Silent
             /\ UNCHANGED <<lock, cmd, kind, todo, result>>
    <3>1. LockType'
      BY <1>1, <2>4 DEF LockType, txOrder
    <3>2. ProcessType'
      BY <2>2, <2>4 DEF ProcessType, Goto, Silent, Label, Executing
    <3>3. Progress'
      BY <1>1, <1>7, <2>1, <2>4 DEF Inspect, ProcessType, Progress, Goto, Executing, journal
    <3> QED BY <1>2, <1>3, <3>1, <3>2, <3>3
  <2> QED BY <1>7, <2>3, <2>4 DEF Inspect
<1>8. CASE ExecutionSteps(p)
  <2>1. current[p] \in DOMAIN operations
    BY <1>8 DEF ExecutionSteps, Progress, Executing
  <2>2. current[p].action \in Action
    BY <2>1 DEF JournalType, Operation
  <2>3. Unsatisfied(current[p]) \subseteq Nat
    BY <2>1, <2>2, PlanDomain DEF Unsatisfied, JournalType
  <2>4. ProcessType'
    BY <1>8, <2>3 DEF ExecutionSteps, ProcessType, Goto, Silent, Label, Executing
  <2>5. LockType' /\ Progress'
    BY <1>1, <1>8 DEF ExecutionSteps, LockType, txOrder, ProcessType, Progress, Goto, Executing, journal
  <2> QED BY <1>2, <1>3, <2>4, <2>5
<1> QED BY <1>5, <1>6, <1>7, <1>8

(* A driver's answer.                                                      *)
LEMMA AnswerKeeps ==
    ASSUME Wellformed, NEW p \in Proc, pc[p] = "ensure",
           NEW outcome \in Outcome, NEW h \in HostState, Answer(p, outcome, h),
           StepName(p) \in ObserverStep => outcome \in {"done", "drift", "failed"},
           FaultType'
    PROVE  Wellformed'
<1> USE DEF Wellformed, TypeOK, Answer, Goto, Silent
<1>1. ResourceType' /\ JournalType' /\ RowsTogether'
  BY RowsUnchanged DEF txOrder
<1>2. LockType'
  BY DEF LockType, txOrder
<1>3. ProcessType'
  BY DEF ProcessType, Label, Executing
<1>4. Progress'
  BY DEF ProcessType, Progress, Executing, journal
<1> QED BY <1>1, <1>2, <1>3, <1>4

(* Writing the status of one step.                                         *)
LEMMA StepWritten ==
    ASSUME JournalType, NEW c, NEW n, NEW status \in StepStatus,
           steps' = [steps EXCEPT ![c][n] = status],
           DOMAIN operations' = DOMAIN operations,
           operations' \in [DOMAIN operations -> OperationStatus],
           UNCHANGED <<newest, observation>>
    PROVE  JournalType'
<1>1. steps' = [o \in DOMAIN steps |-> steps'[o]] /\ DOMAIN steps' = DOMAIN steps
  BY DEF JournalType
<1>2. ASSUME NEW o \in DOMAIN operations
      PROVE  steps'[o] \in [DOMAIN Plan(o.action) -> StepStatus]
  <2>1. steps[o] \in [DOMAIN Plan(o.action) -> StepStatus]
    BY DEF JournalType
  <2>2. CASE o = c
    <3>1. steps'[o] = [steps[o] EXCEPT ![n] = status]
      BY <2>2 DEF JournalType
    <3> QED BY <2>1, <3>1
  <2>3. CASE o # c
    BY <2>1, <2>3 DEF JournalType
  <2> QED BY <2>2, <2>3
<1> QED BY <1>1, <1>2 DEF JournalType

(* Whoever is past the inspection has a declaration and an identity to     *)
(* give to the drivers.                                                    *)
LEMMA TargetTyped ==
    ASSUME Wellformed, NEW p \in Proc, pc[p] \in Executing \ {"inspect"}
    PROVE  TargetOf(current[p]) \in Target
<1> USE DEF Wellformed, TypeOK
<1>1. current[p] \in DOMAIN operations /\ current[p] \in Operation
  BY DEF Progress, JournalType
<1>2. declared[current[p].generation] \in Manifests
  BY <1>1 DEF ResourceType, RowsTogether
<1>3. current[p].allocation.identity \in Identities
  BY <1>1 DEF Operation, Allocation
<1> QED BY <1>2, <1>3 DEF TargetOf, Target

(* Executor.Run from the start of the operation to its report.             *)
LEMMA ExecuteKeeps ==
    ASSUME Wellformed, NEW p \in Proc,
           \/ StartOperation(p) \/ ClaimStep(p) \/ Ensure(p) \/ EnsureFails(p)
           \/ RecordObservation(p) \/ CompleteStep(p) \/ FailStep(p)
           \/ CompleteOperation(p) \/ Report(p)
    PROVE  Wellformed'
<1> USE DEF Wellformed, TypeOK
<1>1. /\ pc[p] \in Executing \ {"inspect"} /\ pc[p] # "idle" /\ current[p] # None
      /\ current[p] \in DOMAIN operations
      /\ current[p] \in Operation /\ newest # None /\ effective \in EffectiveRow
      /\ declared # <<>> /\ alloc \in AllocationRow
      /\ current[p].generation \in DOMAIN declared
  <2>1. pc[p] \in Executing \ {"inspect"}
    BY DEF StartOperation, ClaimStep, Ensure, EnsureFails, RecordObservation, CompleteStep,
           FailStep, CompleteOperation, Report, Executing
  <2>2. current[p] # None /\ newest # None /\ current[p] \in DOMAIN operations
    BY <2>1 DEF Progress
  <2> QED BY <2>1, <2>2 DEF Executing, RowsTogether, ResourceType, JournalType
<1>2. TargetOf(current[p]) \in Target
  BY <1>1, TargetTyped
<1>3. CASE StartOperation(p)
  <2> USE <1>3 DEF StartOperation
  <2>1. JournalType' /\ DOMAIN operations' = DOMAIN operations
    BY DEF JournalType, OperationStatus
  <2>2. ResourceType' /\ LockType' /\ FaultType' /\ (host \in HostState)'
    BY DEF ResourceType, LockType, FaultType, resource, txOrder, faults
  <2>3. RowsTogether'
    BY <2>1 DEF RowsTogether, resource, txOrder
  <2>4. ProcessType' /\ Progress'
    BY <1>1, <2>1 DEF ProcessType, Progress, Goto, Silent, Label, Executing, work
  <2> QED BY <2>1, <2>2, <2>3, <2>4
<1>4. CASE ClaimStep(p)
  <2> USE <1>4 DEF ClaimStep
  <2>1. JournalType'
    <3>1. CASE UNCHANGED steps
      BY <3>1 DEF JournalType
    <3>2. CASE steps' = [steps EXCEPT ![current[p]][NextStep(p)] = "running"]
      <4>1. "running" \in StepStatus /\ operations \in [DOMAIN operations -> OperationStatus]
        BY DEF StepStatus, JournalType
      <4> QED BY <3>2, <4>1, StepWritten
    <3> QED BY <3>1, <3>2
  <2>2. ResourceType' /\ FaultType' /\ (host \in HostState)' /\ RowsTogether'
    BY DEF ResourceType, FaultType, RowsTogether, resource, txOrder, faults
  <2>3. CASE Return(p, "partial", None)
    <3>1. ProcessType' /\ Progress' /\ lock' \in Proc \cup {None}
      BY <1>1, <2>3, ReturnKeeps DEF Exit
    <3> QED BY <2>1, <2>2, <3>1 DEF LockType, txOrder
  <2>4. CASE Goto(p, "ensure") /\ Silent /\ UNCHANGED <<lock, cmd, kind, work>>
    <3>1. ProcessType' /\ Progress'
      BY <1>1, <2>4 DEF ProcessType, Progress, Goto, Silent, Label, Executing, work
    <3>2. LockType'
      BY <2>4 DEF LockType, txOrder
    <3> QED BY <2>1, <2>2, <3>1, <3>2
  <2> QED BY <2>3, <2>4
<1>5. CASE Ensure(p)
  <2> DEFINE step == StepName(p)
             t == TargetOf(current[p])
  <2>1. FaultType' /\ pc[p] = "ensure"
    BY <1>5 DEF Ensure, FaultType, faults
  <2>2. CASE Blocked(step, t, host) /\ Answer(p, "blocked", host)
    <3>1. step \notin ObserverStep
      BY <2>2 DEF Blocked, ObserverStep
    <3> QED BY <2>1, <2>2, <3>1, AnswerKeeps DEF Outcome
  <2>3. ASSUME NEW outcome \in {"failed", "blocked"}, MarkerMissing(step, t, host),
               Answer(p, outcome, HalfStored(t, host))
        PROVE  Wellformed'
    <3>1. t.manifest.disk \in Nat
      BY <1>2, PlannerAssumption DEF Target
    <3>2. HalfStored(t, host) \in HostState
      BY <3>1 DEF HostState, HalfStored
    <3>3. step \notin ObserverStep
      BY <2>3 DEF MarkerMissing, ObserverStep
    <3> QED BY <2>1, <2>3, <3>2, <3>3, AnswerKeeps DEF Outcome
  <2>4. CASE Answer(p, "drift", host)
    BY <2>1, <2>4, AnswerKeeps DEF Outcome
  <2>5. CASE Answer(p, IF Skips(step) THEN "skipped" ELSE "done", Ensured(step, t, host))
    <3>1. Ensured(step, t, host) \in HostState
      BY <1>2, EnsuredType
    <3>2. step \in ObserverStep => ~Skips(step)
      BY DEF ObserverStep, Skips
    <3> QED BY <2>1, <2>5, <3>1, <3>2, AnswerKeeps DEF Outcome
  <2> QED BY <1>5, <2>2, <2>3, <2>4, <2>5 DEF Ensure
<1>6. CASE EnsureFails(p)
  <2>1. FaultType' /\ pc[p] = "ensure"
    BY <1>6 DEF EnsureFails, FaultType
  <2>2. ASSUME NEW h \in Torn(StepName(p), TargetOf(current[p]), host),
               Answer(p, "failed", h) \/ Answer(p, "drift", h)
        PROVE  Wellformed'
    <3>1. h \in HostState
      BY <1>2, TornType
    <3> QED BY <2>1, <2>2, <3>1, AnswerKeeps DEF Outcome
  <2>3. CASE Refusable(StepName(p), host) /\ Answer(p, "blocked", host)
    BY <2>1, <2>3, AnswerKeeps DEF Outcome, ObserverStep, Refusable
  <2> QED BY <1>6, <2>2, <2>3 DEF EnsureFails
<1>7. CASE RecordObservation(p)
  <2> USE <1>7 DEF RecordObservation
  <2>1. /\ ResourceType' /\ LockType' /\ FaultType' /\ (host \in HostState)' /\ RowsTogether'
    BY DEF ResourceType, LockType, FaultType, RowsTogether, resource, journal, txOrder, faults
  <2>2. VerdictOf(result[p]) \in Verdict
    BY DEF Progress, VerdictOf, Verdict
  <2>3. JournalType'
    BY <1>1, <2>2 DEF JournalType, journal, Observation
  <2>4. ProcessType' /\ Progress'
    BY <1>1 DEF ProcessType, Progress, Goto, Silent, Label, Executing, Outcome, journal
  <2> QED BY <2>1, <2>3, <2>4
<1>8. CASE CompleteStep(p)
  <2> USE <1>8 DEF CompleteStep
  <2>1. JournalType'
    <3>1. (IF result[p] = "done" THEN "succeeded" ELSE "skipped") \in StepStatus
      BY DEF StepStatus
    <3>2. operations \in [DOMAIN operations -> OperationStatus]
      BY DEF JournalType
    <3> QED BY <3>1, <3>2, StepWritten
  <2>2. ResourceType' /\ LockType' /\ FaultType' /\ (host \in HostState)' /\ RowsTogether'
    BY DEF ResourceType, LockType, FaultType, RowsTogether, resource, txOrder, faults
  <2>3. ProcessType' /\ Progress'
    BY <1>1 DEF ProcessType, Progress, Goto, Silent, Label, Executing
  <2> QED BY <2>1, <2>2, <2>3
<1>9. CASE FailStep(p)
  <2> USE <1>9 DEF FailStep
  <2>1. operations' \in [DOMAIN operations -> OperationStatus] /\ DOMAIN operations' = DOMAIN operations
    BY DEF JournalType, OperationStatus
  <2>2. JournalType'
    BY <2>1, StepWritten DEF StepStatus
  <2>3. ResourceType' /\ FaultType' /\ (host \in HostState)' /\ RowsTogether'
    BY <2>1 DEF ResourceType, FaultType, RowsTogether, resource, txOrder, faults
  <2>4. ProcessType' /\ Progress' /\ lock' \in Proc \cup {None}
    BY <1>1, <2>1, ReturnKeeps DEF Exit
  <2> QED BY <2>2, <2>3, <2>4 DEF LockType, txOrder
<1>10. CASE CompleteOperation(p)
  <2> USE <1>10 DEF CompleteOperation
  <2>1. operations' \in [DOMAIN operations -> OperationStatus] /\ DOMAIN operations' = DOMAIN operations
    BY DEF JournalType, OperationStatus
  <2>2. JournalType'
    BY <2>1 DEF JournalType
  <2>3. effective' \in EffectiveRow
    BY <1>1 DEF EffectiveRow, EffectiveState, FinalState
  <2>4. alloc' \in AllocationRow /\ archived' \in BOOLEAN
    BY <1>1 DEF AllocationRow, ResourceType
  <2>5. ResourceType'
    BY <2>3, <2>4 DEF ResourceType
  <2>6. RowsTogether'
    BY <1>1, <2>1, <2>3, <2>4, RowAssumption DEF RowsTogether, txOrder
  <2>7. LockType' /\ FaultType' /\ (host \in HostState)'
    BY DEF LockType, FaultType, txOrder, faults
  <2>8. ProcessType' /\ Progress'
    BY <1>1, <2>1 DEF ProcessType, Progress, Goto, Silent, Label, Executing, work
  <2> QED BY <2>2, <2>5, <2>6, <2>7, <2>8
<1>11. CASE Report(p)
  <2>1. UNCHANGED <<journal, resource, observation, txOrder, host, faults>>
    BY <1>11 DEF Report
  <2>2. Return(p, "ok", "absent") \/ Return(p, "ok", effective.state) \/ Return(p, "not_found", None)
    BY <1>11 DEF Report
  <2>3. effective.state \in EffectiveState
    BY <1>1 DEF EffectiveRow
  <2>4. ProcessType' /\ Progress' /\ lock' \in Proc \cup {None}
    BY <1>1, <2>1, <2>2, <2>3, ReturnKeeps DEF Exit, EffectiveState, journal
  <2>5. ResourceType' /\ JournalType' /\ RowsTogether'
    BY <2>1, RowsUnchanged DEF txOrder
  <2> QED BY <2>1, <2>4, <2>5 DEF LockType, FaultType, txOrder, faults
<1> QED BY <1>3, <1>4, <1>5, <1>6, <1>7, <1>8, <1>9, <1>10, <1>11

(* Crashes, lost lock sessions and changes of the host by anyone else.     *)
LEMMA FaultsKeep ==
    ASSUME Wellformed, Drift \/ \E p \in Proc : Crash(p) \/ SessionLoss(p)
    PROVE  Wellformed'
<1> USE DEF Wellformed, TypeOK
<1>1. ASSUME NEW p \in Proc, Crash(p) PROVE Wellformed'
  <2> USE <1>1 DEF Crash
  <2>1. ProcessType' /\ Progress'
    BY HostAssumption DEF ProcessType, Progress, Goto, Forget, Silent, Label, Executing, journal, Action
  <2>2. LockType' /\ (overtaken = {} => overtaken' = {})
    <3>1. CloseTx(p) /\ lock' \in Proc \cup {None}
      BY DEF LockType, Unlock
    <3>2. /\ older' \in [Proc -> SUBSET Proc] /\ overtaken' \subseteq Proc
          /\ overtaken = {} => overtaken' = {}
      BY <3>1, CloseTxKeeps
    <3> QED BY <3>1, <3>2 DEF LockType
  <2>3. ResourceType' /\ JournalType' /\ RowsTogether'
    BY <2>2 DEF ResourceType, JournalType, RowsTogether, journal, resource
  <2>4. FaultType'
    BY DEF FaultType
  <2>5. (host \in HostState)'
    <3>1. CASE pc[p] = "ensure"
      <4>1. TargetOf(current[p]) \in Target
        BY <3>1, TargetTyped DEF Executing
      <4>2. host' \in Torn(StepName(p), TargetOf(current[p]), host)
        BY <3>1 DEF Interrupted
      <4> QED BY <4>1, <4>2, TornType
    <3>2. CASE pc[p] # "ensure"
      BY <3>2 DEF Interrupted
    <3> QED BY <3>1, <3>2
  <2> QED BY <2>1, <2>2, <2>3, <2>4, <2>5
<1>2. ASSUME NEW p \in Proc, SessionLoss(p) PROVE Wellformed'
  <2> USE <1>2 DEF SessionLoss
  <2>1. ProcessType' /\ Progress' /\ LockType'
    BY DEF ProcessType, Progress, LockType, Silent, work, journal, txOrder
  <2>2. ResourceType' /\ JournalType' /\ RowsTogether'
    BY RowsUnchanged DEF txOrder
  <2>3. FaultType' /\ (host \in HostState)'
    BY DEF FaultType
  <2> QED BY <2>1, <2>2, <2>3
<1>3. CASE Drift
  <2> USE <1>3 DEF Drift
  <2>1. ProcessType' /\ Progress' /\ LockType'
    BY DEF ProcessType, Progress, LockType, Silent, work, journal, txOrder
  <2>2. ResourceType' /\ JournalType' /\ RowsTogether'
    BY RowsUnchanged DEF txOrder
  <2>3. FaultType'
    BY DEF FaultType
  <2>4. (host \in HostState)'
    <3>1. CASE host' = [host EXCEPT !.running = ~@]
      BY <3>1 DEF HostState
    <3>2. CASE host' = [host EXCEPT !.pf = None] \/ host' = [host EXCEPT !.kea = {}]
      BY <3>2 DEF HostState
    <3>3. CASE host' = [host EXCEPT !.image = FALSE]
      BY <3>3 DEF HostState
    <3>4. CASE host' = [host EXCEPT !.disk = 0, !.imaged = FALSE]
      BY <3>4 DEF HostState
    <3>5. CASE host' = [host EXCEPT !.config = None, !.seed = None, !.running = FALSE]
      BY <3>5 DEF HostState
    <3> QED BY <3>1, <3>2, <3>3, <3>4, <3>5
  <2> QED BY <2>1, <2>2, <2>3, <2>4
<1> QED BY <1>1, <1>2, <1>3

(* Every step keeps the types and finds the rows it dereferences.          *)
LEMMA WellformedStep == Wellformed /\ [Next]_vars => Wellformed'
<1> SUFFICES ASSUME Wellformed, [Next]_vars PROVE Wellformed'
  OBVIOUS
<1>1. ASSUME NEW p \in Proc, Prepare(p) PROVE Wellformed'
  BY <1>1, PrepareKeeps
<1>2. ASSUME NEW p \in Proc, Run(p) PROVE Wellformed'
  BY <1>2, ReadKeeps, ExecuteKeeps DEF Run
<1>3. CASE Drift \/ \E p \in Proc : Crash(p) \/ SessionLoss(p)
  BY <1>3, FaultsKeep
<1>4. CASE UNCHANGED vars
  <2>1. ResourceType' /\ JournalType' /\ RowsTogether'
    BY <1>4, RowsUnchanged DEF vars, txOrder
  <2>2. ProcessType' /\ Progress' /\ LockType' /\ FaultType' /\ (host \in HostState)'
    BY <1>4 DEF Wellformed, TypeOK, ProcessType, Progress, LockType, FaultType, vars, work,
                journal, txOrder, faults
  <2> QED BY <2>1, <2>2 DEF Wellformed, TypeOK
<1> QED BY <1>1, <1>2, <1>3, <1>4 DEF Next

(***************************************************************************)
(* Every row, status and program counter keeps its type, and every handler *)
(* finds the rows it dereferences.                                         *)
(***************************************************************************)
THEOREM TypeCorrect == Spec => []TypeOK
<1>1. Wellformed => TypeOK BY DEF Wellformed
<1> QED BY WellformedInit, WellformedStep, <1>1, PTL DEF Spec

(***************************************************************************)
(* An allocation keeps its identity until the completion of a delete       *)
(* releases it: no retry, redeclaration, crash or lost lock session moves  *)
(* a guest to another address.                                             *)
(***************************************************************************)
LEMMA KeepIdentityStep == Wellformed /\ [Next]_vars => KeepIdentity
<1> SUFFICES ASSUME Wellformed, [Next]_vars, alloc # None, ~alloc.released, alloc' # alloc
             PROVE  /\ alloc' = [alloc EXCEPT !.released = TRUE]
                    /\ \E p \in Proc : /\ current[p] # None /\ current[p].action = "delete"
                                      /\ pc'[p] = "report"
  BY DEF KeepIdentity
<1> USE DEF resource
<1>1. ASSUME NEW p \in Proc, Prepare(p) PROVE FALSE
  BY <1>1 DEF Prepare, BeginTx, LockPreparation, PrepareExecutableApply, EnsureAllocation,
              Allocated, RefuseApply, PrepareExecutableDelete, PrepareExecutableReconcile,
              PrepareNotFound
<1>2. ASSUME NEW p \in Proc, Run(p)
      PROVE  CompleteOperation(p)
  BY <1>2 DEF Run, InspectBefore, LockExecution, Inspect, ExecutionSteps, StartOperation,
              ClaimStep, Ensure, EnsureFails, Answer, RecordObservation, CompleteStep,
              FailStep, Report
<1>3. ASSUME NEW p \in Proc, CompleteOperation(p)
      PROVE  /\ alloc' = [alloc EXCEPT !.released = TRUE]
             /\ current[p] # None /\ current[p].action = "delete" /\ pc'[p] = "report"
  BY <1>3 DEF CompleteOperation, FinalState, Goto, Wellformed, TypeOK, ProcessType,
              Progress, Executing
<1>4. ~\E p \in Proc : Crash(p) \/ SessionLoss(p)
  BY DEF Crash, SessionLoss
<1>5. ~Drift /\ ~UNCHANGED vars
  BY DEF Drift, vars
<1> QED BY <1>1, <1>2, <1>3, <1>4, <1>5 DEF Next

(* The allocation of a resource changes its identity only across a         *)
(* release, and only the completion of a delete releases it, with lost     *)
(* lock sessions as without (planner references and vm_allocations row of  *)
(* a live guest).                                                          *)
THEOREM IdentityIsKept == Spec => IdentityKept
<1>1. Wellformed /\ [Next]_vars => [KeepIdentity]_vars
  BY KeepIdentityStep
<1> QED BY WellformedInit, WellformedStep, <1>1, PTL DEF Spec, IdentityKept

(***************************************************************************)
(* An allocation is released exactly while the resource is archived, even  *)
(* when lock sessions were lost: both are written by the same transactions.*)
(***************************************************************************)
LEMMA ReleasedIffArchivedStep ==
    Wellformed /\ ReleasedIffArchived /\ [Next]_vars => ReleasedIffArchived'
<1> SUFFICES ASSUME Wellformed, ReleasedIffArchived, [Next]_vars PROVE ReleasedIffArchived'
  OBVIOUS
<1> USE DEF ReleasedIffArchived, resource
<1>1. ASSUME NEW p \in Proc, PrepareExecutableApply(p) PROVE ReleasedIffArchived'
  <2>1. PICK row \in AllocationRow : /\ EnsureAllocation(NextGeneration(cmd[p].manifest), row)
                                     /\ alloc' = row
    BY <1>1 DEF PrepareExecutableApply
  <2>2. row.released = FALSE
    BY <2>1 DEF EnsureAllocation, Allocated, AllocationRow
  <2>3. archived' = FALSE
    BY <1>1 DEF PrepareExecutableApply, Declare
  <2> QED BY <2>1, <2>2, <2>3
<1>2. ASSUME NEW p \in Proc, CompleteOperation(p) PROVE ReleasedIffArchived'
  <2>1. alloc \in AllocationRow
    BY <1>2 DEF CompleteOperation, Wellformed, TypeOK, Progress, Executing, RowsTogether, ResourceType
  <2>2. CASE FinalState(current[p].action) = "absent"
    <3>1. alloc' = [alloc EXCEPT !.released = TRUE] /\ archived' = TRUE
      BY <1>2, <2>2 DEF CompleteOperation
    <3>2. alloc' \in AllocationRow /\ alloc'.released
      BY <2>1, <3>1 DEF AllocationRow
    <3> QED BY <3>1, <3>2, RowAssumption
  <2>3. CASE FinalState(current[p].action) # "absent"
    BY <1>2, <2>3 DEF CompleteOperation
  <2> QED BY <2>2, <2>3
<1>3. ASSUME NEW p \in Proc, Prepare(p), ~PrepareExecutableApply(p) PROVE ReleasedIffArchived'
  BY <1>3 DEF Prepare, BeginTx, LockPreparation, RefuseApply, PrepareExecutableDelete,
              PrepareExecutableReconcile, PrepareNotFound
<1>4. ASSUME NEW p \in Proc, Run(p), ~CompleteOperation(p) PROVE ReleasedIffArchived'
  BY <1>4 DEF Run, InspectBefore, LockExecution, Inspect, ExecutionSteps, StartOperation,
              ClaimStep, Ensure, EnsureFails, Answer, RecordObservation, CompleteStep,
              FailStep, Report
<1>5. ASSUME NEW p \in Proc, Crash(p) \/ SessionLoss(p) PROVE ReleasedIffArchived'
  BY <1>5 DEF Crash, SessionLoss
<1>6. CASE Drift \/ UNCHANGED vars
  BY <1>6 DEF Drift, vars
<1> QED BY <1>1, <1>2, <1>3, <1>4, <1>5, <1>6 DEF Next

(* At every moment the vm_allocations row is released exactly if           *)
(* resources.archived_at is set, whatever two executors at once may write. *)
THEOREM ReleaseIsArchive == Spec => []ReleasedIffArchived
<1>1. Init => ReleasedIffArchived BY DEF Init, ReleasedIffArchived
<1> QED BY WellformedInit, WellformedStep, ReleasedIffArchivedStep, <1>1, PTL DEF Spec

(***************************************************************************)
(* The operation executed is the newest one, from the inspection under the *)
(* lock to the last write: a preparation needs the lock the executor holds.*)
(***************************************************************************)
Busy == \A p \in Proc : current[p] # None => pc[p] \in Executing

Serial == Wellformed /\ Exclusion /\ Busy /\ ExecutesNewest

(* At first no command works on the resource.                              *)
LEMMA SerialInit == Init => Serial
BY WellformedInit, ExclusionInit DEF Init, Serial, Busy, ExecutesNewest

(* A process keeps an operation to execute exactly while its command is    *)
(* past the inspection.                                                    *)
LEMMA BusyStep == Wellformed /\ Busy /\ [Next]_vars => Busy'
<1> SUFFICES ASSUME Wellformed, Busy, [Next]_vars PROVE Busy'
  OBVIOUS
<1> USE DEF Busy, Executing, Wellformed, TypeOK, ProcessType, Goto, Return, Forget, Answer, work
<1>1. ASSUME NEW p \in Proc, Prepare(p) PROVE Busy'
  BY <1>1 DEF Prepare, BeginTx, LockPreparation, RefuseApply, PrepareExecutableApply,
              PrepareExecutableDelete, PrepareExecutableReconcile, PrepareNotFound
<1>2. ASSUME NEW p \in Proc, Run(p) PROVE Busy'
  <2>1. CASE InspectBefore(p) \/ LockExecution(p) \/ Inspect(p) \/ ExecutionSteps(p)
    BY <2>1 DEF InspectBefore, LockExecution, Inspect, ExecutionSteps
  <2>2. CASE StartOperation(p) \/ ClaimStep(p) \/ RecordObservation(p) \/ CompleteStep(p)
    BY <2>2 DEF StartOperation, ClaimStep, RecordObservation, CompleteStep
  <2>3. CASE Ensure(p) \/ EnsureFails(p)
    BY <2>3 DEF Ensure, EnsureFails
  <2>4. CASE FailStep(p) \/ CompleteOperation(p) \/ Report(p)
    BY <2>4 DEF FailStep, CompleteOperation, Report
  <2> QED BY <1>2, <2>1, <2>2, <2>3, <2>4 DEF Run
<1>3. ASSUME NEW p \in Proc, Crash(p) \/ SessionLoss(p) PROVE Busy'
  BY <1>3 DEF Crash, SessionLoss
<1>4. CASE Drift \/ UNCHANGED vars
  BY <1>4 DEF Drift, vars
<1> QED BY <1>1, <1>2, <1>3, <1>4 DEF Next

(* While p has a preparation transaction under the lock, nobody executes;  *)
(* while p executes, nobody else does.                                     *)
LEMMA Alone ==
    ASSUME Serial, LockIsSafe, NEW p \in Proc, pc[p] \in Holding, NEW q \in Proc, q # p
    PROVE  current[q] = None
<1>1. lock = p
  BY DEF Serial, Exclusion, ExclusiveMutator
<1>2. current[q] # None => lock = q
  BY DEF Serial, Busy, Exclusion, ExclusiveMutator, Holding
<1> QED BY <1>1, <1>2

(* A lost session stays counted, so LockIsSafe after a step was true       *)
(* before it.                                                              *)
LEMMA LossesGrow == losses \in Nat /\ [Next]_vars => losses' \in {losses, losses + 1}
<1> SUFFICES ASSUME losses \in Nat, [Next]_vars PROVE losses' \in {losses, losses + 1}
  OBVIOUS
<1> USE DEF faults
<1>1. ASSUME NEW p \in Proc, Prepare(p) PROVE losses' = losses
  BY <1>1 DEF Prepare, BeginTx, LockPreparation, RefuseApply, PrepareExecutableApply,
              PrepareExecutableDelete, PrepareExecutableReconcile, PrepareNotFound
<1>2. ASSUME NEW p \in Proc, Run(p) PROVE losses' = losses
  BY <1>2 DEF Run, InspectBefore, LockExecution, Inspect, ExecutionSteps, StartOperation,
              ClaimStep, Ensure, EnsureFails, RecordObservation, CompleteStep, FailStep,
              CompleteOperation, Report
<1>3. ASSUME NEW p \in Proc, Crash(p) \/ SessionLoss(p) PROVE losses' \in {losses, losses + 1}
  BY <1>3 DEF Crash, SessionLoss
<1>4. CASE Drift \/ UNCHANGED vars
  BY <1>4 DEF Drift, vars
<1> QED BY <1>1, <1>2, <1>3, <1>4 DEF Next

(* A preparation that could create a newer operation holds the lock, so    *)
(* nobody executes meanwhile; the executor itself picks the newest.        *)
LEMMA ExecutesNewestStep == Serial /\ [Next]_vars => ExecutesNewest'
<1> DEFINE Follows(q) == /\ current[q] = newest
                         /\ pc[q] # "report" => operations[newest] # "succeeded"
<1> SUFFICES ASSUME Serial, [Next]_vars, LockIsSafe', NEW q \in Proc, current'[q] # None
             PROVE  Follows(q)'
  BY DEF ExecutesNewest
<1> USE DEF journal, work, Goto
<1>0. LockIsSafe
  BY LossesGrow DEF LockIsSafe, Serial, Exclusion
<1>1. current[q] # None => Follows(q)
  BY <1>0 DEF Serial, ExecutesNewest
<1>2. /\ pc \in [Proc -> Label] /\ current \in [Proc -> Operation \cup {None}]
      /\ newest \in DOMAIN operations \cup {None}
      /\ operations \in [DOMAIN operations -> OperationStatus]
  BY DEF Serial, Wellformed, TypeOK, ProcessType, JournalType
<1>3. ASSUME NEW p \in Proc, pc[p] \notin Executing PROVE current[p] = None
  BY <1>3 DEF Serial, Busy
<1>4. ASSUME NEW p \in Proc, Prepare(p) PROVE Follows(q)'
  <2>1. CASE PrepareExecutableApply(p) \/ PrepareExecutableDelete(p) \/ PrepareExecutableReconcile(p)
    <3>1. pc[p] = "preparing" /\ current' = current
      BY <2>1 DEF PrepareExecutableApply, PrepareExecutableDelete, PrepareExecutableReconcile
    <3>2. current[p] = None
      BY <1>3, <3>1 DEF Executing
    <3>3. q # p => current[q] = None
      BY <1>0, <3>1, Alone DEF Holding
    <3> QED BY <3>1, <3>2, <3>3
  <2>2. CASE BeginTx(p) \/ LockPreparation(p) \/ RefuseApply(p) \/ PrepareNotFound(p)
    <3>1. pc[p] \notin Executing
      BY <2>2 DEF BeginTx, LockPreparation, RefuseApply, PrepareNotFound, Executing
    <3>2. current[p] = None
      BY <1>3, <3>1
    <3>3. /\ operations' = operations /\ newest' = newest
          /\ current' = current \/ current' = [current EXCEPT ![p] = None]
          /\ \E l : pc' = [pc EXCEPT ![p] = l]
      BY <2>2 DEF BeginTx, LockPreparation, RefuseApply, PrepareNotFound, Return, Forget
    <3> QED BY <1>1, <1>2, <3>2, <3>3
  <2> QED BY <1>4, <2>1, <2>2 DEF Prepare
<1>5. ASSUME NEW p \in Proc, Run(p) PROVE Follows(q)'
  <2>1. CASE InspectBefore(p) \/ LockExecution(p)
    <3>1. current[p] = None
      BY <1>3, <2>1 DEF InspectBefore, LockExecution, Executing
    <3>2. /\ operations' = operations /\ newest' = newest
          /\ current' = current \/ current' = [current EXCEPT ![p] = None]
          /\ \E l : pc' = [pc EXCEPT ![p] = l]
      BY <2>1 DEF InspectBefore, LockExecution, Return, Forget
    <3> QED BY <1>1, <1>2, <3>1, <3>2
  <2>2. CASE pc[p] \in Executing
    <3>1. q # p => current[q] = None
      BY <1>0, <2>2, Alone DEF Holding
    <3>2. q # p => current'[q] = current[q]
      BY <1>2, <1>5 DEF Run, InspectBefore, LockExecution, Inspect, ExecutionSteps, StartOperation,
             ClaimStep, Ensure, EnsureFails, Answer, RecordObservation, CompleteStep, FailStep,
             CompleteOperation, Report, Return, Forget
    <3>3. q = p
      BY <3>1, <3>2
    <3>4. CASE Inspect(p)
      BY <1>2, <3>3, <3>4 DEF Inspect, Return, Forget
    <3>5. CASE StartOperation(p)
      BY <1>1, <1>2, <3>3, <3>5 DEF StartOperation
    <3>6. CASE CompleteOperation(p)
      BY <1>1, <1>2, <3>3, <3>6 DEF CompleteOperation
    <3>7. CASE FailStep(p) \/ Report(p)
      BY <1>2, <3>3, <3>7 DEF FailStep, Report, Return, Forget
    <3>8. CASE ExecutionSteps(p) \/ ClaimStep(p) \/ Ensure(p) \/ EnsureFails(p)
               \/ RecordObservation(p) \/ CompleteStep(p)
      <4>1. /\ operations' = operations /\ newest' = newest
            /\ current' = current \/ current' = [current EXCEPT ![p] = None]
            /\ pc[p] # "report"
        BY <3>8 DEF ExecutionSteps, ClaimStep, Ensure, EnsureFails, Answer, RecordObservation,
               CompleteStep, Return, Forget
      <4> QED BY <1>1, <1>2, <3>3, <4>1
    <3> QED BY <1>5, <2>2, <3>4, <3>5, <3>6, <3>7, <3>8
            DEF Run, InspectBefore, LockExecution, Executing
  <2>3. InspectBefore(p) \/ LockExecution(p) \/ pc[p] \in Executing
    BY <1>5 DEF Run, Inspect, ExecutionSteps, StartOperation, ClaimStep, Ensure, EnsureFails,
           RecordObservation, CompleteStep, FailStep, CompleteOperation, Report, Executing
  <2> QED BY <2>1, <2>2, <2>3
<1>6. ASSUME NEW p \in Proc, Crash(p) PROVE Follows(q)'
  BY <1>1, <1>2, <1>6 DEF Crash, Forget
<1>7. ASSUME NEW p \in Proc, SessionLoss(p) PROVE Follows(q)'
  BY <1>1, <1>7 DEF SessionLoss
<1>8. CASE Drift \/ UNCHANGED vars
  BY <1>1, <1>8 DEF Drift, vars
<1> QED BY <1>4, <1>5, <1>6, <1>7, <1>8 DEF Next

(* The conjunction is inductive.                                           *)
LEMMA SerialStep == Serial /\ [Next]_vars => Serial'
BY WellformedStep, ExclusionStep, BusyStep, ExecutesNewestStep DEF Serial

(***************************************************************************)
(* Whoever executes, executes the newest operation, and that is not yet    *)
(* succeeded until the last report, while no lock session is lost.         *)
(***************************************************************************)
THEOREM NewestIsExecuted == Spec => []ExecutesNewest
<1>1. Serial => ExecutesNewest BY DEF Serial
<1> QED BY SerialInit, SerialStep, <1>1, PTL DEF Spec

(***************************************************************************)
(* Only the newest operation makes progress.                               *)
(***************************************************************************)
LEMMA AdvanceNewestStep == Serial /\ [Next]_vars => AdvanceNewest
<1> SUFFICES ASSUME Serial, [Next]_vars, LockIsSafe, NEW o \in DOMAIN operations,
                    NEW i \in DOMAIN steps[o], steps'[o][i] \notin {steps[o][i], "pending"}
             PROVE  o = newest
  BY DEF AdvanceNewest
<1> USE DEF journal
<1>1. ASSUME NEW p \in Proc, current[p] # None,
             NEW n, NEW status, steps' = [steps EXCEPT ![current[p]][n] = status]
      PROVE  o = newest
  <2>1. steps'[o] # steps[o]
    OBVIOUS
  <2>2. current[p] = newest
    BY <1>1 DEF Serial, ExecutesNewest
  <2>3. DOMAIN steps = DOMAIN operations /\ steps = [k \in DOMAIN steps |-> steps[k]]
    BY DEF Serial, Wellformed, TypeOK, JournalType
  <2> QED BY <1>1, <2>1, <2>2, <2>3
<1>2. ASSUME NEW p \in Proc, ClaimStep(p) \/ CompleteStep(p) \/ FailStep(p) PROVE o = newest
  <2>1. current[p] # None
    BY <1>2 DEF ClaimStep, CompleteStep, FailStep, Serial, Wellformed, Progress, Executing
  <2>2. steps' # steps
    OBVIOUS
  <2>3. \E n, status : steps' = [steps EXCEPT ![current[p]][n] = status]
    BY <1>2, <2>2 DEF ClaimStep, CompleteStep, FailStep
  <2> QED BY <1>1, <2>1, <2>3
<1>3. ASSUME NEW p \in Proc, NEW k, NEW statuses, NEW rows, Persist(p, k, statuses, rows),
             rows[o][i] \in {steps[o][i], "pending"}
      PROVE  FALSE
  BY <1>3 DEF Persist, Serial, Wellformed, TypeOK, JournalType
<1>4. ASSUME NEW p \in Proc, Prepare(p) PROVE FALSE
  <2>1. CASE PrepareExecutableApply(p)
    BY <1>3, <2>1 DEF PrepareExecutableApply
  <2>2. CASE PrepareExecutableDelete(p)
    BY <1>3, <2>2 DEF PrepareExecutableDelete
  <2>3. CASE PrepareExecutableReconcile(p)
    <3> DEFINE k == BuildExecutable("reconcile", Len(declared), Identity(alloc))
               rows == IF k \in DOMAIN operations
                       THEN [steps EXCEPT ![k] = [j \in DOMAIN @ |-> "pending"]] ELSE steps
    <3>1. \E statuses : Persist(p, k, statuses, rows)
      BY <2>3 DEF PrepareExecutableReconcile
    <3>2. rows[o][i] \in {steps[o][i], "pending"}
      BY DEF Serial, Wellformed, TypeOK, JournalType
    <3> HIDE DEF rows
    <3> QED BY <1>3, <3>1, <3>2
  <2>4. CASE BeginTx(p) \/ LockPreparation(p) \/ RefuseApply(p) \/ PrepareNotFound(p)
    BY <2>4 DEF BeginTx, LockPreparation, RefuseApply, PrepareNotFound
  <2> QED BY <1>4, <2>1, <2>2, <2>3, <2>4 DEF Prepare
<1>5. ASSUME NEW p \in Proc, Run(p) PROVE o = newest
  BY <1>2, <1>5 DEF Run, InspectBefore, LockExecution, Inspect, ExecutionSteps, StartOperation,
         Ensure, EnsureFails, Answer, RecordObservation, CompleteOperation, Report
<1>6. ASSUME NEW p \in Proc, Crash(p) \/ SessionLoss(p) PROVE FALSE
  BY <1>6 DEF Crash, SessionLoss
<1>7. ~Drift /\ ~UNCHANGED vars
  BY DEF Drift, vars
<1> QED BY <1>4, <1>5, <1>6, <1>7 DEF Next

(* In every behaviour, as long as no lock session was lost, a step row     *)
(* changes to anything but pending only for the newest operation.          *)
THEOREM NewestAdvances == Spec => OnlyNewestAdvances
<1>1. Serial /\ [Next]_vars => [AdvanceNewest]_vars
  BY AdvanceNewestStep
<1> QED BY SerialInit, SerialStep, <1>1, PTL DEF Spec, OnlyNewestAdvances
--------------------------------------------------------------------------------
(***************************************************************************)
(* Driver calls.  Execution takes a call in one step: these are the        *)
(* answers that module DriverCall allows, all of them and no others.  What *)
(* Drivers_proofs shows of the commands behind a call is about the calls   *)
(* of this executor for that reason.                                       *)
(***************************************************************************)
(* The call that p is in, as DriverCall sees it: it has begun, and the     *)
(* host is as it was before.                                               *)
DC(p) == INSTANCE DriverCall WITH
             call   <- [step |-> StepName(p), target |-> TargetOf(current[p])],
             before <- host,
             answer <- result[p]

LEMMA SameEnsured == \A p, step, t, h : DC(p)!Ensured(step, t, h) = Ensured(step, t, h)
BY DEF DC!Ensured, DC!EnsureImage, DC!EnsureStorage, DC!EnsureStorageAbsent, DC!EnsureSeed,
       DC!EnsureSeedAbsent, DC!EnsureConfig, DC!EnsurePower, DC!EnsureVMAbsent, DC!VMExists,
       DC!EnsureKeaReservation, DC!EnsureKeaAbsent, DC!EnsurePFRules, DC!EnsurePFAbsent,
       Ensured, EnsureImage, EnsureStorage, EnsureStorageAbsent, EnsureSeed, EnsureSeedAbsent,
       EnsureConfig, EnsurePower, EnsureVMAbsent, VMExists, EnsureKeaReservation, EnsureKeaAbsent,
       EnsurePFRules, EnsurePFAbsent

LEMMA SameAnswers ==
    \A p, step, t, h :
        /\ DC(p)!Blocked(step, t, h) = Blocked(step, t, h)
        /\ DC(p)!MarkerMissing(step, t, h) = MarkerMissing(step, t, h)
        /\ DC(p)!Drifted(step, t, h) = Drifted(step, t, h)
        /\ DC(p)!Skips(step) = Skips(step)
        /\ DC(p)!Refusable(step, h) = Refusable(step, h)
        /\ DC(p)!HalfStored(t, h) = HalfStored(t, h)
        /\ DC(p)!ReadsBack = ReadsBack
BY DEF DC!Blocked, DC!ForeignStorage, DC!VMExists, DC!MarkerMissing, DC!Drifted, DC!ObservedPresent,
       DC!ObservedAbsent, DC!Skips, DC!Refusable, DC!HalfStored, DC!ReadsBack,
       Blocked, ForeignStorage, VMExists, MarkerMissing, Drifted, ObservedPresent, ObservedAbsent,
       Skips, Refusable, HalfStored, ReadsBack

LEMMA SameTorn == \A p, step, t, h : DC(p)!Torn(step, t, h) = Torn(step, t, h)
BY SameEnsured, SameAnswers
   DEF DC!Torn, DC!TornStorage, DC!TornVM, DC!VMExists, DC!TornKea, DC!EnsureKeaAbsent,
       Torn, TornStorage, TornVM, VMExists, TornKea, EnsureKeaAbsent

(* What the executor makes of an answer is the same for all of them.       *)
Answered(p)  == Answer(p, result'[p], host')
DCAnswers(p) == DC(p)!Answers(StepName(p), TargetOf(current[p]))
DCErrs(p)    == DC(p)!Errs(StepName(p), TargetOf(current[p]))

(* Ensure is what DriverCall says of a call whose commands did what they   *)
(* said.                                                                   *)
LEMMA EnsureIsAnswer ==
    ASSUME Wellformed, NEW p \in Proc, pc[p] = "ensure"
    PROVE  Ensure(p) <=> Answered(p) /\ DCAnswers(p) /\ UNCHANGED faults
<1>1. \A outcome, h : Answer(p, outcome, h) => result'[p] = outcome /\ host' = h /\ Answered(p)
      BY DEF Answer, Answered, Wellformed, TypeOK, ProcessType
<1> QED BY <1>1, SameEnsured, SameAnswers DEF Ensure, Answered, DCAnswers, DC!Answers

(* EnsureFails is what it says of the others, while faults are left.       *)
LEMMA EnsureFailsIsError ==
    ASSUME Wellformed, NEW p \in Proc, pc[p] = "ensure"
    PROVE  EnsureFails(p) <=>
               /\ Answered(p) /\ DCErrs(p)
               /\ failures < MaxFailures /\ FaultsLeft
               /\ failures' = failures + 1 /\ UNCHANGED <<crashes, losses, drifts>>
<1>1. \A outcome, h : Answer(p, outcome, h) => result'[p] = outcome /\ host' = h /\ Answered(p)
      BY DEF Answer, Answered, Wellformed, TypeOK, ProcessType
<1> QED BY <1>1, SameTorn, SameAnswers DEF EnsureFails, Answered, DCErrs, DC!Errs

(* How a call of p ends: with an answer, with an error, or killed.         *)
EndOfCall(p) ==
    pc[p] = "ensure" /\ pc'[p] # "ensure" =>
        \/ DCAnswers(p) \/ DCErrs(p)
        \/ pc'[p] = "idle" /\ host' \in DC(p)!Torn(StepName(p), TargetOf(current[p]), host)

LEMMA EndOfCallStep ==
    ASSUME Wellformed, [Next]_vars, NEW p \in Proc
    PROVE  EndOfCall(p)
<1> SUFFICES ASSUME pc[p] = "ensure", pc'[p] # "ensure"
             PROVE  \/ DCAnswers(p) \/ DCErrs(p)
                    \/ /\ pc'[p] = "idle"
                       /\ host' \in DC(p)!Torn(StepName(p), TargetOf(current[p]), host)
    BY DEF EndOfCall
<1>1. pc \in [Proc -> Label] BY DEF Wellformed, TypeOK, ProcessType
<1>2. ASSUME NEW q \in Proc, NEW label, Goto(q, label) PROVE q = p
      BY <1>1, <1>2 DEF Goto
<1>3. ASSUME NEW q \in Proc, Prepare(q) PROVE FALSE
  <2>1. \E label : Goto(q, label)
        BY <1>3 DEF Prepare, BeginTx, LockPreparation, PrepareExecutableApply, RefuseApply,
                   PrepareExecutableDelete, PrepareExecutableReconcile, PrepareNotFound, Return
  <2>2. pc[q] \in {"idle", "again"} \cup Preparing
        BY <1>3 DEF Prepare, BeginTx, LockPreparation, PrepareExecutableApply, RefuseApply,
                   PrepareExecutableDelete, PrepareExecutableReconcile, PrepareNotFound, Preparing
  <2> QED BY <1>2, <2>1, <2>2 DEF Preparing
<1>4. ASSUME NEW q \in Proc, Run(q) PROVE q = p /\ (Ensure(p) \/ EnsureFails(p))
  <2>1. CASE Ensure(q) \/ EnsureFails(q)
        BY <1>2, <2>1 DEF Ensure, EnsureFails, Answer
  <2>2. CASE InspectBefore(q) \/ LockExecution(q) \/ Inspect(q) \/ ExecutionSteps(q)
        BY <1>2, <2>2 DEF InspectBefore, LockExecution, Inspect, ExecutionSteps, Return
  <2>3. CASE StartOperation(q) \/ ClaimStep(q) \/ RecordObservation(q) \/ CompleteStep(q)
        BY <1>2, <2>3 DEF StartOperation, ClaimStep, RecordObservation, CompleteStep, Return
  <2>4. CASE FailStep(q) \/ CompleteOperation(q) \/ Report(q)
        BY <1>2, <2>4 DEF FailStep, CompleteOperation, Report, Return
  <2> QED BY <1>4, <2>1, <2>2, <2>3, <2>4 DEF Run
<1>5. ASSUME NEW q \in Proc, Crash(q)
      PROVE  /\ pc'[p] = "idle"
             /\ host' \in DC(p)!Torn(StepName(p), TargetOf(current[p]), host)
  <2>1. q = p BY <1>2, <1>5 DEF Crash
  <2> QED BY <1>1, <1>5, <2>1, SameTorn DEF Crash, Interrupted, Goto
<1>6. ~(\E q \in Proc : SessionLoss(q)) /\ ~Drift /\ ~UNCHANGED vars
      BY DEF SessionLoss, Drift, vars
<1> QED BY <1>3, <1>4, <1>5, <1>6, EnsureIsAnswer, EnsureFailsIsError DEF Next

(* In every behaviour a call ends as DriverCall allows: nothing that the   *)
(* proofs about drivers leave out happens to a host under an executor.     *)
THEOREM CallsAreDriverCalls == Spec => [][\A p \in Proc : EndOfCall(p)]_vars
<1> DEFINE Ends == \A p \in Proc : EndOfCall(p)
<1>1. Wellformed /\ [Next]_vars => [Ends]_vars BY EndOfCallStep
<1> QED BY <1>1, WellformedInit, WellformedStep, PTL DEF Spec
===============================================================================
