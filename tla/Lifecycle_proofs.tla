---------------------------- MODULE Lifecycle_proofs ----------------------------
(***************************************************************************)
(* The order of steps, the finality of success, the refinement of module   *)
(* Lifecycle by module Execution, and the evidence behind the state of a   *)
(* resource, for every set of processes, manifests, identities and         *)
(* commands and every bound on faults.                                     *)
(*                                                                         *)
(* All of it rests on one more fact than Execution_proofs has: what an     *)
(* executor took for unsatisfied when it read the steps is unsatisfied     *)
(* until it has satisfied it itself.  The evidence needs in addition what  *)
(* Host_proofs says of the calls of one plan: no step takes away what a    *)
(* step before it has shown.                                               *)
(***************************************************************************)
EXTENDS Execution_proofs

Running  == {"start", "step", "ensure", "record", "settle"}
Claimed  == {"ensure", "record", "settle"}

Snapshot ==
    LockIsSafe => \A p \in Proc :
        /\ pc[p] \in Running => todo[p] = Unsatisfied(current[p])
        /\ pc[p] \in Claimed => todo[p] # {}

Orderly == Serial /\ ReleasedIffArchived /\ Snapshot /\ StepsInOrder

(* No operation has more than ten steps.                                   *)
LEMMA PlanLength == \A a \in Action : \E n \in {1, 7, 9, 10} : DOMAIN Plan(a) = 1..n
<1>1. DOMAIN ResourceSteps = 1..9 /\ DOMAIN DeleteSteps = 1..7 /\ DOMAIN ReconcileSteps = 1..1
  BY DEF ResourceSteps, DeleteSteps, ReconcileSteps
<1>2. DOMAIN (<<"service/ensure-ready">> \o ResourceSteps) = 1..10
  BY DEF ResourceSteps
<1>3. DOMAIN ApplySteps \in {1..9, 1..10}
  BY <1>1, <1>2 DEF ApplySteps
<1> QED BY <1>1, <1>3 DEF Plan, Action

(* A set of sequence numbers has a least one, the next step of a run.      *)
LEMMA LeastStep ==
    ASSUME NEW S, S \subseteq 1..10, S # {}
    PROVE  LET n == CHOOSE i \in S : \A j \in S : i <= j
           IN  n \in S /\ \A j \in S : n <= j
<1> DEFINE Below(n) == \A i \in S : i > n
<1>1. SUFFICES ASSUME ~\E i \in S : \A j \in S : i <= j PROVE FALSE
  OBVIOUS
<1>2. ASSUME NEW n \in 0..9, Below(n) PROVE Below(n + 1)
  <2>1. n + 1 \notin S
    BY <1>1, <1>2
  <2> QED BY <1>2, <2>1
<1>3. Below(0)
  OBVIOUS
<1>4. Below(1) BY <1>2, <1>3
<1>5. Below(2) BY <1>2, <1>4
<1>6. Below(3) BY <1>2, <1>5
<1>7. Below(4) BY <1>2, <1>6
<1>8. Below(5) BY <1>2, <1>7
<1>9. Below(6) BY <1>2, <1>8
<1>10. Below(7) BY <1>2, <1>9
<1>11. Below(8) BY <1>2, <1>10
<1>12. Below(9) BY <1>2, <1>11
<1>13. Below(10) BY <1>2, <1>12
<1>14. PICK i \in S : i > 10 BY <1>13
<1> QED BY <1>14

(* The step rows of an operation.                                          *)
LEMMA StepRows ==
    ASSUME Wellformed, NEW o \in DOMAIN operations
    PROVE  /\ o \in Operation /\ DOMAIN steps[o] = DOMAIN Plan(o.action)
           /\ steps[o] \in [DOMAIN Plan(o.action) -> StepStatus]
           /\ DOMAIN steps[o] \subseteq 1..10
           /\ DOMAIN steps = DOMAIN operations
<1>1. o \in Operation /\ steps[o] \in [DOMAIN Plan(o.action) -> StepStatus] /\ DOMAIN steps = DOMAIN operations
  BY DEF Wellformed, TypeOK, JournalType
<1>2. o.action \in Action
  BY <1>1 DEF Operation
<1> QED BY <1>1, <1>2, PlanLength

IsFirst(n, o) == n \in Unsatisfied(o) /\ \A i \in Unsatisfied(o) : n <= i

(* While a run goes on and the lock is safe, its next step is the first    *)
(* that is not satisfied.                                                  *)
LEMMA NextStepIsFirst ==
    ASSUME Orderly, LockIsSafe, NEW p \in Proc, pc[p] \in Running, todo[p] # {}
    PROVE  /\ current[p] = newest /\ newest \in DOMAIN operations /\ newest # None
           /\ todo[p] = Unsatisfied(newest)
           /\ IsFirst(NextStep(p), newest)
<1>1. current[p] = newest /\ newest \in DOMAIN operations /\ newest # None
  BY DEF Orderly, Serial, ExecutesNewest, Wellformed, Progress, Running, Executing
<1>2. todo[p] = Unsatisfied(newest)
  BY <1>1 DEF Orderly, Snapshot
<1>3. todo[p] \subseteq 1..10
  BY <1>1, <1>2, StepRows DEF Orderly, Serial, Unsatisfied
<1> QED BY <1>1, <1>2, <1>3, LeastStep DEF NextStep, IsFirst

(* A preparation creates steps that are all pending, or resets all of them.*)
LEMMA PersistKeepsOrder ==
    ASSUME Wellformed, LockIsSafe, StepsInOrder,
           NEW p \in Proc, NEW o, NEW statuses, NEW rows, Persist(p, o, statuses, rows),
           DOMAIN statuses = DOMAIN operations,
           \A k \in DOMAIN operations :
              \/ rows[k] = steps[k]
              \/ \A i \in DOMAIN rows[k] : rows[k][i] = "pending"
    PROVE  StepsInOrder'
<1> USE DEF StepsInOrder, Satisfied
<1>1. CASE o \in DOMAIN operations
  <2>1. operations' = statuses /\ steps' = rows
    BY <1>1 DEF Persist
  <2> QED BY <2>1
<1>2. CASE o \notin DOMAIN operations
  <2>1. DOMAIN operations' = DOMAIN operations \cup {o} /\ DOMAIN steps = DOMAIN operations
    BY <1>2 DEF Persist, Wellformed, TypeOK, JournalType
  <2>2. steps' = [k \in DOMAIN steps \cup {o} |->
                     IF k = o THEN [i \in DOMAIN Plan(o.action) |-> "pending"] ELSE steps[k]]
    BY <1>2 DEF Persist
  <2> QED BY <1>2, <2>1, <2>2
<1> QED BY <1>1, <1>2

(* The three transactions that write the journal, while the lock is safe:  *)
(* nobody runs.                                                            *)
LEMMA PersistingKeepsOrderly ==
    ASSUME Orderly, LockIsSafe, NEW p \in Proc,
           \/ PrepareExecutableApply(p) \/ PrepareExecutableDelete(p)
           \/ PrepareExecutableReconcile(p)
    PROVE  Snapshot' /\ StepsInOrder'
<1>1. Wellformed /\ StepsInOrder /\ pc \in [Proc -> Label] /\ pc[p] = "preparing"
  BY DEF Orderly, Serial, Exclusion, PrepareExecutableApply, PrepareExecutableDelete,
         PrepareExecutableReconcile
<1>2. ASSUME NEW q \in Proc PROVE pc'[q] \notin Running
  <2>1. q # p => pc[q] \notin Running
    BY <1>1 DEF Orderly, Serial, Exclusion, ExclusiveMutator, Holding, Executing, Running
  <2>2. \E l \in {"run", "again"} : pc' = [pc EXCEPT ![p] = l]
    BY DEF PrepareExecutableApply, PrepareExecutableDelete, PrepareExecutableReconcile, Goto
  <2> QED BY <1>1, <2>1, <2>2 DEF Running
<1>3. Snapshot'
  BY <1>2 DEF Snapshot, Running, Claimed
<1>4. CASE PrepareExecutableApply(p)
  <2>1. \E o : Persist(p, o, operations, steps)
    BY <1>4 DEF PrepareExecutableApply, OnConflict
  <2> QED BY <1>1, <1>3, <2>1, PersistKeepsOrder
<1>5. CASE PrepareExecutableDelete(p)
  <2>1. \E o : Persist(p, o, operations, steps)
    BY <1>5 DEF PrepareExecutableDelete, OnConflict
  <2> QED BY <1>1, <1>3, <2>1, PersistKeepsOrder
<1>6. CASE PrepareExecutableReconcile(p)
  <2> DEFINE o == BuildExecutable("reconcile", Len(declared), Identity(alloc))
             statuses == IF o \in DOMAIN operations /\ operations[o] # "running"
                         THEN [operations EXCEPT ![o] = "pending"] ELSE operations
             rows == IF o \in DOMAIN operations
                     THEN [steps EXCEPT ![o] = [i \in DOMAIN @ |-> "pending"]] ELSE steps
  <2>1. Persist(p, o, statuses, rows)
    BY <1>6 DEF PrepareExecutableReconcile
  <2>2. DOMAIN statuses = DOMAIN operations
    OBVIOUS
  <2>3. \A k \in DOMAIN operations :
           \/ rows[k] = steps[k]
           \/ \A i \in DOMAIN rows[k] : rows[k][i] = "pending"
    BY <1>1 DEF Wellformed, TypeOK, JournalType
  <2> HIDE DEF o, statuses, rows
  <2> QED BY <1>1, <1>3, <2>1, <2>2, <2>3, PersistKeepsOrder
<1> QED BY <1>4, <1>5, <1>6

(* A step that leaves the step rows alone keeps the order, and the         *)
(* snapshots of all the processes it leaves alone.                         *)
LEMMA FrameKeepsOrderly ==
    ASSUME Orderly, LockIsSafe, NEW p \in Proc, steps' = steps,
           DOMAIN operations' = DOMAIN operations,
           \A q \in Proc : q # p => pc'[q] = pc[q] /\ todo'[q] = todo[q] /\ current'[q] = current[q],
           pc'[p] \in Running => todo'[p] = Unsatisfied(current'[p]),
           pc'[p] \in Claimed => todo'[p] # {}
    PROVE  Snapshot' /\ StepsInOrder'
<1>1. StepsInOrder'
  BY DEF Orderly, StepsInOrder
<1>2. \A o : {i \in DOMAIN steps'[o] : ~Satisfied(steps'[o][i])} = Unsatisfied(o)
  BY DEF Unsatisfied
<1>3. Snapshot'
  BY <1>2 DEF Orderly, Snapshot, Unsatisfied
<1> QED BY <1>1, <1>3

(* A process that writes its own next step, the first unsatisfied one.     *)
LEMMA WritingKeepsOrderly ==
    ASSUME Orderly, LockIsSafe, NEW p \in Proc, pc[p] \in Running, todo[p] # {},
           NEW status \in StepStatus,
           steps' = [steps EXCEPT ![current[p]][NextStep(p)] = status],
           DOMAIN operations' = DOMAIN operations,
           \A q \in Proc : q # p => pc'[q] = pc[q],
           pc'[p] \in Running =>
              /\ current'[p] = current[p]
              /\ todo'[p] = IF Satisfied(status) THEN todo[p] \ {NextStep(p)} ELSE todo[p],
           pc'[p] \in Claimed => ~Satisfied(status)
    PROVE  Snapshot' /\ StepsInOrder'
<1>1. /\ current[p] = newest /\ newest \in DOMAIN operations
      /\ todo[p] = Unsatisfied(newest) /\ IsFirst(NextStep(p), newest)
  BY NextStepIsFirst
<1>2. Wellformed /\ StepsInOrder
  BY DEF Orderly, Serial
<1>3. PICK c \in DOMAIN operations, n \in Unsatisfied(newest) : c = newest /\ n = NextStep(p)
  BY <1>1 DEF IsFirst
<1>4. /\ DOMAIN steps = DOMAIN operations /\ DOMAIN steps[c] \subseteq 1..10
      /\ steps[c] \in [DOMAIN Plan(c.action) -> StepStatus]
  BY <1>2, StepRows
<1>5. n \in DOMAIN steps[c] /\ ~Satisfied(steps[c][n])
  BY <1>1, <1>3 DEF IsFirst, Unsatisfied
<1>6. /\ \A o \in DOMAIN operations : o # c => steps'[o] = steps[o]
      /\ steps'[c] = [steps[c] EXCEPT ![n] = status]
  BY <1>1, <1>3, <1>4
<1>7. /\ DOMAIN steps'[c] = DOMAIN steps[c]
      /\ \A i \in DOMAIN steps[c] : steps'[c][i] = IF i = n THEN status ELSE steps[c][i]
  BY <1>4, <1>6
<1>8. ASSUME NEW i \in DOMAIN steps[c], NEW j \in DOMAIN steps[c], i < j, Satisfied(steps'[c][j])
      PROVE  Satisfied(steps'[c][i])
  <2>1. j # n => Satisfied(steps[c][i])
    BY <1>2, <1>7, <1>8 DEF StepsInOrder
  <2>2. j = n => Satisfied(steps[c][i])
    BY <1>1, <1>3, <1>4, <1>8 DEF IsFirst, Unsatisfied
  <2>3. i # n
    BY <1>5, <2>1, <2>2
  <2> QED BY <1>7, <2>1, <2>2, <2>3
<1>9. StepsInOrder'
  BY <1>2, <1>6, <1>7, <1>8 DEF StepsInOrder
<1>10. ASSUME NEW q \in Proc, q # p PROVE pc'[q] \notin Running
  BY <1>10 DEF Orderly, Serial, Exclusion, ExclusiveMutator, Holding, Executing, Running
<1>11. ASSUME pc'[p] \in Running
       PROVE  todo'[p] = {i \in DOMAIN steps'[current'[p]] : ~Satisfied(steps'[current'[p]][i])}
  <2>1. {i \in DOMAIN steps'[c] : ~Satisfied(steps'[c][i])} =
            IF Satisfied(status) THEN Unsatisfied(c) \ {n} ELSE Unsatisfied(c)
    BY <1>5, <1>7 DEF Unsatisfied
  <2>2. current'[p] = c
    BY <1>1, <1>3, <1>11
  <2> QED BY <1>1, <1>3, <1>11, <2>1, <2>2
<1>12. ASSUME pc'[p] \in Claimed PROVE todo'[p] # {}
  BY <1>12 DEF Running, Claimed
<1>13. Snapshot'
  BY <1>10, <1>11, <1>12 DEF Snapshot, Running, Claimed, Unsatisfied
<1> QED BY <1>9, <1>13

(* Every step keeps the order and the snapshots.                          *)
LEMMA OrderlyStep == Orderly /\ [Next]_vars => Orderly'
<1> SUFFICES ASSUME Orderly, [Next]_vars, LockIsSafe' PROVE Snapshot' /\ StepsInOrder'
  <2>1. Orderly /\ [Next]_vars => Serial' /\ ReleasedIffArchived'
    BY SerialStep, ReleasedIffArchivedStep DEF Orderly, Serial
  <2>2. ~LockIsSafe' => Snapshot' /\ StepsInOrder'
    BY DEF Snapshot, StepsInOrder
  <2> QED BY <2>1, <2>2 DEF Orderly
<1>1. LockIsSafe
  BY LossesGrow DEF LockIsSafe, Orderly, Serial, Exclusion
<1>2. /\ pc \in [Proc -> Label] /\ todo \in [Proc -> SUBSET Nat]
      /\ current \in [Proc -> Operation \cup {None}]
      /\ operations \in [DOMAIN operations -> OperationStatus]
  BY DEF Orderly, Serial, Wellformed, TypeOK, ProcessType, JournalType
<1> USE DEF Goto, Return, Forget, Answer, journal, work, Running, Claimed
<1>3. ASSUME NEW p \in Proc, Prepare(p) PROVE Snapshot' /\ StepsInOrder'
  <2>1. CASE PrepareExecutableApply(p) \/ PrepareExecutableDelete(p) \/ PrepareExecutableReconcile(p)
    BY <1>1, <2>1, PersistingKeepsOrderly
  <2>2. CASE BeginTx(p) \/ LockPreparation(p) \/ RefuseApply(p) \/ PrepareNotFound(p)
    BY <1>1, <1>2, <2>2, FrameKeepsOrderly DEF BeginTx, LockPreparation, RefuseApply, PrepareNotFound
  <2> QED BY <1>3, <2>1, <2>2 DEF Prepare
<1>4. ASSUME NEW p \in Proc, Run(p) PROVE Snapshot' /\ StepsInOrder'
  <2>1. CASE InspectBefore(p) \/ LockExecution(p) \/ Inspect(p) \/ Report(p)
    BY <1>1, <1>2, <2>1, FrameKeepsOrderly DEF InspectBefore, LockExecution, Inspect, Report
  <2>2. CASE ExecutionSteps(p)
    BY <1>1, <1>2, <2>2, FrameKeepsOrderly DEF ExecutionSteps
  <2>3. ASSUME pc[p] \in Running
        PROVE  todo[p] = Unsatisfied(current[p]) /\ (pc[p] \in Claimed => todo[p] # {})
    BY <1>1, <2>3 DEF Orderly, Snapshot
  <2>4. CASE StartOperation(p) \/ CompleteOperation(p)
    BY <1>1, <1>2, <2>3, <2>4, FrameKeepsOrderly DEF StartOperation, CompleteOperation
  <2>5. CASE Ensure(p) \/ EnsureFails(p) \/ RecordObservation(p)
    <3>1. /\ steps' = steps /\ operations' = operations /\ todo' = todo /\ current' = current
          /\ pc[p] \in Claimed /\ \E l \in Claimed : pc' = [pc EXCEPT ![p] = l]
      BY <2>5 DEF Ensure, EnsureFails, RecordObservation
    <3> QED BY <1>1, <1>2, <2>3, <3>1, FrameKeepsOrderly
  <2>6. CASE ClaimStep(p)
    <3>1. CASE Return(p, "partial", None) /\ UNCHANGED steps
      BY <1>1, <1>2, <2>6, <3>1, FrameKeepsOrderly DEF ClaimStep
    <3>2. CASE steps' = [steps EXCEPT ![current[p]][NextStep(p)] = "running"]
               /\ Goto(p, "ensure") /\ UNCHANGED <<lock, cmd, kind, work>>
      <4>1. "running" \in StepStatus /\ ~Satisfied("running")
        BY DEF StepStatus, Satisfied
      <4>2. pc[p] \in Running /\ todo[p] # {} /\ operations' = operations
        BY <2>6 DEF ClaimStep
      <4> QED BY <1>1, <1>2, <3>2, <4>1, <4>2, WritingKeepsOrderly
    <3> QED BY <2>6, <3>1, <3>2 DEF ClaimStep
  <2>7. CASE CompleteStep(p)
    <3>1. PICK status \in {"succeeded", "skipped"} :
             steps' = [steps EXCEPT ![current[p]][NextStep(p)] = status]
      BY <2>7 DEF CompleteStep
    <3>2. status \in StepStatus /\ Satisfied(status)
      BY DEF StepStatus, Satisfied
    <3>3. /\ pc[p] \in Running /\ todo[p] # {} /\ operations' = operations
          /\ todo' = [todo EXCEPT ![p] = @ \ {NextStep(p)}] /\ current' = current
          /\ pc' = [pc EXCEPT ![p] = "step"]
      BY <2>3, <2>7 DEF CompleteStep
    <3> QED BY <1>1, <1>2, <3>1, <3>2, <3>3, WritingKeepsOrderly
  <2>8. CASE FailStep(p)
    <3>1. "failed" \in StepStatus /\ ~Satisfied("failed")
      BY DEF StepStatus, Satisfied
    <3>2. /\ pc[p] \in Running /\ todo[p] # {} /\ DOMAIN operations' = DOMAIN operations
          /\ steps' = [steps EXCEPT ![current[p]][NextStep(p)] = "failed"]
          /\ pc' = [pc EXCEPT ![p] = "idle"]
      BY <2>3, <2>8 DEF FailStep
    <3> QED BY <1>1, <1>2, <3>1, <3>2, WritingKeepsOrderly
  <2> QED BY <1>4, <2>1, <2>2, <2>4, <2>5, <2>6, <2>7, <2>8 DEF Run
<1>5. ASSUME NEW p \in Proc, Crash(p) PROVE Snapshot' /\ StepsInOrder'
  BY <1>1, <1>2, <1>5, FrameKeepsOrderly DEF Crash
<1>6. ASSUME NEW p \in Proc, SessionLoss(p) PROVE FALSE
  <2>1. losses \in Nat /\ losses' = losses + 1
    BY <1>6 DEF SessionLoss, Orderly, Serial, Exclusion
  <2> QED BY <2>1 DEF LockIsSafe
<1>7. CASE Drift \/ UNCHANGED vars
  <2>1. UNCHANGED <<steps, operations, pc, todo, current>>
    BY <1>7 DEF Drift, vars
  <2>2. StepsInOrder'
    BY <1>1, <2>1 DEF Orderly, StepsInOrder
  <2>3. \A o : {i \in DOMAIN steps'[o] : ~Satisfied(steps'[o][i])} = Unsatisfied(o)
    BY <2>1 DEF Unsatisfied
  <2>4. Snapshot'
    BY <1>1, <2>1, <2>3 DEF Orderly, Snapshot, Unsatisfied
  <2> QED BY <2>2, <2>4
<1> QED BY <1>3, <1>4, <1>5, <1>6, <1>7 DEF Next

(* At first nothing is to be done.                                         *)
LEMMA OrderlyInit == Init => Orderly
BY SerialInit DEF Init, Orderly, ReleasedIffArchived, Snapshot, StepsInOrder, Running, Claimed

(***************************************************************************)
(* The steps of every operation are satisfied strictly in sequence order,  *)
(* across retries, crashes and redeclarations, while no lock session is    *)
(* lost.                                                                   *)
(***************************************************************************)
THEOREM StepsAreInOrder == Spec => []StepsInOrder
<1>1. Orderly => StepsInOrder BY DEF Orderly
<1> QED BY OrderlyInit, OrderlyStep, <1>1, PTL DEF Spec

(***************************************************************************)
(* A succeeded apply or delete is never run again.                         *)
(***************************************************************************)
FinalSuccess ==
    LockIsSafe => \A o \in DOMAIN operations :
        operations[o] = "succeeded" /\ o.action # "reconcile" =>
            operations'[o] = "succeeded" /\ steps'[o] = steps[o]

(* An executor writes only rows of an operation that has not succeeded,    *)
(* and of the preparations only a reconcile resets an existing operation.  *)
LEMMA FinalSuccessStep == Orderly /\ [Next]_vars => FinalSuccess
<1> SUFFICES ASSUME Orderly, [Next]_vars, LockIsSafe, NEW o \in DOMAIN operations,
                    operations[o] = "succeeded", o.action # "reconcile"
             PROVE  operations'[o] = "succeeded" /\ steps'[o] = steps[o]
  BY DEF FinalSuccess
<1>1. /\ DOMAIN steps = DOMAIN operations
      /\ steps = [k \in DOMAIN steps |-> steps[k]]
      /\ operations \in [DOMAIN operations -> OperationStatus]
  BY DEF Orderly, Serial, Wellformed, TypeOK, JournalType
<1> USE DEF journal
<1>2. ASSUME NEW p \in Proc, NEW k, NEW statuses, NEW rows, Persist(p, k, statuses, rows),
             statuses[o] = operations[o], rows[o] = steps[o]
      PROVE  operations'[o] = "succeeded" /\ steps'[o] = steps[o]
  BY <1>1, <1>2 DEF Persist
<1>3. ASSUME NEW p \in Proc, Prepare(p)
      PROVE  operations'[o] = "succeeded" /\ steps'[o] = steps[o]
  <2>1. CASE PrepareExecutableApply(p)
    BY <1>2, <2>1 DEF PrepareExecutableApply, OnConflict
  <2>2. CASE PrepareExecutableDelete(p)
    BY <1>2, <2>2 DEF PrepareExecutableDelete, OnConflict
  <2>3. CASE PrepareExecutableReconcile(p)
    <3> DEFINE k == BuildExecutable("reconcile", Len(declared), Identity(alloc))
               statuses == IF k \in DOMAIN operations /\ operations[k] # "running"
                           THEN [operations EXCEPT ![k] = "pending"] ELSE operations
               rows == IF k \in DOMAIN operations
                       THEN [steps EXCEPT ![k] = [i \in DOMAIN @ |-> "pending"]] ELSE steps
    <3>1. Persist(p, k, statuses, rows)
      BY <2>3 DEF PrepareExecutableReconcile
    <3>2. k # o
      BY DEF BuildExecutable
    <3>3. statuses[o] = operations[o] /\ rows[o] = steps[o]
      BY <1>1, <3>2
    <3> HIDE DEF k, statuses, rows
    <3> QED BY <1>2, <3>1, <3>3
  <2>4. CASE BeginTx(p) \/ LockPreparation(p) \/ RefuseApply(p) \/ PrepareNotFound(p)
    BY <2>4 DEF BeginTx, LockPreparation, RefuseApply, PrepareNotFound
  <2> QED BY <1>3, <2>1, <2>2, <2>3, <2>4 DEF Prepare
<1>4. ASSUME NEW p \in Proc, Run(p)
      PROVE  operations'[o] = "succeeded" /\ steps'[o] = steps[o]
  <2>1. ASSUME pc[p] \in Executing \ {"inspect", "report"} PROVE current[p] # o
    BY <2>1 DEF Orderly, Serial, ExecutesNewest, Wellformed, Progress
  <2>2. CASE StartOperation(p) \/ ClaimStep(p) \/ CompleteStep(p) \/ FailStep(p)
             \/ CompleteOperation(p)
    <3>1. current[p] # o
      BY <2>1, <2>2 DEF StartOperation, ClaimStep, CompleteStep, FailStep, CompleteOperation, Executing
    <3> QED BY <1>1, <2>2, <3>1
            DEF StartOperation, ClaimStep, CompleteStep, FailStep, CompleteOperation
  <2>3. CASE UNCHANGED <<operations, steps>>
    BY <2>3
  <2> QED BY <1>4, <2>2, <2>3 DEF Run, InspectBefore, LockExecution, Inspect, ExecutionSteps,
             Ensure, EnsureFails, Answer, RecordObservation, Report
<1>5. ASSUME NEW p \in Proc, Crash(p) \/ SessionLoss(p)
      PROVE  operations'[o] = "succeeded" /\ steps'[o] = steps[o]
  BY <1>5 DEF Crash, SessionLoss
<1>6. CASE Drift \/ UNCHANGED vars
  BY <1>6 DEF Drift, vars
<1> QED BY <1>3, <1>4, <1>5, <1>6 DEF Next

(* In every behaviour a succeeded apply or delete keeps its status and the *)
(* statuses of all its steps, while no lock session is lost: retyping the  *)
(* command, whatever it finds, never runs its drivers again.               *)
THEOREM SuccessIsFinal == Spec => SucceededIsFinal
<1>1. Orderly /\ [Next]_vars => [FinalSuccess]_vars
  BY FinalSuccessStep
<1> QED BY OrderlyInit, OrderlyStep, <1>1, PTL DEF Spec, SucceededIsFinal, FinalSuccess

(***************************************************************************)
(* The refinement.  Each action of Execution is an action of Lifecycle or  *)
(* leaves its variables alone; once a lock session is lost, the identity   *)
(* is all that is promised.                                                *)
(***************************************************************************)

(* Both modules have the planner's operations and plans.                   *)
LEMMA SamePlanner == L!Operation = Operation /\ \A a : L!Plan(a) = Plan(a)
BY DEF L!Operation, L!Generation, L!Action, L!Allocation, Operation, Generation, Action, Allocation,
       L!Plan, L!ApplySteps, L!ResourceSteps, L!DeleteSteps, L!ReconcileSteps,
       Plan, ApplySteps, ResourceSteps, DeleteSteps, ReconcileSteps

(* The abstract variables in terms of the concrete ones.                   *)
LEMMA AbstractFrame ==
    ASSUME UNCHANGED <<newest, steps, operations>>
    PROVE  DoneSteps' = DoneSteps /\ Finished' = Finished
BY DEF DoneSteps, Finished

(* Whoever is past the inspection is the only one who works.               *)
LEMMA OneWorks ==
    ASSUME Orderly, LockIsSafe, NEW p \in Proc, pc[p] \in Holding
    PROVE  Working <=> current[p] # None
BY Alone DEF Orderly, Working

(* What the journal says of a run that goes on.                            *)
LEMMA WorkIsOpen ==
    ASSUME Orderly, LockIsSafe, NEW p \in Proc, pc[p] \in Executing \ {"inspect"}
    PROVE  /\ Working /\ current[p] = newest /\ newest # None /\ newest \in DOMAIN operations
           /\ newest \in Operation /\ newest.action \in Action
           /\ pc[p] # "report" => ~Finished
<1>1. current[p] # None /\ current[p] \in DOMAIN operations
  BY DEF Orderly, Serial, Wellformed, Progress
<1>2. current[p] = newest
  BY <1>1 DEF Orderly, Serial, ExecutesNewest
<1>3. newest \in Operation /\ newest.action \in Action
  BY <1>1, <1>2 DEF Orderly, Serial, Wellformed, TypeOK, JournalType, Operation
<1> QED BY <1>1, <1>2, <1>3 DEF Working, Finished, Orderly, Serial, ExecutesNewest

(* A live allocation, seen as the identity that is held.                   *)
LEMMA HolderTyped ==
    ASSUME Wellformed
    PROVE  Holder \in Identities \cup {None} /\ (Allocated <=> Holder # None)
BY HostAssumption, RowAssumption DEF Wellformed, TypeOK, ResourceType, Holder, Allocated, AllocationRow

(* A preparation that may write an operation o.                            *)
LEMMA PersistRefines ==
    ASSUME Orderly, Orderly', LockIsSafe, LockIsSafe', NEW p \in Proc, pc[p] = "preparing",
           NEW o \in Operation, NEW statuses, NEW rows, Persist(p, o, statuses, rows),
           current' = current,
           Holder' = o.allocation.identity, Holder' \in Identities,
           \/ Holder = Holder'
           \/ Holder = None /\ o.action = "apply",
           \/ statuses = operations /\ rows = steps
           \/ /\ o.action = "reconcile"
              /\ \A k \in DOMAIN operations :
                    k # o => statuses[k] = operations[k] /\ rows[k] = steps[k]
              /\ o \in DOMAIN operations =>
                    /\ \A i \in DOMAIN rows[o] : rows[o][i] = "pending"
                    /\ statuses[o] # "succeeded"
    PROVE  L!Promised \/ UNCHANGED L!vars
<1>1. Working = FALSE /\ Working' = FALSE
  <2>1. current[p] = None
    BY DEF Orderly, Serial, Busy, Executing
  <2> QED BY <2>1, OneWorks DEF Holding, Working
<1>2. newest \in DOMAIN operations \cup {None} /\ None \notin Operation
  BY HostAssumption DEF Orderly, Serial, Wellformed, TypeOK, JournalType
<1>3. DOMAIN steps = DOMAIN operations
  BY DEF Orderly, Serial, Wellformed, TypeOK, JournalType
<1>4. CASE newest' # newest
  <2>1. /\ o \notin DOMAIN operations /\ newest' = o
        /\ operations'[o] = "pending"
        /\ steps'[o] = [i \in DOMAIN Plan(o.action) |-> "pending"]
    BY <1>3, <1>4 DEF Persist
  <2>2. DoneSteps' = {} /\ Finished' = FALSE
    BY <1>2, <2>1 DEF DoneSteps, Finished, Satisfied
  <2> QED BY <1>1, <2>1, <2>2, SamePlanner DEF L!Promised, L!Prepare
<1>5. CASE newest' = newest /\ newest # None
  <2>1. CASE newest # o \/ (statuses = operations /\ rows = steps)
    <3>1. operations'[newest] = operations[newest] /\ steps'[newest] = steps[newest]
      BY <1>2, <1>3, <1>5, <2>1 DEF Persist
    <3>2. DoneSteps' = DoneSteps /\ Finished' = Finished
      BY <1>5, <3>1 DEF DoneSteps, Finished
    <3>3. CASE Holder = None
      BY <1>1, <1>5, <3>2, <3>3 DEF L!Promised, L!Revive, L!progress
    <3>4. CASE Holder' = Holder
      BY <1>1, <1>5, <3>2, <3>4 DEF L!vars, L!progress, LockIsSafe
    <3> QED BY <3>3, <3>4
  <2>2. CASE newest = o /\ ~(statuses = operations /\ rows = steps)
    <3>1. operations' = statuses /\ steps' = rows /\ o \in DOMAIN operations
      BY <1>2, <1>5, <2>2 DEF Persist
    <3>2. DoneSteps' = {} /\ Finished' = FALSE
      BY <1>5, <2>2, <3>1 DEF DoneSteps, Finished, Satisfied
    <3>3. Holder' = Holder /\ newest.action = "reconcile"
      BY <2>2
    <3> QED BY <1>1, <1>5, <3>2, <3>3 DEF L!Promised, L!Repeat
  <2> QED BY <2>1, <2>2
<1>6. CASE newest' = newest /\ newest = None
  <2>1. DOMAIN operations = {} /\ overtaken = {}
    BY <1>6 DEF Orderly, Serial, Wellformed, RowsTogether
  <2> QED BY <1>2, <1>6, <2>1 DEF Persist
<1> QED BY <1>4, <1>5, <1>6

(* The preparation transactions that write the journal.                    *)
LEMMA PreparingRefines ==
    ASSUME Orderly, Orderly', LockIsSafe, LockIsSafe', NEW p \in Proc,
           \/ PrepareExecutableApply(p) \/ PrepareExecutableDelete(p)
           \/ PrepareExecutableReconcile(p)
    PROVE  L!Promised \/ UNCHANGED L!vars
<1>1. pc[p] = "preparing" /\ current' = current
  BY DEF PrepareExecutableApply, PrepareExecutableDelete, PrepareExecutableReconcile, work
<1>2. Wellformed /\ Wellformed' /\ None \notin AllocationRow
  BY RowAssumption DEF Orderly, Serial
<1>3. Holder' \in Identities \cup {None} /\ (Allocated' <=> Holder' # None)
  BY <1>2, HolderTyped, HostAssumption, RowAssumption
     DEF Wellformed, TypeOK, ResourceType, Holder, Allocated, AllocationRow
<1>4. CASE PrepareExecutableApply(p)
  <2> DEFINE g == NextGeneration(cmd[p].manifest)
  <2>1. PICK row \in AllocationRow :
           /\ EnsureAllocation(g, row) /\ alloc' = row
           /\ Persist(p, BuildExecutable("apply", g, Identity(row)), operations, steps)
    BY <1>4 DEF PrepareExecutableApply, OnConflict
  <2> DEFINE o == BuildExecutable("apply", g, Identity(row))
  <2>2. g \in Generation
    BY <1>2, <1>4, PlannerAssumption
       DEF PrepareExecutableApply, NextGeneration, Generation, Wellformed, TypeOK, ResourceType
  <2>3. o \in Operation /\ o.allocation.identity = row.identity /\ o.action = "apply"
    BY <2>1, <2>2 DEF BuildExecutable, Identity, Operation, Allocation, AllocationRow, Action
  <2>4. ~row.released
    BY <2>1 DEF EnsureAllocation, Allocated
  <2>5. Holder' = row.identity /\ Holder' \in Identities
    BY <1>2, <2>1, <2>4 DEF Holder, Allocated, AllocationRow
  <2>6. Holder = Holder' \/ Holder = None
    BY <2>1, <2>5 DEF EnsureAllocation, Holder, Allocated
  <2> HIDE DEF o
  <2> QED BY <1>1, <2>1, <2>3, <2>5, <2>6, PersistRefines DEF o
<1>5. CASE PrepareExecutableDelete(p) \/ PrepareExecutableReconcile(p)
  <2>1. Present /\ alloc' = alloc
    BY <1>5 DEF PrepareExecutableDelete, PrepareExecutableReconcile
  <2>2. alloc \in AllocationRow /\ ~alloc.released
    BY <1>2, <2>1 DEF Present, Orderly, ReleasedIffArchived, Wellformed, TypeOK, RowsTogether, ResourceType
  <2>3. /\ Holder = alloc.identity /\ Holder' = Holder /\ Holder' \in Identities
    BY <1>2, <2>1, <2>2 DEF Holder, Allocated, AllocationRow
  <2>4. Len(declared) \in Generation
    BY <1>2, <2>1, PlannerAssumption
       DEF Present, Generation, Wellformed, TypeOK, ResourceType
  <2>5. ASSUME NEW action \in {"delete", "reconcile"}
        PROVE  LET o == BuildExecutable(action, Len(declared), Identity(alloc))
               IN  o \in Operation /\ o.allocation.identity = alloc.identity /\ o.action = action
    BY <2>2, <2>4 DEF BuildExecutable, Identity, Operation, Allocation, AllocationRow, Action
  <2>6. CASE PrepareExecutableDelete(p)
    <3> DEFINE o == BuildExecutable("delete", Len(declared), Identity(alloc))
    <3>1. Persist(p, o, operations, steps)
      BY <2>6 DEF PrepareExecutableDelete, OnConflict
    <3>2. o \in Operation /\ o.allocation.identity = alloc.identity
      BY <2>5
    <3> HIDE DEF o
    <3> QED BY <1>1, <2>3, <3>1, <3>2, PersistRefines
  <2>7. CASE PrepareExecutableReconcile(p)
    <3> DEFINE o == BuildExecutable("reconcile", Len(declared), Identity(alloc))
               statuses == IF o \in DOMAIN operations /\ operations[o] # "running"
                           THEN [operations EXCEPT ![o] = "pending"] ELSE operations
               rows == IF o \in DOMAIN operations
                       THEN [steps EXCEPT ![o] = [i \in DOMAIN @ |-> "pending"]] ELSE steps
    <3>1. Persist(p, o, statuses, rows)
      BY <2>7 DEF PrepareExecutableReconcile
    <3>2. o \in Operation /\ o.allocation.identity = alloc.identity /\ o.action = "reconcile"
      BY <2>5
    <3>3. /\ \A k \in DOMAIN operations :
                k # o => statuses[k] = operations[k] /\ rows[k] = steps[k]
          /\ o \in DOMAIN operations =>
                /\ \A i \in DOMAIN rows[o] : rows[o][i] = "pending"
                /\ statuses[o] # "succeeded"
      BY <1>2 DEF Wellformed, TypeOK, JournalType
    <3> HIDE DEF o, statuses, rows
    <3> QED BY <1>1, <2>3, <3>1, <3>2, <3>3, PersistRefines
  <2> QED BY <1>5, <2>6, <2>7
<1> QED BY <1>4, <1>5

(* A step of a command that leaves the journal and the allocation alone    *)
(* begins, ends or goes on with the work.                                  *)
LEMMA QuietRefines ==
    ASSUME Orderly, Orderly', LockIsSafe, LockIsSafe', NEW p \in Proc,
           newest' = newest, alloc' = alloc,
           DoneSteps' = DoneSteps, Finished' = Finished,
           \/ current' = current
           \/ current' = [current EXCEPT ![p] = None]
    PROVE  L!Promised \/ UNCHANGED L!vars
<1>1. Holder' = Holder
  BY DEF Holder, Allocated
<1>2. current \in [Proc -> Operation \cup {None}]
  BY DEF Orderly, Serial, Wellformed, TypeOK, ProcessType
<1>3. CASE Working' = Working
  BY <1>1, <1>3 DEF L!vars, L!progress
<1>4. CASE Working' # Working
  <2>1. current' = [current EXCEPT ![p] = None] /\ current[p] # None
    BY <1>2, <1>4 DEF Working
  <2>2. Working = TRUE /\ Working' = FALSE
    BY <1>4, <2>1 DEF Working
  <2> QED BY <1>1, <2>2 DEF L!Promised, L!Cease, L!progress
<1> QED BY <1>3, <1>4

(* The next step comes right after those that are done, and writing it     *)
(* makes it one of them or not.                                            *)
LEMMA WrittenDone ==
    ASSUME Orderly, LockIsSafe, NEW p \in Proc, pc[p] \in Running, todo[p] # {},
           NEW status \in StepStatus,
           steps' = [steps EXCEPT ![current[p]][NextStep(p)] = status], newest' = newest
    PROVE  /\ NextStep(p) \in DOMAIN Plan(newest.action) /\ NextStep(p) \in Nat
           /\ DoneSteps = 1..(NextStep(p) - 1)
           /\ DoneSteps' = IF Satisfied(status) THEN 1..NextStep(p) ELSE DoneSteps
<1>1. /\ current[p] = newest /\ newest \in DOMAIN operations /\ newest # None
      /\ IsFirst(NextStep(p), newest)
  BY NextStepIsFirst
<1>2. /\ DOMAIN steps = DOMAIN operations /\ newest \in Operation
      /\ steps[newest] \in [DOMAIN Plan(newest.action) -> StepStatus]
      /\ DOMAIN steps[newest] = DOMAIN Plan(newest.action)
  BY <1>1, StepRows DEF Orderly, Serial
<1>3. PICK len \in {1, 7, 9, 10} : DOMAIN steps[newest] = 1..len
  BY <1>2, PlanLength DEF Operation
<1>4. /\ NextStep(p) \in 1..len /\ ~Satisfied(steps[newest][NextStep(p)])
      /\ \A i \in 1..len : ~Satisfied(steps[newest][i]) => NextStep(p) <= i
  BY <1>1, <1>3 DEF IsFirst, Unsatisfied
<1>5. \A i \in 1..len : i > NextStep(p) => ~Satisfied(steps[newest][i])
  BY <1>1, <1>3, <1>4 DEF Orderly, StepsInOrder
<1>6. \A i \in 1..len : Satisfied(steps[newest][i]) <=> i < NextStep(p)
  BY <1>4, <1>5
<1>7. DoneSteps = 1..(NextStep(p) - 1)
  BY <1>1, <1>3, <1>4, <1>6 DEF DoneSteps
<1>8. /\ DOMAIN steps'[newest] = 1..len
      /\ \A i \in 1..len : steps'[newest][i] = IF i = NextStep(p) THEN status ELSE steps[newest][i]
  BY <1>1, <1>2, <1>3
<1>9. \A i \in 1..len : Satisfied(steps'[newest][i]) <=>
          (IF Satisfied(status) THEN i <= NextStep(p) ELSE i < NextStep(p))
  BY <1>4, <1>6, <1>8
<1>10. DoneSteps' = IF Satisfied(status) THEN 1..NextStep(p) ELSE 1..(NextStep(p) - 1)
  BY <1>1, <1>4, <1>8, <1>9 DEF DoneSteps
<1> QED BY <1>2, <1>3, <1>4, <1>7, <1>10

(* The executor's steps.                                                   *)
LEMMA RunningRefines ==
    ASSUME Orderly, Orderly', LockIsSafe, LockIsSafe', NEW p \in Proc, Run(p)
    PROVE  L!Promised \/ UNCHANGED L!vars
<1> USE DEF journal, resource, work, Return, Forget, Answer, Goto
<1>1. /\ current \in [Proc -> Operation \cup {None}] /\ None \notin Operation
      /\ pc \in [Proc -> Label]
      /\ operations \in [DOMAIN operations -> OperationStatus]
  BY HostAssumption DEF Orderly, Serial, Wellformed, TypeOK, ProcessType, JournalType
<1>2. CASE InspectBefore(p) \/ LockExecution(p) \/ ExecutionSteps(p) \/ Report(p)
           \/ Ensure(p) \/ EnsureFails(p) \/ RecordObservation(p)
  <2>1. /\ UNCHANGED <<newest, steps, operations, alloc>>
        /\ current' = current \/ current' = [current EXCEPT ![p] = None]
    BY <1>2 DEF InspectBefore, LockExecution, ExecutionSteps, Report, Ensure, EnsureFails, RecordObservation
  <2> QED BY <2>1, AbstractFrame, QuietRefines
<1>3. CASE Inspect(p)
  <2>1. UNCHANGED <<newest, steps, operations, alloc>>
    BY <1>3 DEF Inspect
  <2>2. CASE current' = [current EXCEPT ![p] = None]
    BY <2>1, <2>2, AbstractFrame, QuietRefines
  <2>3. CASE current' = [current EXCEPT ![p] = newest] /\ operations[newest] # "succeeded"
    <3>1. newest # None /\ newest \in Operation
      BY <1>3 DEF Inspect, Orderly, Serial, Wellformed, Progress, Executing, TypeOK, JournalType
    <3>2. Working' = TRUE /\ Finished = FALSE
      BY <1>1, <2>3, <3>1 DEF Working, Finished
    <3>3. Holder' = Holder /\ DoneSteps' = DoneSteps /\ Finished' = Finished
      BY <2>1, AbstractFrame DEF Holder, Allocated
    <3>4. Working \in BOOLEAN
      BY DEF Working
    <3>5. CASE Working = FALSE
      BY <2>1, <3>1, <3>2, <3>3, <3>5 DEF L!Promised, L!Begin, L!progress
    <3>6. CASE Working = TRUE
      BY <2>1, <3>2, <3>3, <3>6 DEF L!vars, L!progress
    <3> QED BY <3>4, <3>5, <3>6
  <2> QED BY <1>3, <2>2, <2>3 DEF Inspect
<1>4. CASE pc[p] \in Running
  <2> USE DEF Running, Claimed
  <2>1. /\ Working = TRUE /\ Finished = FALSE /\ current[p] = newest /\ newest # None
        /\ newest \in DOMAIN operations /\ newest \in Operation /\ newest.action \in Action
    BY <1>4, WorkIsOpen DEF Executing, Working, Finished
  <2>2. pc[p] \in Claimed => todo[p] # {}
    BY DEF Orderly, Snapshot
  <2>3. CASE StartOperation(p)
    <3>1. newest' = newest /\ alloc' = alloc /\ steps' = steps /\ current' = current
          /\ operations' = [operations EXCEPT ![newest] = "running"]
      BY <2>1, <2>3 DEF StartOperation, Finished
    <3>2. DoneSteps' = DoneSteps /\ Finished' = Finished
      BY <1>1, <2>1, <3>1 DEF DoneSteps, Finished
    <3> QED BY <3>1, <3>2, QuietRefines
  <2>4. CASE ClaimStep(p)
    <3>1. newest' = newest /\ alloc' = alloc /\ operations' = operations
          /\ (current' = current \/ current' = [current EXCEPT ![p] = None])
      BY <2>4 DEF ClaimStep
    <3>2. DoneSteps' = DoneSteps
      <4>1. CASE UNCHANGED steps
        BY <3>1, <4>1, AbstractFrame
      <4>2. CASE steps' = [steps EXCEPT ![current[p]][NextStep(p)] = "running"]
        <5>1. "running" \in StepStatus /\ ~Satisfied("running") /\ todo[p] # {}
          BY <2>4 DEF StepStatus, Satisfied, ClaimStep
        <5> QED BY <1>4, <3>1, <4>2, <5>1, WrittenDone
      <4> QED BY <2>4, <4>1, <4>2 DEF ClaimStep
    <3>3. Finished' = Finished
      BY <3>1 DEF Finished
    <3> QED BY <3>1, <3>2, <3>3, QuietRefines
  <2>5. CASE FailStep(p)
    <3>1. newest' = newest /\ alloc' = alloc /\ current' = [current EXCEPT ![p] = None]
          /\ steps' = [steps EXCEPT ![current[p]][NextStep(p)] = "failed"]
          /\ operations' = [operations EXCEPT ![newest] =
                               IF result[p] = "blocked" THEN "blocked" ELSE "failed"]
      BY <2>1, <2>5 DEF FailStep
    <3>2. "failed" \in StepStatus /\ ~Satisfied("failed") /\ todo[p] # {}
      BY <2>2, <2>5 DEF StepStatus, Satisfied, FailStep
    <3>3. DoneSteps' = DoneSteps
      BY <1>4, <3>1, <3>2, WrittenDone
    <3>4. Finished' = Finished
      BY <1>1, <2>1, <3>1 DEF Finished
    <3> QED BY <3>1, <3>3, <3>4, QuietRefines
  <2>6. CASE CompleteStep(p)
    <3>1. newest' = newest /\ alloc' = alloc /\ operations' = operations /\ current' = current
          /\ todo[p] # {}
      BY <2>2, <2>6 DEF CompleteStep
    <3>2. PICK status \in StepStatus :
             Satisfied(status) /\ steps' = [steps EXCEPT ![current[p]][NextStep(p)] = status]
      BY <2>6 DEF CompleteStep, StepStatus, Satisfied
    <3>3. /\ NextStep(p) \in DOMAIN Plan(newest.action)
          /\ DoneSteps = 1..(NextStep(p) - 1) /\ DoneSteps' = 1..NextStep(p)
      BY <1>4, <3>1, <3>2, WrittenDone
    <3>4. Finished' = Finished /\ Working' = Working /\ Holder' = Holder
      BY <3>1 DEF Finished, Working, Holder, Allocated
    <3> QED BY <2>1, <3>1, <3>3, <3>4, SamePlanner DEF L!Promised, L!Advance
  <2>7. CASE CompleteOperation(p)
    <3>1. newest' = newest /\ steps' = steps /\ current' = current /\ todo[p] = {}
          /\ operations' = [operations EXCEPT ![newest] = "succeeded"]
      BY <2>1, <2>7 DEF CompleteOperation
    <3>2. Finished' = TRUE /\ DoneSteps' = DoneSteps /\ Working' = Working
      BY <1>1, <2>1, <3>1 DEF Finished, DoneSteps, Working
    <3>3. DoneSteps = DOMAIN Plan(newest.action)
      <4>1. Unsatisfied(newest) = {}
        BY <1>4, <2>1, <3>1 DEF Orderly, Snapshot
      <4>2. DOMAIN steps[newest] = DOMAIN Plan(newest.action)
        BY <2>1, StepRows DEF Orderly, Serial
      <4> QED BY <2>1, <4>1, <4>2 DEF DoneSteps, Unsatisfied
    <3>4. Holder' = IF newest.action = "delete" THEN None ELSE Holder
      <4>1. alloc \in AllocationRow /\ None \notin AllocationRow
        BY <2>1, RowAssumption DEF Orderly, Serial, Wellformed, TypeOK, RowsTogether, ResourceType
      <4>2. CASE newest.action = "delete"
        <5>1. alloc' = [alloc EXCEPT !.released = TRUE]
          BY <2>1, <2>7, <4>2 DEF CompleteOperation, FinalState
        <5> QED BY <4>1, <4>2, <5>1 DEF Holder, Allocated, AllocationRow
      <4>3. CASE newest.action # "delete"
        <5>1. alloc' = alloc
          BY <2>1, <2>7, <4>3 DEF CompleteOperation, FinalState
        <5> QED BY <4>3, <5>1 DEF Holder, Allocated
      <4> QED BY <4>2, <4>3
    <3> QED BY <2>1, <3>1, <3>2, <3>3, <3>4, SamePlanner DEF L!Promised, L!Finish
  <2>8. CASE Ensure(p) \/ EnsureFails(p) \/ RecordObservation(p)
    BY <1>2, <2>8
  <2> QED BY <1>2, <1>3, <1>4, <2>3, <2>4, <2>5, <2>6, <2>7, <2>8 DEF Run
<1>5. \/ InspectBefore(p) \/ LockExecution(p) \/ ExecutionSteps(p) \/ Report(p) \/ Inspect(p)
      \/ Ensure(p) \/ EnsureFails(p) \/ RecordObservation(p) \/ pc[p] \in Running
  BY DEF Run, StartOperation, ClaimStep, CompleteStep, FailStep, CompleteOperation, Running
<1> QED BY <1>2, <1>3, <1>4, <1>5

(* The initial states map to the initial state.                            *)
LEMMA InitRefines == Init => L!Init
BY DEF Init, L!Init, LockIsSafe, DoneSteps, Finished, Working, Holder, Allocated

(* Every step maps to a step or a stutter.                                 *)
LEMMA StepRefines == Orderly /\ Orderly' /\ [Next]_vars => [L!Next]_(L!vars)
<1> SUFFICES ASSUME Orderly, Orderly', [Next]_vars PROVE [L!Next]_(L!vars)
  OBVIOUS
<1>1. Wellformed /\ losses \in Nat
  BY DEF Orderly, Serial, Exclusion
<1>2. CASE ~LockIsSafe'
  <2>1. CASE alloc' = alloc
    <3>1. Holder' = Holder
      BY <2>1 DEF Holder, Allocated
    <3> QED BY <1>2, <3>1 DEF L!Next, L!Unguarded
  <2>2. CASE alloc' # alloc /\ Allocated
    <3>1. alloc' = [alloc EXCEPT !.released = TRUE] /\ alloc \in AllocationRow
      BY <1>1, <2>2, KeepIdentityStep DEF KeepIdentity, Allocated, Wellformed, TypeOK, ResourceType
    <3>2. Holder' = None
      BY <3>1, RowAssumption DEF Holder, Allocated, AllocationRow
    <3> QED BY <1>2, <3>2 DEF L!Next, L!Unguarded
  <2>3. CASE ~Allocated
    BY <1>2, <2>3 DEF L!Next, L!Unguarded, Holder
  <2> QED BY <2>1, <2>2, <2>3
<1>3. CASE LockIsSafe'
  <2>1. LockIsSafe
    BY <1>1, <1>3, LossesGrow DEF LockIsSafe
  <2> SUFFICES L!Promised \/ UNCHANGED L!vars
    BY DEF L!Next
  <2> USE DEF journal, resource, work
  <2>2. ASSUME NEW p \in Proc, Prepare(p) PROVE L!Promised \/ UNCHANGED L!vars
    <3>1. CASE \/ PrepareExecutableApply(p) \/ PrepareExecutableDelete(p)
               \/ PrepareExecutableReconcile(p)
      BY <1>3, <2>1, <3>1, PreparingRefines
    <3>2. CASE BeginTx(p) \/ LockPreparation(p) \/ RefuseApply(p) \/ PrepareNotFound(p)
      <4>1. /\ UNCHANGED <<newest, steps, operations, alloc>>
            /\ current' = current \/ current' = [current EXCEPT ![p] = None]
        BY <3>2 DEF BeginTx, LockPreparation, RefuseApply, PrepareNotFound, Return, Forget
      <4> QED BY <1>3, <2>1, <4>1, AbstractFrame, QuietRefines
    <3> QED BY <2>2, <3>1, <3>2 DEF Prepare
  <2>3. ASSUME NEW p \in Proc, Run(p) PROVE L!Promised \/ UNCHANGED L!vars
    BY <1>3, <2>1, <2>3, RunningRefines
  <2>4. ASSUME NEW p \in Proc, Crash(p) \/ SessionLoss(p) PROVE L!Promised \/ UNCHANGED L!vars
    <3>1. /\ UNCHANGED <<newest, steps, operations, alloc>>
          /\ current' = current \/ current' = [current EXCEPT ![p] = None]
      BY <2>4 DEF Crash, SessionLoss, Forget
    <3> QED BY <1>3, <2>1, <3>1, AbstractFrame, QuietRefines
  <2>5. CASE Drift \/ UNCHANGED vars
    <3>1. UNCHANGED <<newest, steps, operations, alloc, current>>
      BY <2>5 DEF Drift, vars
    <3>2. DoneSteps' = DoneSteps /\ Finished' = Finished /\ Holder' = Holder /\ Working' = Working
      BY <3>1, AbstractFrame DEF Holder, Allocated, Working
    <3> QED BY <1>3, <2>1, <3>1, <3>2 DEF L!vars, L!progress
  <2> QED BY <2>2, <2>3, <2>4, <2>5 DEF Next
<1> QED BY <1>2, <1>3

(***************************************************************************)
(* Module Execution implements module Lifecycle: any number of processes,  *)
(* their transactions, locks, retries and crashes look from outside like   *)
(* one operation after the other carried out step by step, and one         *)
(* identity from an apply to a delete.                                     *)
(***************************************************************************)
THEOREM Implementation == Spec => FollowsLifecycle
<1> QED BY OrderlyInit, OrderlyStep, InitRefines, StepRefines, PTL
        DEF Spec, FollowsLifecycle, L!Spec
--------------------------------------------------------------------------------
(***************************************************************************)
(* Evidence.  What a resource is said to be rests on what the journal says *)
(* of its newest operation, and that on what a driver call has left on the *)
(* host: from the answer of the call (AnswerHolds) to the status of its    *)
(* step (StepsHold), kept while later steps run, fail, are cut off or are  *)
(* retried.                                                                *)
(***************************************************************************)

(* What needs no lock: a run is about steps of its operation's plan,       *)
(* vm_effective names an operation that exists, and an allocation was made *)
(* for one.                                                                *)
TodoInPlan ==
    \A p \in Proc :
        /\ pc[p] \in Running => todo[p] \subseteq DOMAIN Plan(current[p].action)
        /\ pc[p] \in Claimed => todo[p] # {}

PlanExists == effective # None => effective.plan \in DOMAIN operations

Prepared == alloc # None => newest # None

Planned == TodoInPlan /\ PlanExists /\ Prepared /\ OffWithoutConfig(host)

(* What a step of an operation on t shows is on host h: after changes by   *)
(* anybody else only the absence that ends a delete.                       *)
Delivered(step, t, h, changes) ==
    (step # "observer/observe-absent" => changes = 0) => Shows(step, t, h)

Matched(o) == observation = [op |-> o, verdict |-> "match"]

(* A succeeded operation has succeeded in all its steps.                   *)
SuccessIsWhole == \A o \in DOMAIN operations : operations[o] = "succeeded" => AllSatisfied(o)

(* An answer that is not settled yet is true.                              *)
AnswerHolds ==
    \A p \in Proc : pc[p] \in {"record", "settle"} /\ result[p] \in {"done", "skipped"} =>
        /\ Delivered(StepName(p), TargetOf(current[p]), host, drifts)
        /\ pc[p] = "settle" /\ StepName(p) \in ObserverStep => Matched(current[p])

(* A satisfied step of the newest operation has delivered, and an observer *)
(* has stored what it saw.                                                 *)
StepHolds(o, i) ==
    /\ Delivered(Plan(o.action)[i], TargetOf(o), host, drifts)
    /\ Plan(o.action)[i] \in ObserverStep => Matched(o)

StepsHold ==
    newest # None => \A i \in DOMAIN steps[newest] :
        Satisfied(steps[newest][i]) => StepHolds(newest, i)

(* A delete is about the identity that is allocated, until an apply gives  *)
(* the resource another one.                                               *)
DeleteHolds ==
    newest # None /\ newest.action = "delete" /\ (operations[newest] = "succeeded" => archived)
        => Identity(alloc) = newest.allocation

Evidence == SuccessIsWhole /\ AnswerHolds /\ StepsHold /\ DeleteHolds

Evident ==
    /\ Orderly /\ Planned
    /\ LockIsSafe => Evidence
    /\ ConvergedHasEvidence /\ AbsentHasEvidence

(* The next step of a run is a step of its operation's plan.               *)
LEMMA NextInPlan ==
    ASSUME Wellformed, TodoInPlan, NEW p \in Proc, pc[p] \in Running, todo[p] # {}
    PROVE  /\ NextStep(p) \in todo[p] /\ NextStep(p) \in DOMAIN Plan(current[p].action)
           /\ current[p] \in Operation /\ current[p].action \in Action
           /\ current[p] \in DOMAIN operations
<1>1. current[p] \in DOMAIN operations /\ current[p] \in Operation
  BY DEF Wellformed, Progress, Running, Executing, TypeOK, JournalType
<1>2. current[p].action \in Action
  BY <1>1 DEF Operation
<1>3. todo[p] \subseteq DOMAIN Plan(current[p].action) /\ DOMAIN Plan(current[p].action) \subseteq 1..10
  BY <1>2, PlanLength DEF TodoInPlan
<1> QED BY <1>1, <1>2, <1>3, LeastStep DEF NextStep

(* What a step may do to the host.                                         *)
Untouched == host' = host /\ drifts' = drifts
CallOf(p) == /\ pc[p] = "ensure" /\ drifts' = drifts
             /\ host' \in Torn(StepName(p), TargetOf(current[p]), host)

(* Nothing but driver calls and other people changes the host.             *)
LEMMA HostChanges ==
    ASSUME [Next]_vars, Wellformed
    PROVE  Untouched \/ Drift \/ \E p \in Proc : CallOf(p)
<1> USE DEF Untouched, CallOf, faults
<1>1. ASSUME NEW p \in Proc, Prepare(p) PROVE Untouched
  BY <1>1 DEF Prepare, BeginTx, LockPreparation, RefuseApply, PrepareExecutableApply,
              PrepareExecutableDelete, PrepareExecutableReconcile, PrepareNotFound
<1>2. ASSUME NEW p \in Proc, Ensure(p) PROVE CallOf(p)
  <2> DEFINE step == StepName(p)
             t == TargetOf(current[p])
  <2>1. pc[p] = "ensure" /\ drifts' = drifts /\ t \in Target /\ host \in HostState
    BY <1>2, TargetTyped DEF Ensure, Executing, Wellformed, TypeOK
  <2>2. CASE host' = host
    BY <2>1, <2>2 DEF Torn
  <2>3. CASE MarkerMissing(step, t, host) /\ host' = HalfStored(t, host)
    BY <2>1, <2>3, HalfStoredTorn
  <2>4. CASE ~Blocked(step, t, host) /\ ~MarkerMissing(step, t, host) /\ host' = Ensured(step, t, host)
    BY <2>1, <2>4 DEF Torn
  <2> QED BY <1>2, <2>2, <2>3, <2>4 DEF Ensure, Answer
<1>3. ASSUME NEW p \in Proc, EnsureFails(p) PROVE CallOf(p)
  BY <1>3 DEF EnsureFails, Answer, Torn
<1>4. ASSUME NEW p \in Proc, Run(p), ~Ensure(p), ~EnsureFails(p) PROVE Untouched
  BY <1>4 DEF Run, InspectBefore, LockExecution, Inspect, ExecutionSteps, StartOperation,
              ClaimStep, RecordObservation, CompleteStep, FailStep, CompleteOperation, Report
<1>5. ASSUME NEW p \in Proc, Crash(p) PROVE Untouched \/ CallOf(p)
  BY <1>5 DEF Crash, Interrupted
<1>6. ASSUME NEW p \in Proc, SessionLoss(p) PROVE Untouched
  BY <1>6 DEF SessionLoss
<1>7. CASE UNCHANGED vars
  BY <1>7 DEF vars
<1> QED BY <1>1, <1>2, <1>3, <1>4, <1>5, <1>6, <1>7 DEF Next

(* At first nothing is planned.                                            *)
LEMMA PlannedInit == Init => Planned
BY DEF Init, Planned, TodoInPlan, PlanExists, Prepared, OffWithoutConfig, EmptyHost, Running, Claimed

(* A run reads its steps from the plan and only crosses them off.          *)
LEMMA TodoStep == Wellformed /\ TodoInPlan /\ [Next]_vars => TodoInPlan'
<1> SUFFICES ASSUME Wellformed, TodoInPlan, [Next]_vars PROVE TodoInPlan'
  OBVIOUS
<1>1. /\ pc \in [Proc -> Label] /\ todo \in [Proc -> SUBSET Nat]
      /\ current \in [Proc -> Operation \cup {None}]
  BY DEF Wellformed, TypeOK, ProcessType
<1> USE <1>1 DEF Goto, Return, Forget, Answer, work, Running, Claimed, TodoInPlan
<1>2. ASSUME NEW p \in Proc, Prepare(p) PROVE TodoInPlan'
  BY <1>2 DEF Prepare, BeginTx, LockPreparation, RefuseApply, PrepareExecutableApply,
              PrepareExecutableDelete, PrepareExecutableReconcile, PrepareNotFound
<1>3. ASSUME NEW p \in Proc, Run(p) PROVE TodoInPlan'
  <2>1. CASE InspectBefore(p) \/ LockExecution(p) \/ Inspect(p) \/ Report(p)
    BY <2>1 DEF InspectBefore, LockExecution, Inspect, Report
  <2>2. CASE ExecutionSteps(p)
    <3>1. current[p] \in DOMAIN operations
      BY <2>2 DEF ExecutionSteps, Wellformed, Progress, Executing
    <3>2. Unsatisfied(current[p]) \subseteq DOMAIN Plan(current[p].action)
      BY <3>1, StepRows DEF Unsatisfied
    <3> QED BY <2>2, <3>2 DEF ExecutionSteps
  <2>3. CASE StartOperation(p) \/ CompleteOperation(p) \/ ClaimStep(p)
    BY <2>3 DEF StartOperation, CompleteOperation, ClaimStep
  <2>4. CASE Ensure(p) \/ EnsureFails(p) \/ RecordObservation(p)
    BY <2>4 DEF Ensure, EnsureFails, RecordObservation
  <2>5. CASE CompleteStep(p) \/ FailStep(p)
    BY <2>5 DEF CompleteStep, FailStep
  <2> QED BY <1>3, <2>1, <2>2, <2>3, <2>4, <2>5 DEF Run
<1>4. ASSUME NEW p \in Proc, Crash(p) \/ SessionLoss(p) PROVE TodoInPlan'
  BY <1>4 DEF Crash, SessionLoss
<1>5. CASE Drift \/ UNCHANGED vars
  BY <1>5 DEF Drift, vars
<1> QED BY <1>2, <1>3, <1>4, <1>5 DEF Next

(* vm_effective is written with the operation that is persisted.           *)
LEMMA PlanExistsStep == Wellformed /\ PlanExists /\ [Next]_vars => PlanExists'
<1> SUFFICES ASSUME Wellformed, PlanExists, [Next]_vars PROVE PlanExists'
  OBVIOUS
<1> USE DEF PlanExists, resource, journal
<1>1. ASSUME NEW p \in Proc, NEW o, NEW statuses, NEW rows, NEW state,
             Persist(p, o, statuses, rows), MarkEffective(state, o),
             DOMAIN statuses = DOMAIN operations
      PROVE  PlanExists'
  BY <1>1 DEF Persist, MarkEffective
<1>2. ASSUME NEW p \in Proc, Prepare(p) PROVE PlanExists'
  <2>1. CASE PrepareExecutableApply(p)
    BY <1>1, <2>1 DEF PrepareExecutableApply, OnConflict
  <2>2. CASE PrepareExecutableDelete(p)
    BY <1>1, <2>2 DEF PrepareExecutableDelete, OnConflict
  <2>3. CASE PrepareExecutableReconcile(p)
    BY <1>1, <2>3 DEF PrepareExecutableReconcile
  <2>4. CASE BeginTx(p) \/ LockPreparation(p) \/ RefuseApply(p) \/ PrepareNotFound(p)
    BY <2>4 DEF BeginTx, LockPreparation, RefuseApply, PrepareNotFound
  <2> QED BY <1>2, <2>1, <2>2, <2>3, <2>4 DEF Prepare
<1>3. ASSUME NEW p \in Proc, CompleteOperation(p) PROVE PlanExists'
  <2>1. effective \in EffectiveRow /\ operations \in [DOMAIN operations -> OperationStatus]
    BY <1>3 DEF CompleteOperation, Wellformed, TypeOK, Progress, Executing, RowsTogether,
                ResourceType, JournalType
  <2>2. effective' = [effective EXCEPT !.state = FinalState(current[p].action)]
        /\ DOMAIN operations' = DOMAIN operations
    BY <1>3 DEF CompleteOperation
  <2>3. effective'.plan = effective.plan /\ effective # None
    BY <2>1, <2>2, RowAssumption DEF EffectiveRow
  <2> QED BY <2>2, <2>3
<1>4. ASSUME NEW p \in Proc, Run(p), ~CompleteOperation(p) PROVE PlanExists'
  <2>1. effective' = effective /\ DOMAIN operations' = DOMAIN operations
    BY <1>4 DEF Run, InspectBefore, LockExecution, Inspect, ExecutionSteps, StartOperation,
              ClaimStep, Ensure, EnsureFails, Answer, RecordObservation, CompleteStep,
              FailStep, Report
  <2> QED BY <2>1
<1>5. ASSUME NEW p \in Proc, Crash(p) \/ SessionLoss(p) PROVE PlanExists'
  BY <1>5 DEF Crash, SessionLoss
<1>6. CASE Drift \/ UNCHANGED vars
  BY <1>6 DEF Drift, vars
<1> QED BY <1>2, <1>3, <1>4, <1>5, <1>6 DEF Next

(* The transaction that allocates has an operation to run.                 *)
LEMMA PreparedStep == Wellformed /\ Prepared /\ [Next]_vars => Prepared'
<1> SUFFICES ASSUME Wellformed, Prepared, [Next]_vars PROVE Prepared'
  OBVIOUS
<1>1. Wellformed' /\ pc \in [Proc -> Label]
  BY WellformedStep DEF Wellformed, TypeOK, ProcessType
<1> USE DEF Prepared, journal, resource
<1>2. ASSUME NEW p \in Proc, Prepare(p) PROVE Prepared'
  <2>1. CASE \/ PrepareExecutableApply(p) \/ PrepareExecutableDelete(p)
             \/ PrepareExecutableReconcile(p)
    <3>1. pc'[p] \in {"again", "run"}
      BY <1>1, <2>1 DEF PrepareExecutableApply, PrepareExecutableDelete,
                        PrepareExecutableReconcile, Goto
    <3> QED BY <1>1, <3>1 DEF Wellformed, Progress
  <2>2. CASE BeginTx(p) \/ LockPreparation(p) \/ RefuseApply(p) \/ PrepareNotFound(p)
    BY <2>2 DEF BeginTx, LockPreparation, RefuseApply, PrepareNotFound
  <2> QED BY <1>2, <2>1, <2>2 DEF Prepare
<1>3. ASSUME NEW p \in Proc, CompleteOperation(p) PROVE Prepared'
  <2>1. newest # None /\ newest' = newest
    BY <1>3 DEF CompleteOperation, Wellformed, Progress, Executing
  <2> QED BY <2>1
<1>4. ASSUME NEW p \in Proc, Run(p), ~CompleteOperation(p) PROVE Prepared'
  BY <1>4 DEF Run, InspectBefore, LockExecution, Inspect, ExecutionSteps, StartOperation,
              ClaimStep, Ensure, EnsureFails, Answer, RecordObservation, CompleteStep,
              FailStep, Report
<1>5. ASSUME NEW p \in Proc, Crash(p) \/ SessionLoss(p) PROVE Prepared'
  BY <1>5 DEF Crash, SessionLoss
<1>6. CASE Drift \/ UNCHANGED vars
  BY <1>6 DEF Drift, vars
<1> QED BY <1>2, <1>3, <1>4, <1>5, <1>6 DEF Next

(* No driver call and nobody else runs a guest that has no configuration.  *)
LEMMA OffStep ==
    Wellformed /\ OffWithoutConfig(host) /\ [Next]_vars => OffWithoutConfig(host')
<1> SUFFICES ASSUME Wellformed, OffWithoutConfig(host), [Next]_vars
             PROVE  OffWithoutConfig(host')
  OBVIOUS
<1>1. host \in HostState
  BY DEF Wellformed, TypeOK
<1>2. CASE Untouched
  BY <1>2 DEF Untouched
<1>3. CASE Drift
  BY <1>1, <1>3 DEF Drift, OffWithoutConfig, VMExists, HostState
<1>4. ASSUME NEW p \in Proc, CallOf(p) PROVE OffWithoutConfig(host')
  <2>1. TargetOf(current[p]) \in Target
    BY <1>4, TargetTyped DEF CallOf, Executing
  <2> QED BY <1>1, <1>4, <2>1, TornKeepsOff DEF CallOf
<1> QED BY <1>2, <1>3, <1>4, HostChanges

(* Every step keeps what needs no lock.                                    *)
LEMMA PlannedStep == Wellformed /\ Planned /\ [Next]_vars => Planned'
BY TodoStep, PlanExistsStep, PreparedStep, OffStep DEF Planned, OffWithoutConfig

(***************************************************************************)
(* Storage is destroyed only by the delete operation.                      *)
(***************************************************************************)
DestroyedByDelete ==
    host.disk # 0 /\ host'.disk = 0 =>
        \/ drifts' # drifts
        \/ \E p \in Proc : current[p] # None /\ current[p].action = "delete"

(* A zvol that a step destroys was destroyed by a step of a delete.        *)
LEMMA DestroyedStep == Wellformed /\ Planned /\ [Next]_vars => DestroyedByDelete
<1> SUFFICES ASSUME Wellformed, Planned, [Next]_vars, host.disk # 0, host'.disk = 0, drifts' = drifts
             PROVE  \E p \in Proc : current[p] # None /\ current[p].action = "delete"
  BY DEF DestroyedByDelete
<1>1. ~Untouched
  BY DEF Untouched
<1>2. ~Drift
  BY DEF Drift, Wellformed, TypeOK, FaultType
<1>3. PICK p \in Proc : CallOf(p)
  BY <1>1, <1>2, HostChanges
<1>4. TargetOf(current[p]) \in Target /\ host \in HostState
  BY <1>3, TargetTyped DEF CallOf, Executing, Wellformed, TypeOK
<1>5. StepName(p) = "zfs/ensure-absent"
  BY <1>3, <1>4, TornKeepsStorage DEF CallOf
<1>6. /\ NextStep(p) \in DOMAIN Plan(current[p].action) /\ current[p].action \in Action
      /\ current[p] \in Operation
  BY <1>3, NextInPlan DEF CallOf, Planned, TodoInPlan, Running, Claimed
<1> QED BY <1>5, <1>6, PlanOrder, HostAssumption DEF StepName

(* Whatever fails, crashes or overlaps, lost lock sessions included: no    *)
(* driver call of an apply or a reconcile ever leaves a zvol destroyed.    *)
THEOREM OnlyDeleteDestroys == Spec => StorageDestroyedByDelete
<1>1. Wellformed /\ Planned /\ [Next]_vars => [DestroyedByDelete]_vars
  BY DestroyedStep
<1> QED BY WellformedInit, WellformedStep, PlannedInit, PlannedStep, <1>1, PTL
        DEF Spec, StorageDestroyedByDelete, DestroyedByDelete
--------------------------------------------------------------------------------
(***************************************************************************)
(* The evidence is kept.                                                   *)
(***************************************************************************)

(* The newest operation, its target, and its steps.                        *)
LEMMA NewestTyped ==
    ASSUME Wellformed, newest # None
    PROVE  /\ newest \in DOMAIN operations /\ newest \in Operation /\ newest.action \in Action
           /\ newest.generation \in DOMAIN declared /\ TargetOf(newest) \in Target
           /\ DOMAIN steps[newest] = DOMAIN Plan(newest.action)
           /\ DOMAIN steps[newest] \subseteq 1..10
<1>1. newest \in DOMAIN operations /\ newest \in Operation
  BY DEF Wellformed, TypeOK, JournalType
<1>2. newest.action \in Action /\ newest.allocation.identity \in Identities
  BY <1>1 DEF Operation, Allocation
<1>3. newest.generation \in DOMAIN declared
  BY <1>1 DEF Wellformed, RowsTogether
<1>4. declared[newest.generation] \in Manifests
  BY <1>3 DEF Wellformed, TypeOK, ResourceType
<1> QED BY <1>1, <1>2, <1>3, <1>4, StepRows DEF TargetOf, Target

(* Declarations are only added.                                            *)
LEMMA TargetStable ==
    ASSUME Wellformed, [Next]_vars, NEW o, o \in DOMAIN operations
    PROVE  declared'[o.generation] = declared[o.generation]
<1>1. o.generation \in DOMAIN declared /\ declared \in Seq(Manifests)
  BY DEF Wellformed, RowsTogether, TypeOK, ResourceType
<1>2. CASE declared' = declared
  BY <1>2
<1>3. CASE \E m \in Manifests : declared' = Append(declared, m)
  BY <1>1, <1>3
<1> USE DEF resource
<1>4. ASSUME NEW p \in Proc, Prepare(p)
      PROVE  declared' = declared \/ \E m \in Manifests : declared' = Append(declared, m)
  <2>1. CASE PrepareExecutableApply(p)
    <3>1. cmd[p].manifest \in Manifests
      BY <2>1, ExecutionAssumption DEF PrepareExecutableApply, Wellformed, TypeOK, ProcessType, Progress
    <3> QED BY <2>1, <3>1 DEF PrepareExecutableApply, Declare
  <2>2. CASE ~PrepareExecutableApply(p)
    BY <1>4, <2>2 DEF Prepare, BeginTx, LockPreparation, RefuseApply, PrepareExecutableDelete,
              PrepareExecutableReconcile, PrepareNotFound
  <2> QED BY <2>1, <2>2
<1>5. ASSUME NEW p \in Proc, Run(p) PROVE declared' = declared
  BY <1>5 DEF Run, InspectBefore, LockExecution, Inspect, ExecutionSteps, StartOperation,
              ClaimStep, Ensure, EnsureFails, Answer, RecordObservation, CompleteStep,
              FailStep, CompleteOperation, Report
<1>6. ASSUME NEW p \in Proc, Crash(p) \/ SessionLoss(p) PROVE declared' = declared
  BY <1>6 DEF Crash, SessionLoss
<1>7. CASE Drift \/ UNCHANGED vars
  BY <1>7 DEF Drift, vars
<1> QED BY <1>2, <1>3, <1>4, <1>5, <1>6, <1>7 DEF Next

(* Anybody else's change of the host takes nothing from an absence.        *)
LEMMA DriftKeeps ==
    ASSUME Wellformed, Drift, NEW step, NEW t \in Target, Delivered(step, t, host, drifts)
    PROVE  Delivered(step, t, host', drifts')
<1>1. drifts' # 0 /\ host \in HostState
  BY DEF Drift, Wellformed, TypeOK, FaultType
<1>2. ASSUME ObservedAbsent(t, host) PROVE ObservedAbsent(t, host')
  BY <1>1, <1>2 DEF Drift, ObservedAbsent, VMExists, HostState
<1> QED BY <1>1, <1>2 DEF Delivered, Shows

(* While a call runs, the satisfied steps are those before it.             *)
LEMMA SatisfiedBefore ==
    ASSUME Orderly, LockIsSafe, NEW p \in Proc, pc[p] \in Running, todo[p] # {},
           NEW i \in DOMAIN steps[newest], Satisfied(steps[newest][i])
    PROVE  /\ current[p] = newest /\ newest # None
           /\ NextStep(p) \in DOMAIN Plan(newest.action) /\ i < NextStep(p)
<1>1. /\ current[p] = newest /\ newest \in DOMAIN operations /\ newest # None
      /\ IsFirst(NextStep(p), newest)
  BY NextStepIsFirst
<1>2. DOMAIN steps[newest] = DOMAIN Plan(newest.action) /\ DOMAIN steps[newest] \subseteq 1..10
  BY <1>1, StepRows DEF Orderly, Serial
<1>3. NextStep(p) \in DOMAIN steps[newest] /\ ~Satisfied(steps[newest][NextStep(p)])
  BY <1>1 DEF IsFirst, Unsatisfied
<1>4. ~(NextStep(p) < i) /\ NextStep(p) # i
  BY <1>1, <1>3 DEF Orderly, StepsInOrder
<1> QED BY <1>1, <1>2, <1>3, <1>4

(* What a satisfied step of the newest operation has delivered stays       *)
(* there: the steps that follow do not undo it, wherever they are cut off. *)
LEMMA DeliveredStays ==
    ASSUME Orderly, Planned, LockIsSafe, [Next]_vars, newest # None,
           NEW i \in DOMAIN steps[newest], Satisfied(steps[newest][i]),
           Delivered(Plan(newest.action)[i], TargetOf(newest), host, drifts)
    PROVE  Delivered(Plan(newest.action)[i], TargetOf(newest), host', drifts')
<1> DEFINE step == Plan(newest.action)[i]
           t == TargetOf(newest)
<1>1. Wellformed /\ host \in HostState
  BY DEF Orderly, Serial, Wellformed, TypeOK
<1>2. /\ t \in Target /\ newest.action \in Action /\ i \in DOMAIN Plan(newest.action)
  BY <1>1, NewestTyped
<1>3. CASE Untouched
  BY <1>3 DEF Untouched
<1>4. CASE Drift
  <2> HIDE DEF step, t
  <2>1. Delivered(step, t, host, drifts)
    BY DEF step, t
  <2>2. Delivered(step, t, host', drifts')
    BY <1>1, <1>2, <1>4, <2>1, DriftKeeps
  <2> QED BY <2>2 DEF step, t
<1>5. ASSUME NEW p \in Proc, CallOf(p) PROVE Delivered(step, t, host', drifts')
  <2> DEFINE n == NextStep(p)
             other == Plan(newest.action)[n]
  <2>1. pc[p] \in Running /\ todo[p] # {}
    BY <1>5 DEF CallOf, Planned, TodoInPlan, Running, Claimed
  <2>2. current[p] = newest /\ n \in DOMAIN Plan(newest.action) /\ i < n
    BY <2>1, SatisfiedBefore
  <2>3. host' \in Torn(other, t, host) /\ drifts' = drifts
    BY <1>5, <2>2 DEF CallOf, StepName
  <2>4. step \notin ObserverStep /\ (step \in Building => other \notin Removing)
    BY <1>2, <2>2, PlanOrder
  <2>5. ASSUME step \in Building, Shows(step, t, host) PROVE Shows(step, t, host')
    <3> HIDE DEF step, t, other
    <3> QED BY <1>1, <1>2, <2>3, <2>4, <2>5, TornKeepsBuilt
  <2>6. step \notin Building => Shows(step, t, host')
    BY <2>4 DEF Shows, Building, ObserverStep
  <2> QED BY <2>3, <2>4, <2>5, <2>6 DEF Delivered, ObserverStep
<1> QED BY <1>1, <1>3, <1>4, <1>5, HostChanges

(* The newest operation stays: its evidence stays but for a step that is   *)
(* newly satisfied, and an observer's when another observation is stored.  *)
LEMMA StepsStay ==
    ASSUME Orderly, Planned, LockIsSafe, StepsHold, [Next]_vars, newest' = newest,
           newest # None => \A i \in DOMAIN steps'[newest] : Satisfied(steps'[newest][i]) =>
              \/ /\ i \in DOMAIN steps[newest] /\ Satisfied(steps[newest][i])
                 /\ \/ observation' = observation
                    \/ Plan(newest.action)[i] \notin ObserverStep
              \/ /\ Delivered(Plan(newest.action)[i], TargetOf(newest), host', drifts')
                 /\ Plan(newest.action)[i] \in ObserverStep =>
                        observation' = [op |-> newest, verdict |-> "match"]
    PROVE  StepsHold'
<1> SUFFICES ASSUME newest # None, NEW i \in DOMAIN steps'[newest], Satisfied(steps'[newest][i])
             PROVE  /\ Delivered(Plan(newest.action)[i], TargetOf(newest), host', drifts')
                    /\ Plan(newest.action)[i] \in ObserverStep =>
                           observation' = [op |-> newest, verdict |-> "match"]
  <2>1. newest # None => TargetOf(newest)' = TargetOf(newest)
    BY TargetStable, NewestTyped DEF TargetOf, Orderly, Serial
  <2> QED BY <2>1 DEF StepsHold, StepHolds, Matched
<1>1. CASE i \in DOMAIN steps[newest] /\ Satisfied(steps[newest][i])
           /\ (observation' = observation \/ Plan(newest.action)[i] \notin ObserverStep)
  <2>1. /\ Delivered(Plan(newest.action)[i], TargetOf(newest), host, drifts)
        /\ Plan(newest.action)[i] \in ObserverStep => Matched(newest)
    BY <1>1 DEF StepsHold, StepHolds
  <2> QED BY <1>1, <2>1, DeliveredStays DEF Matched
<1> QED BY <1>1
--------------------------------------------------------------------------------

(* The journal after a preparation has persisted its operation: a success  *)
(* is an old one, and the newest operation is untouched or all pending.    *)
LEMMA PersistJournal ==
    ASSUME Wellformed, NEW p \in Proc, NEW o, NEW statuses, NEW rows,
           Persist(p, o, statuses, rows), DOMAIN statuses = DOMAIN operations,
           \A k \in DOMAIN operations :
              \/ statuses[k] = operations[k] /\ rows[k] = steps[k]
              \/ statuses[k] # "succeeded" /\ \A i \in DOMAIN rows[k] : rows[k][i] = "pending"
    PROVE  /\ \A k \in DOMAIN operations' : operations'[k] = "succeeded" =>
                 k \in DOMAIN operations /\ operations[k] = "succeeded" /\ steps'[k] = steps[k]
           /\ \/ newest' # o /\ newest' = newest
              \/ newest' = o
           /\ newest = newest' /\ newest # None =>
                 \/ operations'[newest] = operations[newest] /\ steps'[newest] = steps[newest]
                 \/ /\ operations'[newest] # "succeeded"
                    /\ \A i \in DOMAIN steps'[newest] : steps'[newest][i] = "pending"
           /\ newest' # newest =>
                 /\ operations'[newest'] # "succeeded"
                 /\ \A i \in DOMAIN steps'[newest'] : steps'[newest'][i] = "pending"
<1>1. DOMAIN steps = DOMAIN operations /\ newest \in DOMAIN operations \cup {None}
  BY DEF Wellformed, TypeOK, JournalType
<1>2. CASE o \in DOMAIN operations
  <2>1. operations' = statuses /\ steps' = rows /\ newest' = newest
    BY <1>2 DEF Persist
  <2> QED BY <1>1, <1>2, <2>1
<1>3. CASE o \notin DOMAIN operations
  <2>1. operations' = [k \in DOMAIN operations \cup {o} |->
                          IF k = o THEN "pending" ELSE operations[k]]
    BY <1>3 DEF Persist
  <2>2. steps' = [k \in DOMAIN steps \cup {o} |->
                     IF k = o THEN [i \in DOMAIN Plan(o.action) |-> "pending"] ELSE steps[k]]
    BY <1>3 DEF Persist
  <2>3. newest' = newest \/ newest' = o
    BY <1>3 DEF Persist
  <2> QED BY <1>1, <1>3, <2>1, <2>2, <2>3
<1> QED BY <1>2, <1>3

(* The next step of a process that is left alone.                          *)
LEMMA SameNext ==
    ASSUME NEW q \in Proc, todo'[q] = todo[q], current'[q] = current[q]
    PROVE  NextStep(q)' = NextStep(q) /\ StepName(q)' = StepName(q)
BY DEF NextStep, StepName

(* An answer stays true while the host, the observation and its process    *)
(* are left alone.                                                         *)
LEMMA AnswerFrame ==
    ASSUME Wellformed, AnswerHolds, [Next]_vars, NEW p,
           UNCHANGED <<host, drifts, observation>>,
           \A q \in Proc \ {p} : pc'[q] = pc[q] /\ todo'[q] = todo[q]
                                 /\ current'[q] = current[q] /\ result'[q] = result[q],
           p \in Proc => pc'[p] \notin {"record", "settle"}
    PROVE  AnswerHolds'
<1> SUFFICES ASSUME NEW q \in Proc, pc'[q] \in {"record", "settle"},
                    result'[q] \in {"done", "skipped"}
             PROVE  /\ Delivered(StepName(q)', TargetOf(current[q])', host', drifts')
                    /\ pc'[q] = "settle" /\ StepName(q)' \in ObserverStep => Matched(current[q])'
  BY DEF AnswerHolds
<1>1. /\ pc'[q] = pc[q] /\ todo'[q] = todo[q]
      /\ current'[q] = current[q] /\ result'[q] = result[q]
  OBVIOUS
<1>2. StepName(q)' = StepName(q)
  BY <1>1, SameNext
<1>3. current[q] \in DOMAIN operations
  BY <1>1 DEF Wellformed, Progress, Executing
<1>4. TargetOf(current[q])' = TargetOf(current[q])
  BY <1>1, <1>3, TargetStable DEF TargetOf
<1>5. Matched(current[q])' = Matched(current[q])
  BY <1>1 DEF Matched
<1> QED BY <1>1, <1>2, <1>4, <1>5 DEF AnswerHolds

(* Nobody else has an answer to settle while a process executes.           *)
LEMMA AnswerAlone ==
    ASSUME Orderly, LockIsSafe, NEW p \in Proc, pc[p] \in Executing,
           \A q \in Proc \ {p} : pc'[q] = pc[q],
           pc'[p] \in {"record", "settle"} /\ result'[p] \in {"done", "skipped"} =>
              /\ Delivered(StepName(p)', TargetOf(current[p])', host', drifts')
              /\ pc'[p] = "settle" /\ StepName(p)' \in ObserverStep => Matched(current[p])'
    PROVE  AnswerHolds'
<1>1. \A q \in Proc \ {p} : pc[q] \notin {"record", "settle"}
  BY DEF Orderly, Serial, Exclusion, ExclusiveMutator, Holding, Executing
<1> QED BY <1>1 DEF AnswerHolds

(* The steps of a command that have no answer to settle afterwards.        *)
LEMMA AnswerStep == Evident /\ LockIsSafe /\ LockIsSafe' /\ [Next]_vars => AnswerHolds'
<1> SUFFICES ASSUME Evident, LockIsSafe, LockIsSafe', [Next]_vars PROVE AnswerHolds'
  OBVIOUS
<1>1. /\ Orderly /\ Wellformed /\ AnswerHolds /\ TodoInPlan /\ host \in HostState
      /\ pc \in [Proc -> Label] /\ todo \in [Proc -> SUBSET Nat]
      /\ current \in [Proc -> Operation \cup {None}]
      /\ result \in [Proc -> Outcome \cup {None}]
  BY DEF Evident, Evidence, Planned, Orderly, Serial, Wellformed, TypeOK, ProcessType
<1> USE DEF Goto, Return, Forget, work, faults
<1>2. ASSUME NEW p \in Proc, Prepare(p) PROVE AnswerHolds'
  <2>1. /\ UNCHANGED <<host, drifts, observation>> /\ pc'[p] \notin {"record", "settle"}
        /\ \A q \in Proc \ {p} : pc'[q] = pc[q] /\ todo'[q] = todo[q]
                                 /\ current'[q] = current[q] /\ result'[q] = result[q]
    BY <1>1, <1>2 DEF Prepare, BeginTx, LockPreparation, RefuseApply, PrepareExecutableApply,
              PrepareExecutableDelete, PrepareExecutableReconcile, PrepareNotFound
  <2> QED BY <1>1, <2>1, AnswerFrame
<1>3. ASSUME NEW p \in Proc, Run(p) PROVE AnswerHolds'
  <2>1. CASE InspectBefore(p) \/ LockExecution(p) \/ Inspect(p) \/ Report(p)
    <3>1. /\ UNCHANGED <<host, drifts, observation>> /\ pc'[p] \notin {"record", "settle"}
          /\ \A q \in Proc \ {p} : pc'[q] = pc[q] /\ todo'[q] = todo[q]
                                   /\ current'[q] = current[q] /\ result'[q] = result[q]
      BY <1>1, <2>1 DEF InspectBefore, LockExecution, Inspect, Report
    <3> QED BY <1>1, <3>1, AnswerFrame
  <2>2. CASE \/ ExecutionSteps(p) \/ StartOperation(p) \/ CompleteOperation(p)
             \/ ClaimStep(p) \/ CompleteStep(p) \/ FailStep(p)
    <3>1. /\ UNCHANGED <<host, drifts, observation>> /\ pc'[p] \notin {"record", "settle"}
          /\ \A q \in Proc \ {p} : pc'[q] = pc[q] /\ todo'[q] = todo[q]
                                   /\ current'[q] = current[q] /\ result'[q] = result[q]
      BY <1>1, <2>2 DEF ExecutionSteps, StartOperation, CompleteOperation, ClaimStep,
                        CompleteStep, FailStep
    <3> QED BY <1>1, <3>1, AnswerFrame
  <2>3. CASE Ensure(p)
    <3> DEFINE step == StepName(p)
               t == TargetOf(current[p])
    <3>1. /\ pc[p] = "ensure" /\ \A q \in Proc \ {p} : pc'[q] = pc[q]
          /\ todo' = todo /\ current' = current /\ declared' = declared /\ drifts' = drifts
      BY <1>1, <2>3 DEF Ensure, Answer, resource
    <3>2. step' = step /\ t' = t
      BY <3>1, SameNext DEF TargetOf
    <3>3. t \in Target
      BY <1>1, <3>1, TargetTyped DEF Executing
    <3>4. ASSUME result'[p] \in {"done", "skipped"} PROVE Shows(step, t, host')
      <4>1. /\ ~Blocked(step, t, host) /\ ~MarkerMissing(step, t, host) /\ ~Drifted(step, t, host)
            /\ host' = Ensured(step, t, host)
        BY <1>1, <2>3, <3>4 DEF Ensure, Answer
      <4> HIDE DEF step, t
      <4> QED BY <1>1, <3>3, <4>1, CallShows
    <3>5. pc'[p] = "settle" => step \notin ObserverStep
      BY <1>1, <2>3 DEF Ensure, Answer
    <3>6. result'[p] \in {"done", "skipped"} => Delivered(step, t, host', drifts')
      BY <3>4 DEF Delivered
    <3> HIDE DEF step, t
    <3>7. pc'[p] \in {"record", "settle"} /\ result'[p] \in {"done", "skipped"} =>
              /\ Delivered(step', t', host', drifts')
              /\ pc'[p] = "settle" /\ step' \in ObserverStep => Matched(current[p])'
      BY <3>2, <3>5, <3>6
    <3> QED BY <1>1, <3>1, <3>7, AnswerAlone DEF step, t, Executing
  <2>4. CASE EnsureFails(p)
    <3>1. /\ pc[p] = "ensure" /\ \A q \in Proc \ {p} : pc'[q] = pc[q]
          /\ result'[p] \in {"failed", "drift", "blocked"}
      BY <1>1, <2>4 DEF EnsureFails, Answer
    <3> QED BY <1>1, <3>1, AnswerAlone DEF Executing
  <2>5. CASE RecordObservation(p)
    <3> DEFINE step == StepName(p)
               t == TargetOf(current[p])
    <3>1. /\ pc[p] = "record" /\ \A q \in Proc \ {p} : pc'[q] = pc[q]
          /\ todo' = todo /\ current' = current /\ declared' = declared
          /\ host' = host /\ drifts' = drifts
      BY <1>1, <2>5 DEF RecordObservation, resource
    <3>2. step' = step /\ t' = t
      BY <3>1, SameNext DEF TargetOf
    <3>3. ASSUME result'[p] \in {"done", "skipped"}
          PROVE  /\ result[p] = "done"
                 /\ observation' = [op |-> current[p], verdict |-> VerdictOf(result[p])]
      BY <1>1, <2>5, <3>3 DEF RecordObservation, Wellformed, Progress
    <3>4. result'[p] \in {"done", "skipped"} => Delivered(step, t, host, drifts)
      BY <3>1, <3>3 DEF AnswerHolds, Evident, Evidence
    <3>5. result'[p] \in {"done", "skipped"} => Matched(current[p])'
      BY <3>1, <3>3 DEF Matched, VerdictOf
    <3> HIDE DEF step, t
    <3>6. pc'[p] \in {"record", "settle"} /\ result'[p] \in {"done", "skipped"} =>
              /\ Delivered(step', t', host', drifts')
              /\ pc'[p] = "settle" /\ step' \in ObserverStep => Matched(current[p])'
      BY <3>1, <3>2, <3>4, <3>5
    <3> QED BY <1>1, <3>1, <3>6, AnswerAlone DEF step, t, Executing
  <2> QED BY <1>3, <2>1, <2>2, <2>3, <2>4, <2>5 DEF Run
<1>4. ASSUME NEW p \in Proc, Crash(p) PROVE AnswerHolds'
  <2>1. /\ UNCHANGED <<drifts, observation>> /\ pc'[p] \notin {"record", "settle"}
        /\ \A q \in Proc \ {p} : pc'[q] = pc[q] /\ todo'[q] = todo[q]
                                 /\ current'[q] = current[q] /\ result'[q] = result[q]
    BY <1>1, <1>4 DEF Crash
  <2>2. CASE pc[p] = "ensure"
    BY <1>1, <2>1, <2>2, AnswerAlone DEF Executing
  <2>3. CASE pc[p] # "ensure"
    <3>1. host' = host
      BY <1>4, <2>3 DEF Crash, Interrupted
    <3> QED BY <1>1, <2>1, <3>1, AnswerFrame
  <2> QED BY <2>2, <2>3
<1>5. ASSUME NEW p \in Proc, SessionLoss(p) PROVE FALSE
  <2>1. losses \in Nat /\ losses' = losses + 1
    BY <1>1, <1>5 DEF SessionLoss, Orderly, Serial, Exclusion
  <2> QED BY <2>1 DEF LockIsSafe
<1>6. CASE Drift
  <2>1. UNCHANGED <<pc, todo, current, result, declared, observation>>
    BY <1>6 DEF Drift, resource
  <2> SUFFICES ASSUME NEW q \in Proc, pc[q] \in {"record", "settle"},
                      result[q] \in {"done", "skipped"}
               PROVE  /\ Delivered(StepName(q), TargetOf(current[q]), host', drifts')
                      /\ pc[q] = "settle" /\ StepName(q) \in ObserverStep => Matched(current[q])
    <3>1. \A q \in Proc : /\ StepName(q)' = StepName(q) /\ TargetOf(current[q])' = TargetOf(current[q])
                          /\ Matched(current[q])' = Matched(current[q])
      BY <2>1, SameNext DEF TargetOf, Matched
    <3> QED BY <2>1, <3>1 DEF AnswerHolds
  <2>2. TargetOf(current[q]) \in Target
    BY <1>1, TargetTyped DEF Executing
  <2>3. Delivered(StepName(q), TargetOf(current[q]), host, drifts)
        /\ (pc[q] = "settle" /\ StepName(q) \in ObserverStep => Matched(current[q]))
    BY <1>1 DEF AnswerHolds
  <2> QED BY <1>1, <1>6, <2>2, <2>3, DriftKeeps
<1>7. CASE UNCHANGED vars
  <2>1. UNCHANGED <<host, drifts, observation, pc, todo, current, result>>
    BY <1>7 DEF vars
  <2>2. None \notin Proc
    BY ExecutionAssumption
  <2> QED BY <1>1, <2>1, <2>2, AnswerFrame
<1> QED BY <1>2, <1>3, <1>4, <1>5, <1>6, <1>7 DEF Next
(* The part of the evidence that the journal carries.                      *)
Journalled == SuccessIsWhole /\ StepsHold /\ DeleteHolds /\ ConvergedHasEvidence /\ AbsentHasEvidence

(* A step that leaves the journal, the resource and the observation alone. *)
LEMMA JournalFrame ==
    ASSUME Evident, LockIsSafe, [Next]_vars, UNCHANGED <<journal, resource, observation>>
    PROVE  Journalled'
<1>1. UNCHANGED <<operations, steps, newest, declared, archived, alloc, effective, observation>>
  BY DEF journal, resource
<1>2. SuccessIsWhole'
  BY <1>1 DEF Evident, Evidence, SuccessIsWhole, AllSatisfied
<1>3. StepsHold'
  BY <1>1, StepsStay DEF Evident, Evidence
<1>4. DeleteHolds'
  BY <1>1 DEF Evident, Evidence, DeleteHolds, Identity
<1>5. ConvergedHasEvidence' /\ AbsentHasEvidence'
  BY <1>1 DEF Evident, ConvergedHasEvidence, AbsentHasEvidence, AllSatisfied, LockIsSafe
<1> QED BY <1>2, <1>3, <1>4, <1>5 DEF Journalled

(* What persisting an operation leaves of the evidence.                    *)
LEMMA PersistKeepsEvidence ==
    ASSUME Evident, LockIsSafe, [Next]_vars, NEW p \in Proc, NEW o, NEW statuses, NEW rows,
           Persist(p, o, statuses, rows), observation' = observation,
           DOMAIN statuses = DOMAIN operations,
           \A k \in DOMAIN operations :
              \/ statuses[k] = operations[k] /\ rows[k] = steps[k]
              \/ statuses[k] # "succeeded" /\ \A i \in DOMAIN rows[k] : rows[k][i] = "pending"
    PROVE  SuccessIsWhole' /\ StepsHold'
<1>1. Wellformed
  BY DEF Evident, Orderly, Serial
<1>2. /\ \A k \in DOMAIN operations' : operations'[k] = "succeeded" =>
            k \in DOMAIN operations /\ operations[k] = "succeeded" /\ steps'[k] = steps[k]
      /\ newest = newest' /\ newest # None =>
            \/ operations'[newest] = operations[newest] /\ steps'[newest] = steps[newest]
            \/ /\ operations'[newest] # "succeeded"
               /\ \A i \in DOMAIN steps'[newest] : steps'[newest][i] = "pending"
      /\ newest' # newest =>
            /\ operations'[newest'] # "succeeded"
            /\ \A i \in DOMAIN steps'[newest'] : steps'[newest'][i] = "pending"
  BY <1>1, PersistJournal
<1>3. SuccessIsWhole'
  BY <1>2 DEF Evident, Evidence, SuccessIsWhole, AllSatisfied
<1>4. ~Satisfied("pending")
  BY DEF Satisfied
<1>5. CASE newest' # newest
  BY <1>2, <1>3, <1>4, <1>5 DEF StepsHold
<1>6. CASE newest' = newest
  BY <1>2, <1>3, <1>4, <1>6, StepsStay DEF Evident, Evidence
<1> QED BY <1>3, <1>5, <1>6

(* The transactions that write the journal.                                *)
LEMMA PreparingKeepsEvidence ==
    ASSUME Evident, LockIsSafe, LockIsSafe', [Next]_vars, NEW p \in Proc,
           \/ PrepareExecutableApply(p) \/ PrepareExecutableDelete(p)
           \/ PrepareExecutableReconcile(p)
    PROVE  Journalled'
<1>1. /\ Orderly /\ Wellformed /\ DeleteHolds /\ ConvergedHasEvidence /\ AbsentHasEvidence
      /\ PlanExists /\ ReleasedIffArchived
  BY DEF Evident, Evidence, Planned, Orderly, Serial
<1>2. newest \in DOMAIN operations \cup {None} /\ None \notin Operation /\ DOMAIN operations \subseteq Operation
  BY <1>1, HostAssumption DEF Wellformed, TypeOK, JournalType
<1>3. CASE PrepareExecutableApply(p)
  <2> DEFINE g == NextGeneration(cmd[p].manifest)
  <2>1. PICK row \in AllocationRow :
           LET o == BuildExecutable("apply", g, Identity(row))
               stays == effective # None /\ effective.state = "converged" /\ effective.plan = o
           IN  /\ EnsureAllocation(g, row) /\ alloc' = row /\ archived' = FALSE
               /\ Persist(p, o, operations, steps) /\ observation' = observation
               /\ effective' = [state |-> IF stays THEN "converged" ELSE "pending", plan |-> o]
    BY <1>3 DEF PrepareExecutableApply, OnConflict, Declare, MarkEffective
  <2> DEFINE o == BuildExecutable("apply", g, Identity(row))
             stays == effective # None /\ effective.state = "converged" /\ effective.plan = o
  <2>2. /\ o.action = "apply" /\ Persist(p, o, operations, steps)
        /\ effective' = [state |-> IF stays THEN "converged" ELSE "pending", plan |-> o]
    BY <2>1 DEF BuildExecutable
  <2>3. ~row.released
    BY <2>1 DEF EnsureAllocation, Allocated
  <2> HIDE DEF o
  <2>4. SuccessIsWhole' /\ StepsHold'
    BY <2>1, <2>2, PersistKeepsEvidence
  <2>5. AbsentHasEvidence'
    BY <2>1, <2>3 DEF AbsentHasEvidence
  <2>6. ConvergedHasEvidence'
    <3> SUFFICES ASSUME effective'.state = "converged"
                 PROVE  ConvergedHasEvidence'
      BY DEF ConvergedHasEvidence
    <3>1. stays
      BY <2>2
    <3>2. o \in DOMAIN operations
      BY <1>1, <3>1 DEF PlanExists
    <3>3. operations' = operations /\ steps' = steps /\ newest' = newest
      BY <2>2, <3>2 DEF Persist
    <3> QED BY <1>1, <2>1, <3>1, <3>3 DEF ConvergedHasEvidence, AllSatisfied
  <2>7. DeleteHolds'
    <3> SUFFICES ASSUME newest' # None, newest'.action = "delete",
                        operations'[newest'] = "succeeded" => archived'
                 PROVE  Identity(alloc)' = newest'.allocation
      BY DEF DeleteHolds
    <3>1. newest' = newest
      BY <2>2 DEF Persist
    <3>2. operations'[newest] = operations[newest]
      BY <1>2, <2>2, <3>1 DEF Persist
    <3>3. operations[newest] # "succeeded"
      BY <2>1, <3>1, <3>2
    <3>4. alloc # None
      BY <1>1, <3>1 DEF Wellformed, RowsTogether
    <3>5. ~alloc.released
      BY <1>1, <3>3, <3>4 DEF AbsentHasEvidence
    <3>6. row = alloc
      BY <2>1, <3>4, <3>5 DEF EnsureAllocation, Allocated
    <3> QED BY <1>1, <2>1, <3>1, <3>3, <3>6 DEF DeleteHolds, Identity
  <2> QED BY <2>4, <2>5, <2>6, <2>7 DEF Journalled
<1>4. CASE PrepareExecutableDelete(p) \/ PrepareExecutableReconcile(p)
  <2>1. PICK action \in {"delete", "reconcile"}, state \in {"deleting", "applying"} :
           \E statuses, rows :
             LET o == BuildExecutable(action, Len(declared), Identity(alloc))
             IN  /\ Persist(p, o, statuses, rows) /\ MarkEffective(state, o)
                 /\ DOMAIN statuses = DOMAIN operations
                 /\ \A k \in DOMAIN operations :
                       \/ statuses[k] = operations[k] /\ rows[k] = steps[k]
                       \/ /\ k = o /\ action = "reconcile" /\ statuses[k] # "succeeded"
                          /\ \A i \in DOMAIN rows[k] : rows[k][i] = "pending"
    <3>1. CASE PrepareExecutableDelete(p)
      <4> DEFINE o == BuildExecutable("delete", Len(declared), Identity(alloc))
      <4>1. Persist(p, o, operations, steps) /\ MarkEffective("deleting", o)
        BY <3>1 DEF PrepareExecutableDelete, OnConflict
      <4> HIDE DEF o
      <4>2. \E statuses, rows :
               /\ Persist(p, o, statuses, rows) /\ MarkEffective("deleting", o)
               /\ DOMAIN statuses = DOMAIN operations
               /\ \A k \in DOMAIN operations : statuses[k] = operations[k] /\ rows[k] = steps[k]
        BY <4>1
      <4> QED BY <4>2 DEF o
    <3>2. CASE PrepareExecutableReconcile(p)
      <4> DEFINE o == BuildExecutable("reconcile", Len(declared), Identity(alloc))
                 statuses == IF o \in DOMAIN operations /\ operations[o] # "running"
                             THEN [operations EXCEPT ![o] = "pending"] ELSE operations
                 rows == IF o \in DOMAIN operations
                         THEN [steps EXCEPT ![o] = [i \in DOMAIN @ |-> "pending"]] ELSE steps
      <4>1. Persist(p, o, statuses, rows) /\ MarkEffective("applying", o)
        BY <3>2 DEF PrepareExecutableReconcile
      <4>2. DOMAIN steps = DOMAIN operations
        BY <1>1 DEF Wellformed, TypeOK, JournalType
      <4>3. DOMAIN statuses = DOMAIN operations
        OBVIOUS
      <4>4. ASSUME NEW k \in DOMAIN operations
            PROVE  \/ statuses[k] = operations[k] /\ rows[k] = steps[k]
                   \/ /\ k = o /\ statuses[k] # "succeeded"
                      /\ \A i \in DOMAIN rows[k] : rows[k][i] = "pending"
        BY <4>2
      <4> HIDE DEF statuses, rows, o
      <4> QED BY <4>1, <4>3, <4>4 DEF o
    <3> QED BY <1>4, <3>1, <3>2
  <2> DEFINE o == BuildExecutable(action, Len(declared), Identity(alloc))
  <2>2. PICK statuses, rows :
             /\ Persist(p, o, statuses, rows) /\ MarkEffective(state, o)
             /\ DOMAIN statuses = DOMAIN operations
             /\ \A k \in DOMAIN operations :
                   \/ statuses[k] = operations[k] /\ rows[k] = steps[k]
                   \/ /\ k = o /\ action = "reconcile" /\ statuses[k] # "succeeded"
                      /\ \A i \in DOMAIN rows[k] : rows[k][i] = "pending"
    BY <2>1
  <2>3. o.action = action /\ o.allocation = Identity(alloc)
    BY DEF BuildExecutable
  <2> HIDE DEF o
  <2>4. /\ Present /\ alloc' = alloc /\ archived' = archived /\ observation' = observation
        /\ effective' = [state |-> state, plan |-> o]
    BY <1>4, <2>2 DEF PrepareExecutableDelete, PrepareExecutableReconcile, MarkEffective
  <2>5. SuccessIsWhole' /\ StepsHold'
    BY <2>2, <2>4, PersistKeepsEvidence
  <2>6. ConvergedHasEvidence'
    BY <2>4 DEF ConvergedHasEvidence
  <2>7. AbsentHasEvidence'
    BY <1>1, <2>4 DEF AbsentHasEvidence, ReleasedIffArchived, Present
  <2>8. DeleteHolds'
    <3> SUFFICES ASSUME newest' # None, newest'.action = "delete",
                        operations'[newest'] = "succeeded" => archived'
                 PROVE  Identity(alloc)' = newest'.allocation
      BY DEF DeleteHolds
    <3>1. Identity(alloc)' = Identity(alloc)
      BY <2>4 DEF Identity
    <3>2. CASE newest' = o
      BY <2>3, <3>1, <3>2
    <3>3. CASE newest' # o
      <4>1. newest' = newest /\ newest \in DOMAIN operations
        BY <1>2, <2>2, <3>3 DEF Persist
      <4>2. operations'[newest] = operations[newest]
        BY <2>2, <3>3, <4>1 DEF Persist
      <4> QED BY <1>1, <2>4, <3>1, <4>1, <4>2 DEF DeleteHolds
    <3> QED BY <3>2, <3>3
  <2> QED BY <2>5, <2>6, <2>7, <2>8 DEF Journalled
<1> QED BY <1>3, <1>4

(* While an operation runs, it is the newest, it has not succeeded, and    *)
(* the resource is neither converged nor released.                         *)
LEMMA WorkIsUnproved ==
    ASSUME Evident, LockIsSafe, NEW p \in Proc, pc[p] \in Executing \ {"inspect", "report"}
    PROVE  /\ current[p] = newest /\ newest # None /\ newest \in DOMAIN operations
           /\ operations[newest] # "succeeded"
           /\ effective # None /\ effective.state # "converged"
           /\ ~archived /\ alloc # None /\ ~alloc.released
<1>1. Orderly /\ ConvergedHasEvidence /\ AbsentHasEvidence
  BY DEF Evident
<1>2. /\ current[p] = newest /\ newest # None /\ newest \in DOMAIN operations
      /\ operations[newest] # "succeeded"
  BY <1>1, WorkIsOpen DEF Finished
<1>3. effective # None /\ alloc # None
  BY <1>1, <1>2 DEF Orderly, Serial, Wellformed, RowsTogether
<1>4. effective.state # "converged"
  BY <1>1, <1>2, <1>3 DEF ConvergedHasEvidence
<1>5. ~archived /\ ~alloc.released
  BY <1>1, <1>2, <1>3 DEF AbsentHasEvidence
<1> QED BY <1>2, <1>3, <1>4, <1>5

(* An executor's write to its own operation, short of its completion.      *)
LEMMA WorkKeepsEvidence ==
    ASSUME Evident, LockIsSafe, [Next]_vars,
           NEW p \in Proc, pc[p] \in Executing \ {"inspect", "report"},
           newest' = newest, UNCHANGED resource, DOMAIN operations' = DOMAIN operations,
           \A o \in DOMAIN operations :
              o # newest => operations'[o] = operations[o] /\ steps'[o] = steps[o],
           operations'[newest] # "succeeded",
           StepsHold'
    PROVE  Journalled'
<1>1. /\ newest # None /\ newest \in DOMAIN operations /\ operations[newest] # "succeeded"
      /\ effective.state # "converged" /\ ~archived /\ ~alloc.released
  BY WorkIsUnproved
<1>2. SuccessIsWhole'
  BY <1>1 DEF Evident, Evidence, SuccessIsWhole, AllSatisfied
<1>3. ConvergedHasEvidence' /\ AbsentHasEvidence'
  BY <1>1 DEF ConvergedHasEvidence, AbsentHasEvidence, resource
<1>4. DeleteHolds'
  BY <1>1 DEF Evident, Evidence, DeleteHolds, Identity, resource
<1> QED BY <1>2, <1>3, <1>4 DEF Journalled

(* The last step of an operation has been satisfied.                       *)
LEMMA CompletionKeepsEvidence ==
    ASSUME Evident, LockIsSafe, LockIsSafe', [Next]_vars, NEW p \in Proc, CompleteOperation(p)
    PROVE  Journalled'
<1>1. Orderly /\ Wellformed /\ StepsHold /\ SuccessIsWhole /\ DeleteHolds /\ pc[p] \in Executing \ {"inspect", "report"}
  BY DEF Evident, Evidence, Orderly, Serial, CompleteOperation, Executing
<1>2. /\ current[p] = newest /\ newest # None /\ newest \in DOMAIN operations
      /\ operations[newest] # "succeeded"
      /\ effective # None /\ effective.state # "converged"
      /\ ~archived /\ alloc # None /\ ~alloc.released
  BY <1>1, WorkIsUnproved
<1>3. /\ newest \in Operation /\ newest.action \in Action
      /\ DOMAIN steps[newest] = DOMAIN Plan(newest.action)
  BY <1>1, <1>2, NewestTyped
<1>4. alloc \in AllocationRow /\ effective \in EffectiveRow
  BY <1>1, <1>2 DEF Wellformed, TypeOK, ResourceType
<1>5. AllSatisfied(newest)
  <2>1. Unsatisfied(newest) = {}
    BY <1>1, <1>2 DEF CompleteOperation, Orderly, Snapshot, Running
  <2> QED BY <2>1 DEF AllSatisfied, Unsatisfied
<1>6. /\ operations' = [operations EXCEPT ![newest] = "succeeded"] /\ DOMAIN operations' = DOMAIN operations
      /\ steps' = steps /\ newest' = newest /\ observation' = observation /\ declared' = declared
      /\ effective' = [effective EXCEPT !.state = FinalState(newest.action)]
  BY <1>2 DEF CompleteOperation
<1>7. Matched(newest)
  <2>1. \E i \in DOMAIN Plan(newest.action) : Plan(newest.action)[i] \in ObserverStep
    BY <1>3, PlanHas DEF ObserverStep, Action
  <2> QED BY <1>1, <1>2, <1>3, <1>5, <2>1 DEF StepsHold, StepHolds, AllSatisfied
<1>8. SuccessIsWhole'
  BY <1>1, <1>5, <1>6 DEF SuccessIsWhole, AllSatisfied
<1>9. StepsHold'
  BY <1>6, StepsStay DEF Evident, Evidence
<1>10. operations'[newest] = "succeeded"
  BY <1>2, <1>6
<1>11. effective'.state = FinalState(newest.action)
  BY <1>4, <1>6 DEF EffectiveRow
<1>12. CASE newest.action = "delete"
  <2>1. alloc' = [alloc EXCEPT !.released = TRUE] /\ archived' = TRUE /\ effective'.state = "absent"
    BY <1>2, <1>11, <1>12 DEF CompleteOperation, FinalState
  <2>2. alloc'.released = TRUE /\ Identity(alloc)' = Identity(alloc)
    BY <1>4, <2>1 DEF AllocationRow, Identity
  <2>3. AbsentHasEvidence' /\ ConvergedHasEvidence'
    BY <1>6, <1>7, <1>10, <1>12, <2>1, <2>2 DEF AbsentHasEvidence, ConvergedHasEvidence, Matched
  <2>4. DeleteHolds'
    BY <1>1, <1>2, <1>6, <2>2 DEF DeleteHolds
  <2> QED BY <1>8, <1>9, <2>3, <2>4 DEF Journalled
<1>13. CASE newest.action # "delete"
  <2>1. alloc' = alloc /\ archived' = archived
    BY <1>2, <1>13 DEF CompleteOperation, FinalState
  <2>2. AbsentHasEvidence' /\ DeleteHolds'
    BY <1>2, <1>6, <1>13, <2>1 DEF AbsentHasEvidence, DeleteHolds
  <2>3. ConvergedHasEvidence'
    BY <1>2, <1>5, <1>6, <1>7, <1>10, <1>13 DEF ConvergedHasEvidence, Matched, AllSatisfied
  <2> QED BY <1>8, <1>9, <2>2, <2>3 DEF Journalled
<1> QED BY <1>12, <1>13
(* An executor that writes a status of its next step: the step carries     *)
(* evidence when the status says that it is satisfied.                     *)
LEMMA WritingKeepsEvidence ==
    ASSUME Evident, LockIsSafe, [Next]_vars, NEW p \in Proc, pc[p] \in Running, todo[p] # {},
           NEW status \in StepStatus,
           steps' = [steps EXCEPT ![current[p]][NextStep(p)] = status],
           UNCHANGED <<newest, resource, observation>>, DOMAIN operations' = DOMAIN operations,
           \A o \in DOMAIN operations : o # newest => operations'[o] = operations[o],
           operations'[newest] # "succeeded",
           Satisfied(status) =>
              /\ Delivered(StepName(p), TargetOf(newest), host', drifts')
              /\ StepName(p) \in ObserverStep => Matched(newest)
    PROVE  Journalled'
<1>1. Orderly /\ Wellformed /\ StepsHold
  BY DEF Evident, Evidence, Orderly, Serial
<1>2. /\ current[p] = newest /\ newest # None /\ newest \in DOMAIN operations
      /\ IsFirst(NextStep(p), newest)
  BY <1>1, NextStepIsFirst
<1>3. /\ steps[newest] \in [DOMAIN Plan(newest.action) -> StepStatus]
      /\ DOMAIN steps = DOMAIN operations
  BY <1>1, <1>2, StepRows
<1>4. /\ \A o \in DOMAIN operations : o # newest => steps'[o] = steps[o]
      /\ steps'[newest] = [steps[newest] EXCEPT ![NextStep(p)] = status]
  BY <1>2, <1>3
<1>5. StepName(p) = Plan(newest.action)[NextStep(p)]
  BY <1>2 DEF StepName
<1>6. ASSUME NEW i \in DOMAIN steps'[newest], Satisfied(steps'[newest][i])
      PROVE  \/ i \in DOMAIN steps[newest] /\ Satisfied(steps[newest][i])
             \/ /\ Delivered(Plan(newest.action)[i], TargetOf(newest), host', drifts')
                /\ Plan(newest.action)[i] \in ObserverStep =>
                       observation' = [op |-> newest, verdict |-> "match"]
  <2>1. i \in DOMAIN steps[newest]
    BY <1>3, <1>4, <1>6
  <2>2. CASE i = NextStep(p)
    <3>1. Satisfied(status)
      BY <1>3, <1>4, <1>6, <2>1, <2>2
    <3>2. observation' = observation
      OBVIOUS
    <3> QED BY <1>5, <2>2, <3>1, <3>2 DEF Matched
  <2>3. CASE i # NextStep(p)
    BY <1>3, <1>4, <1>6, <2>1, <2>3
  <2> QED BY <2>2, <2>3
<1>7. StepsHold'
  BY <1>1, <1>6, StepsStay DEF Evident
<1>8. pc[p] \in Executing \ {"inspect", "report"}
  BY DEF Running, Executing
<1> QED BY <1>2, <1>4, <1>7, <1>8, WorkKeepsEvidence

(* The executor's steps.                                                   *)
LEMMA RunningKeepsEvidence ==
    ASSUME Evident, LockIsSafe, LockIsSafe', [Next]_vars, NEW p \in Proc, Run(p)
    PROVE  Journalled'
<1>1. /\ Orderly /\ Wellformed /\ StepsHold /\ TodoInPlan /\ AnswerHolds
      /\ operations \in [DOMAIN operations -> OperationStatus]
  BY DEF Evident, Evidence, Planned, Orderly, Serial, Wellformed, TypeOK, JournalType
<1>2. CASE InspectBefore(p) \/ LockExecution(p) \/ Inspect(p) \/ ExecutionSteps(p) \/ Report(p)
           \/ Ensure(p) \/ EnsureFails(p)
  <2>1. UNCHANGED <<journal, resource, observation>>
    BY <1>2 DEF InspectBefore, LockExecution, Inspect, ExecutionSteps, Report, Ensure,
                EnsureFails, Answer
  <2> QED BY <2>1, JournalFrame
<1>3. ASSUME pc[p] \in Running
      PROVE  /\ current[p] = newest /\ newest # None /\ newest \in DOMAIN operations
             /\ operations[newest] # "succeeded" /\ pc[p] \in Executing \ {"inspect", "report"}
             /\ pc[p] \in Claimed => todo[p] # {}
  BY <1>1, <1>3, WorkIsUnproved DEF Running, Executing, TodoInPlan
<1>4. CASE StartOperation(p)
  <2>1. /\ pc[p] \in Running /\ UNCHANGED <<steps, newest, resource, observation>>
        /\ operations' = IF operations[current[p]] # "succeeded"
                     THEN [operations EXCEPT ![current[p]] = "running"] ELSE operations
    BY <1>4 DEF StartOperation, Running
  <2>2. operations' = [operations EXCEPT ![newest] = "running"]
    BY <1>3, <2>1
  <2>3. StepsHold'
    BY <1>1, <2>1, StepsStay DEF Evident
  <2> QED BY <1>3, <2>1, <2>2, <2>3, WorkKeepsEvidence
<1>5. CASE ClaimStep(p)
  <2>1. /\ pc[p] \in Running /\ todo[p] # {}
        /\ UNCHANGED <<operations, newest, resource, observation>>
        /\ UNCHANGED steps \/ steps' = [steps EXCEPT ![current[p]][NextStep(p)] = "running"]
    BY <1>5 DEF ClaimStep, Running
  <2>2. CASE UNCHANGED steps
    BY <2>1, <2>2, JournalFrame DEF journal
  <2>3. CASE steps' = [steps EXCEPT ![current[p]][NextStep(p)] = "running"]
    <3>1. "running" \in StepStatus /\ ~Satisfied("running")
      BY DEF StepStatus, Satisfied
    <3> QED BY <1>3, <2>1, <2>3, <3>1, WritingKeepsEvidence
  <2> QED BY <2>1, <2>2, <2>3
<1>6. CASE RecordObservation(p)
  <2>1. /\ pc[p] \in Running /\ pc[p] \in Claimed
        /\ UNCHANGED <<operations, steps, newest, resource>>
    BY <1>6 DEF RecordObservation, Running, Claimed, journal
  <2>2. ASSUME NEW i \in DOMAIN steps[newest], Satisfied(steps[newest][i])
        PROVE  Plan(newest.action)[i] \notin ObserverStep
    <3>1. /\ newest \in Operation /\ newest.action \in Action
          /\ DOMAIN steps[newest] = DOMAIN Plan(newest.action)
      BY <1>1, <1>3, <2>1, NewestTyped
    <3>2. NextStep(p) \in DOMAIN Plan(newest.action) /\ i < NextStep(p)
      BY <1>1, <1>3, <2>1, <2>2, SatisfiedBefore
    <3> QED BY <3>1, <3>2, PlanOrder
  <2>3. StepsHold'
    BY <1>1, <2>1, <2>2, StepsStay DEF Evident
  <2> QED BY <1>3, <2>1, <2>3, WorkKeepsEvidence
<1>7. CASE CompleteStep(p)
  <2>1. /\ pc[p] = "settle" /\ pc[p] \in Running /\ pc[p] \in Claimed
        /\ result[p] \in {"done", "skipped"}
        /\ UNCHANGED <<operations, newest, resource, observation, host, drifts>>
    BY <1>7 DEF CompleteStep, Running, Claimed, faults
  <2>2. PICK status \in {"succeeded", "skipped"} :
           steps' = [steps EXCEPT ![current[p]][NextStep(p)] = status]
    BY <1>7 DEF CompleteStep
  <2>3. status \in StepStatus
    BY DEF StepStatus
  <2>4. /\ Delivered(StepName(p), TargetOf(newest), host', drifts')
        /\ StepName(p) \in ObserverStep => Matched(newest)
    BY <1>1, <1>3, <2>1 DEF AnswerHolds
  <2> QED BY <1>3, <2>1, <2>2, <2>3, <2>4, WritingKeepsEvidence
<1>8. CASE FailStep(p)
  <2>1. /\ pc[p] \in Running /\ pc[p] \in Claimed
        /\ UNCHANGED <<newest, resource, observation>>
        /\ steps' = [steps EXCEPT ![current[p]][NextStep(p)] = "failed"]
        /\ operations' = [operations EXCEPT ![current[p]] =
                             IF result[p] = "blocked" THEN "blocked" ELSE "failed"]
    BY <1>8 DEF FailStep, Running, Claimed
  <2>2. "failed" \in StepStatus /\ ~Satisfied("failed")
    BY DEF StepStatus, Satisfied
  <2>3. /\ DOMAIN operations' = DOMAIN operations /\ operations'[newest] # "succeeded"
        /\ \A o \in DOMAIN operations : o # newest => operations'[o] = operations[o]
    BY <1>1, <1>3, <2>1
  <2> QED BY <1>3, <2>1, <2>2, <2>3, WritingKeepsEvidence
<1>9. CASE CompleteOperation(p)
  BY <1>9, CompletionKeepsEvidence
<1> QED BY <1>2, <1>4, <1>5, <1>6, <1>7, <1>8, <1>9 DEF Run

(* Every step keeps the evidence.                                          *)
LEMMA EvidentStep == Evident /\ [Next]_vars => Evident'
<1> SUFFICES ASSUME Evident, [Next]_vars PROVE Evident'
  OBVIOUS
<1>1. Orderly /\ Wellformed /\ Planned /\ losses \in Nat
  BY DEF Evident, Orderly, Serial, Exclusion
<1>2. Orderly' /\ Planned'
  BY <1>1, OrderlyStep, PlannedStep
<1>3. CASE ~LockIsSafe'
  BY <1>2, <1>3 DEF Evident, ConvergedHasEvidence, AbsentHasEvidence
<1>4. CASE LockIsSafe'
  <2>1. LockIsSafe
    BY <1>1, <1>4, LossesGrow DEF LockIsSafe
  <2>2. AnswerHolds'
    BY <1>4, <2>1, AnswerStep
  <2>3. ASSUME NEW p \in Proc, Prepare(p) PROVE Journalled'
    <3>1. CASE BeginTx(p) \/ LockPreparation(p) \/ RefuseApply(p) \/ PrepareNotFound(p)
      <4>1. UNCHANGED <<journal, resource, observation>>
        BY <3>1 DEF BeginTx, LockPreparation, RefuseApply, PrepareNotFound
      <4> QED BY <2>1, <4>1, JournalFrame
    <3> QED BY <1>4, <2>1, <2>3, <3>1, PreparingKeepsEvidence DEF Prepare
  <2>4. ASSUME NEW p \in Proc, Run(p) PROVE Journalled'
    BY <1>4, <2>1, <2>4, RunningKeepsEvidence
  <2>5. ASSUME NEW p \in Proc, Crash(p) \/ SessionLoss(p) PROVE Journalled'
    <3>1. UNCHANGED <<journal, resource, observation>>
      BY <2>5 DEF Crash, SessionLoss
    <3> QED BY <2>1, <3>1, JournalFrame
  <2>6. ASSUME Drift \/ UNCHANGED vars PROVE Journalled'
    <3>1. UNCHANGED <<journal, resource, observation>>
      BY <2>6 DEF Drift, vars, journal, resource
    <3> QED BY <2>1, <3>1, JournalFrame
  <2>7. Journalled'
    BY <2>3, <2>4, <2>5, <2>6 DEF Next
  <2> QED BY <1>2, <2>2, <2>7 DEF Evident, Evidence, Journalled
<1> QED BY <1>3, <1>4

(* At first there is nothing to prove.                                     *)
LEMMA EvidentInit == Init => Evident
BY OrderlyInit, PlannedInit
   DEF Init, Evident, Evidence, SuccessIsWhole, AnswerHolds, StepsHold, DeleteHolds,
       ConvergedHasEvidence, AbsentHasEvidence

(* What the resource's state then says of the host.                        *)
LEMMA EvidentHost == Evident => ConvergedApplyMatchesHost /\ ReleasedLeavesNothing
<1> SUFFICES ASSUME Evident PROVE ConvergedApplyMatchesHost /\ ReleasedLeavesNothing
  OBVIOUS
<1>1. Wellformed /\ ConvergedHasEvidence /\ AbsentHasEvidence /\ OffWithoutConfig(host)
  BY DEF Evident, Orderly, Serial, Planned
<1>2. ConvergedApplyMatchesHost
  <2> SUFFICES ASSUME LockIsSafe, drifts = 0, effective # None,
                      effective.state = "converged", newest.action = "apply"
               PROVE  LET t == TargetOf(newest)
                      IN  /\ ObservedPresent(t, host)
                          /\ host.config = t /\ host.seed = t.manifest
                          /\ host.disk = t.manifest.disk /\ host.imaged
    BY DEF ConvergedApplyMatchesHost
  <2> DEFINE t == TargetOf(newest)
  <2>1. newest # None /\ AllSatisfied(newest) /\ StepsHold
    BY <1>1 DEF ConvergedHasEvidence, Evident, Evidence
  <2>2. DOMAIN steps[newest] = DOMAIN Plan("apply")
    BY <1>1, <2>1, NewestTyped
  <2>3. ASSUME NEW i \in DOMAIN Plan("apply") PROVE Shows(Plan("apply")[i], t, host)
    BY <2>1, <2>2 DEF AllSatisfied, StepsHold, StepHolds, Delivered
  <2>4. \A s \in Building \cup {"observer/observe-all"} : Shows(s, t, host)
    BY <2>3, PlanHas
  <2> QED BY <2>4 DEF Building, Shows
<1>3. ReleasedLeavesNothing
  <2> SUFFICES ASSUME LockIsSafe, alloc # None, alloc.released
               PROVE  /\ host.config = None /\ ~host.running /\ host.disk = 0 /\ host.seed = None
                      /\ alloc.identity \notin host.kea
                      /\ ManageAnchor => host.pf = None
    BY DEF ReleasedLeavesNothing
  <2> DEFINE t == TargetOf(newest)
  <2>1. /\ archived /\ newest.action = "delete" /\ operations[newest] = "succeeded"
        /\ effective.state = "absent" /\ observation = [op |-> newest, verdict |-> "match"]
        /\ StepsHold /\ SuccessIsWhole /\ DeleteHolds
    BY <1>1 DEF AbsentHasEvidence, Evident, Evidence
  <2>2. newest # None
    BY DEF Evident, Planned, Prepared
  <2>3. DOMAIN steps[newest] = DOMAIN Plan("delete") /\ newest \in DOMAIN operations
    BY <1>1, <2>1, <2>2, NewestTyped
  <2>4. ObservedAbsent(t, host)
    <3>1. PICK i \in DOMAIN Plan("delete") : Plan("delete")[i] = "observer/observe-absent"
      BY PlanHas
    <3>2. Satisfied(steps[newest][i])
      BY <2>1, <2>3 DEF SuccessIsWhole, AllSatisfied
    <3>3. Delivered("observer/observe-absent", t, host, drifts)
      BY <2>1, <2>2, <2>3, <3>1, <3>2 DEF StepsHold, StepHolds
    <3> QED BY <3>3 DEF Delivered, Shows
  <2>5. t.identity = alloc.identity
    <3>1. Identity(alloc) = newest.allocation
      BY <2>1, <2>2 DEF DeleteHolds
    <3> QED BY <3>1 DEF Identity, TargetOf
  <2> QED BY <1>1, <2>4, <2>5 DEF ObservedAbsent, VMExists, OffWithoutConfig
<1> QED BY <1>2, <1>3

(***************************************************************************)
(* A resource is converged only on evidence: its newest operation is no    *)
(* delete, it has succeeded in every step, and what was last observed was  *)
(* observed for it and matched.  No preparation, retry, crash or           *)
(* redeclaration marks a resource converged by what an earlier operation   *)
(* has shown, while no lock session is lost.                               *)
(***************************************************************************)
THEOREM ConvergedIsShown == Spec => []ConvergedHasEvidence
<1>1. Evident => ConvergedHasEvidence BY DEF Evident
<1> QED BY EvidentInit, EvidentStep, <1>1, PTL DEF Spec

(***************************************************************************)
(* A resource is archived, and its allocation released, only by a delete   *)
(* that has observed the absence of everything it removes.                 *)
(***************************************************************************)
THEOREM AbsentIsShown == Spec => []AbsentHasEvidence
<1>1. Evident => AbsentHasEvidence BY DEF Evident
<1> QED BY EvidentInit, EvidentStep, <1>1, PTL DEF Spec

(***************************************************************************)
(* While nobody else touches the host, what an apply has converged is on   *)
(* the host: the zvol, the seed and the configuration of the declaration   *)
(* and identity it was applied with, whatever call was cut off before.     *)
(***************************************************************************)
THEOREM ConvergedIsOnHost == Spec => []ConvergedApplyMatchesHost
<1>1. Evident => ConvergedApplyMatchesHost BY EvidentHost
<1> QED BY EvidentInit, EvidentStep, <1>1, PTL DEF Spec

(***************************************************************************)
(* A released identity has no reservation, no rules, no guest and no       *)
(* storage left behind, even when others take things away meanwhile.       *)
(***************************************************************************)
THEOREM ReleasedIsGone == Spec => []ReleasedLeavesNothing
<1>1. Evident => ReleasedLeavesNothing BY EvidentHost
<1> QED BY EvidentInit, EvidentStep, <1>1, PTL DEF Spec
================================================================================
