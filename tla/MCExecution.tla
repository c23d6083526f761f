------------------------------ MODULE MCExecution ------------------------------
(***************************************************************************)
(* Instances of Execution for TLC.                                         *)
(***************************************************************************)
EXTENDS Execution, TLC

CONSTANTS p1, p2, i1, i2

Small == [cpus |-> 1, power |-> "running", disk |-> 1]
Off   == [cpus |-> 1, power |-> "stopped", disk |-> 1]
Big   == [cpus |-> 2, power |-> "running", disk |-> 1]

Apply(m)  == [action |-> "apply", manifest |-> m]
Reconcile == [action |-> "reconcile", manifest |-> None]
Delete    == [action |-> "delete", manifest |-> None]

OneManifest  == {Small}
PowerChange  == {Small, Off}
CpuChange    == {Small, Big}

AllOf(ms) == {Apply(m) : m \in ms} \cup {Reconcile, Delete}
OneManifestCommands  == AllOf(OneManifest)
PowerChangeCommands == AllOf(PowerChange)
CpuChangeCommands   == AllOf(CpuChange)
ApplyOnly           == {Apply(Small)}
ApplyAndDelete      == {Apply(Small), Delete}

Symmetry == Permutations(Proc)
================================================================================
