------------------------------- MODULE MCUpgrade -------------------------------
EXTENDS Upgrade, TLC

CONSTANTS m1, q1, q2, current, new, c1, c2

(* The release that the exporter is of and the next one: 1 stands for all  *)
(* migrations of the former, 2 for the one that the latter adds.           *)
Builds == (current :> (1 :> c1)) @@ (new :> ((1 :> c1) @@ (2 :> c2)))
================================================================================
