----------------------------- MODULE MCAllocation -----------------------------
EXTENDS Allocation, TLC

CONSTANTS p1, p2, r1, r2, a1, a2, m1, m2

(* Two pools that share address a1: the site's validation allows it.       *)
OverlappingPools == [lab |-> <<a1>>, edge |-> <<a1, a2>>]
SmallPool        == [lab |-> <<a1, a2>>]

(* r1 and r2 have their first candidate in common.                         *)
Colliding == (r1 :> <<m1>>) @@ (r2 :> <<m1, m2>>)
Distinct  == (r1 :> <<m1>>) @@ (r2 :> <<m2>>)

TwoPools == {[pool |-> "lab", image |-> "base"], [pool |-> "edge", image |-> "base"],
             [pool |-> "edge", image |-> "next"]}
OnePool  == {[pool |-> "lab", image |-> "base"]}
================================================================================
