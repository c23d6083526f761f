------------------------------- MODULE MCMigrate -------------------------------
EXTENDS Migrate, TLC

CONSTANTS m1, m2, q1, old, new, edited, c1, c2, x1

(* Two releases, and a build whose first migration was edited.             *)
Builds == (old :> (1 :> c1)) @@ (new :> ((1 :> c1) @@ (2 :> c2))) @@ (edited :> (1 :> x1))
================================================================================
