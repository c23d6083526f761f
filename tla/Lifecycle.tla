------------------------------- MODULE Lifecycle -------------------------------
(***************************************************************************)
(* What the control plane promises of one resource, without processes,     *)
(* transactions or retries: one operation at a time is carried out, its    *)
(* steps strictly one after the other, and it is finished once, after its  *)
(* last step; the resource has one identity from its first apply until a   *)
(* delete is finished.                                                     *)
(*                                                                         *)
(* The promise rests on the execution lock.  When a session that holds it  *)
(* is lost while its process lives, all that is left of the promise is     *)
(* that an identity never changes into another.                            *)
(***************************************************************************)
EXTENDS Planner

CONSTANT None

VARIABLES
    exclusive,    \* no lock session was lost under a live executor
    newest,       \* the operation to be carried out
    done,         \* its steps that are satisfied
    finished,     \* it has succeeded
    working,      \* someone is carrying it out
    holder        \* the identity the resource has, or None

progress == <<newest, done, finished>>
vars     == <<exclusive, progress, working, holder>>

Init ==
    /\ exclusive = TRUE
    /\ newest = None /\ done = {} /\ finished = FALSE
    /\ working = FALSE
    /\ holder = None

(* Someone asks for another operation, for the resource as it is; the     *)
(* first apply, and the first after a delete, gives it an identity.        *)
Prepare ==
    /\ ~working /\ UNCHANGED working
    /\ newest' \in Operation
    /\ done' = {} /\ finished' = FALSE
    /\ holder' = newest'.allocation.identity
    /\ holder \in {holder', None}

(* An apply after a delete may give an identity only: its operation exists *)
(* already, or was dated before the newest one.                            *)
Revive ==
    /\ ~working /\ holder = None
    /\ holder' \in Identities
    /\ UNCHANGED <<progress, working>>

(* A reconcile is asked for again.                                         *)
Repeat ==
    /\ ~working /\ newest # None /\ newest.action = "reconcile"
    /\ done' = {} /\ finished' = FALSE
    /\ UNCHANGED <<newest, working, holder>>

Begin ==
    /\ ~working /\ newest # None /\ ~finished
    /\ working' = TRUE
    /\ UNCHANGED <<progress, holder>>

(* The step after those that are satisfied.                                *)
Advance ==
    /\ working /\ ~finished
    /\ \E i \in DOMAIN Plan(newest.action) : done = 1..(i - 1) /\ done' = 1..i
    /\ UNCHANGED <<newest, finished, working, holder>>

Finish ==
    /\ working /\ ~finished /\ done = DOMAIN Plan(newest.action)
    /\ finished' = TRUE
    /\ holder' = IF newest.action = "delete" THEN None ELSE holder
    /\ UNCHANGED <<newest, done, working>>

(* Success, an error or a crash.                                           *)
Cease ==
    /\ working /\ working' = FALSE
    /\ UNCHANGED <<progress, holder>>

Promised ==
    /\ exclusive /\ exclusive'
    /\ Prepare \/ Revive \/ Repeat \/ Begin \/ Advance \/ Finish \/ Cease

Unguarded == ~exclusive' /\ (holder # None => holder' \in {holder, None})

Next == Promised \/ Unguarded
Spec == Init /\ [][Next]_vars
================================================================================
