------------------------------- MODULE Planner -------------------------------
(***************************************************************************)
(* The executable plans of internal/planner: which typed driver steps an   *)
(* operation runs, in which order, and the identity of an operation.       *)
(***************************************************************************)
EXTENDS Naturals, Sequences

CONSTANTS
    Manifests,       \* normalized declarations: records with fields power and disk
    Identities,      \* IPAM identities: one (address, MAC) pair each
    MaxGeneration,   \* bound: declared generations of the resource
    ManageServices   \* site.services.manage

ASSUME PlannerAssumption ==
    /\ \A m \in Manifests : m.power \in {"running", "stopped"} /\ m.disk \in Nat \ {0}
    /\ MaxGeneration \in Nat \ {0}
    /\ ManageServices \in BOOLEAN

Action == {"apply", "delete", "reconcile"}
Generation == 1..MaxGeneration

(***************************************************************************)
(* The ordered driver/action pairs of each kind of operation.              *)
(***************************************************************************)
ResourceSteps ==
    << "image/ensure-verified", "zfs/ensure-storage", "cloudinit/ensure-seed",
       "vmbhyve/ensure-definition", "vmbhyve/ensure-config",
       "kea/ensure-reservation", "pf/ensure-rules",
       "vmbhyve/ensure-power-state", "observer/observe-all" >>

ApplySteps ==
    IF ManageServices THEN <<"service/ensure-ready">> \o ResourceSteps ELSE ResourceSteps

DeleteSteps ==
    << "vmbhyve/ensure-stopped", "kea/ensure-absent", "pf/ensure-absent",
       "vmbhyve/ensure-absent", "cloudinit/ensure-absent", "zfs/ensure-absent",
       "observer/observe-absent" >>

ReconcileSteps == << "observer/observe-all" >>

Plan(action) ==
    CASE action = "apply"     -> ApplySteps
      [] action = "delete"    -> DeleteSteps
      [] action = "reconcile" -> ReconcileSteps

ObserverStep == {"observer/observe-all", "observer/observe-absent"}

(***************************************************************************)
(* An operation is identified by its idempotency key, a digest of the      *)
(* resource, the generation, the action and the plan digest; the plan      *)
(* digest covers the step inputs, so the declaration of that generation    *)
(* and the allocation, allocation generation included.  SHA-256 is taken   *)
(* to be injective: the key is the record of what it digests.  The         *)
(* declaration is a function of the generation and needs no field.         *)
(***************************************************************************)
Allocation == [identity : Identities, since : Generation]
Operation  == [generation : Generation, action : Action, allocation : Allocation]

BuildExecutable(action, generation, allocation) ==
    [generation |-> generation, action |-> action, allocation |-> allocation]
==============================================================================
