--------------------------------- MODULE Host ---------------------------------
(***************************************************************************)
(* What the typed drivers of internal/execution do to the FreeBSD host.    *)
(* A host is one record for the managed guest:                             *)
(*                                                                         *)
(*   image    the verified raw image and its marker are in the cache       *)
(*   disk     size of the guest's zvol, 0 when there is none               *)
(*   imaged   the zvol carries bkcp:image-sha256                           *)
(*   seed     the manifest the NoCloud ISO was built from, or None         *)
(*   config   the [manifest, identity] of the guest's .conf file, or None  *)
(*   running  the guest is powered on                                      *)
(*   kea      identities that have a Kea host reservation                  *)
(*   pf       identity whose rules the PF anchor holds, or None            *)
(*                                                                         *)
(* A target is what a step input carries: the declared manifest and the    *)
(* allocated identity.  One driver call is one step of this model; a call  *)
(* that errs may leave the host anywhere in Torn.                          *)
(***************************************************************************)
EXTENDS Planner

CONSTANTS
    None,            \* "no such thing"
    ManageAnchor     \* site.network.manage_anchor

Target == [manifest : Manifests, identity : Identities]

ASSUME HostAssumption ==
    /\ ManageAnchor \in BOOLEAN
    /\ None \notin Manifests
    /\ None \notin Identities
    /\ None \notin Target
    /\ None \notin Operation
    /\ None \notin Action

HostState ==
    [ image : BOOLEAN, disk : Nat, imaged : BOOLEAN, running : BOOLEAN,
      seed : Manifests \cup {None}, config : Target \cup {None},
      kea : SUBSET Identities, pf : Identities \cup {None} ]

EmptyHost ==
    [ image |-> FALSE, disk |-> 0, imaged |-> FALSE, running |-> FALSE,
      seed |-> None, config |-> None, kea |-> {}, pf |-> None ]

(***************************************************************************)
(* vm list shows a guest when its directory holds a .conf file.            *)
(***************************************************************************)
VMExists(h) == h.config # None

(***************************************************************************)
(* The host after a driver call that returned no error, driver by driver.  *)
(***************************************************************************)
EnsureImage(h) == [h EXCEPT !.image = TRUE]

(* An existing zvol is checked, never written again.                       *)
EnsureStorage(t, h) ==
    IF h.disk = 0 THEN [h EXCEPT !.disk = t.manifest.disk, !.imaged = TRUE] ELSE h

EnsureStorageAbsent(h) == [h EXCEPT !.disk = 0, !.imaged = FALSE]

EnsureSeed(t, h) == [h EXCEPT !.seed = t.manifest]
EnsureSeedAbsent(h) == [h EXCEPT !.seed = None]

KeepConfig(t, h) == IF VMExists(h) THEN h ELSE [h EXCEPT !.config = t]   \* a mutant

EnsureConfig(t, h) == [h EXCEPT !.config = t]

EnsurePower(power, h) == [h EXCEPT !.running = (power = "running")]

(* vm destroy removes the guest's directory, its seed included.            *)
EnsureVMAbsent(h) ==
    IF VMExists(h) THEN [h EXCEPT !.config = None, !.running = FALSE, !.seed = None] ELSE h

EnsureKeaReservation(t, h) == [h EXCEPT !.kea = @ \cup {t.identity}]
EnsureKeaAbsent(t, h) == [h EXCEPT !.kea = @ \ {t.identity}]

EnsurePFRules(t, h) == IF ManageAnchor THEN [h EXCEPT !.pf = t.identity] ELSE h
EnsurePFAbsent(h) == IF ManageAnchor THEN [h EXCEPT !.pf = None] ELSE h

Ensured(step, t, h) ==
    CASE step = "image/ensure-verified"      -> EnsureImage(h)
      [] step = "zfs/ensure-storage"         -> EnsureStorage(t, h)
      [] step = "zfs/ensure-absent"          -> EnsureStorageAbsent(h)
      [] step = "cloudinit/ensure-seed"      -> EnsureSeed(t, h)
      [] step = "cloudinit/ensure-absent"    -> EnsureSeedAbsent(h)
      [] step = "vmbhyve/ensure-config"      -> EnsureConfig(t, h)
      [] step = "vmbhyve/ensure-power-state" -> EnsurePower(t.manifest.power, h)
      [] step = "vmbhyve/ensure-stopped"     -> EnsurePower("stopped", h)
      [] step = "vmbhyve/ensure-absent"      -> EnsureVMAbsent(h)
      [] step = "kea/ensure-reservation"     -> EnsureKeaReservation(t, h)
      [] step = "kea/ensure-absent"          -> EnsureKeaAbsent(t, h)
      [] step = "pf/ensure-rules"            -> EnsurePFRules(t, h)
      [] step = "pf/ensure-absent"           -> EnsurePFAbsent(h)
      [] OTHER -> h   \* services, the guest directory and the observers change nothing here

(***************************************************************************)
(* The driver refuses with state.ErrBlocked whatever else happens.         *)
(***************************************************************************)
ForeignStorage(t, h) ==
    h.disk # 0 /\ (h.disk # t.manifest.disk \/ (h.image /\ ~h.imaged))

StrictBlocked(step, t, h) ==   \* a mutant: removing an absent guest is refused
    \/ step = "zfs/ensure-storage" /\ ForeignStorage(t, h)
    \/ /\ step \in {"vmbhyve/ensure-power-state", "vmbhyve/ensure-stopped", "vmbhyve/ensure-absent"}
       /\ ~VMExists(h)

Blocked(step, t, h) ==
    \/ step = "zfs/ensure-storage" /\ ForeignStorage(t, h)
    \/ /\ step \in {"vmbhyve/ensure-power-state", "vmbhyve/ensure-stopped"}
       /\ ~VMExists(h)

(***************************************************************************)
(* ensureStorage reads the image marker after it created the zvol: without *)
(* a marker or a raw image the call is a plain error, and blocked when the *)
(* raw image is not what the marker says.                                  *)
(***************************************************************************)
MarkerMissing(step, t, h) ==
    step = "zfs/ensure-storage" /\ ~h.image /\ h.disk \in {0, t.manifest.disk}

HalfStored(t, h) == [h EXCEPT !.disk = t.manifest.disk, !.imaged = @ /\ h.disk # 0]

(* What the world outside may make a call refuse: a download with another  *)
(* digest, an SSH key that is not Ed25519.                                 *)
Refusable(step, h) ==
    (step = "image/ensure-verified" /\ ~h.image) \/ step = "cloudinit/ensure-seed"

(* The steps that read back what they did, and report drift when the       *)
(* answered commands had no effect.                                        *)
ReadsBack ==
    { "service/ensure-ready", "zfs/ensure-absent", "kea/ensure-reservation",
      "kea/ensure-absent", "pf/ensure-rules", "pf/ensure-absent" }

(***************************************************************************)
(* SystemDriver.observe: the authoritative state the observer compares.    *)
(***************************************************************************)
ObservedPresent(t, h) ==
    /\ VMExists(h) /\ h.disk # 0 /\ t.identity \in h.kea /\ h.seed # None /\ h.image
    /\ ManageAnchor => h.pf = t.identity
    /\ h.running = (t.manifest.power = "running")

ObservedAbsent(t, h) ==
    /\ ~VMExists(h) /\ h.disk = 0 /\ t.identity \notin h.kea /\ h.seed = None
    /\ ManageAnchor => h.pf = None

Drifted(step, t, h) ==
    \/ step = "observer/observe-all"    /\ ~ObservedPresent(t, h)
    \/ step = "observer/observe-absent" /\ ~ObservedAbsent(t, h)

Skips(step) == step \in {"pf/ensure-rules", "pf/ensure-absent"} /\ ~ManageAnchor

(***************************************************************************)
(* Hosts an erring call may leave: nothing done, everything done but the   *)
(* answer lost, or a prefix of the call's commands done.                   *)
(***************************************************************************)
RolledBack(t, h) == {[h EXCEPT !.disk = 0, !.imaged = FALSE]}   \* a mutant of TornStorage

TornStorage(t, h) ==
    IF h.disk = 0 THEN {[h EXCEPT !.disk = t.manifest.disk, !.imaged = FALSE]} ELSE {}

(* A failed vm destroy falls back to removing the directory's files, in    *)
(* any order.                                                              *)
TornVM(h) ==
    IF VMExists(h)
    THEN {[h EXCEPT !.running = FALSE], [h EXCEPT !.running = FALSE, !.config = None],
          [h EXCEPT !.running = FALSE, !.seed = None]}
    ELSE {}

(* A Kea server without reservation-update is sent a delete and an add.    *)
TornKea(t, h) == IF t.identity \in h.kea THEN {EnsureKeaAbsent(t, h)} ELSE {}

Torn(step, t, h) ==
    {h}
    \cup (IF Blocked(step, t, h) \/ MarkerMissing(step, t, h) THEN {} ELSE {Ensured(step, t, h)})
    \cup (IF step = "zfs/ensure-storage" THEN TornStorage(t, h) ELSE {})
    \cup (IF step = "vmbhyve/ensure-absent" THEN TornVM(h) ELSE {})
    \cup (IF step = "kea/ensure-reservation" THEN TornKea(t, h) ELSE {})
==============================================================================
