------------------------------ MODULE Host_proofs ------------------------------
(***************************************************************************)
(* Driver calls on hosts, for every host, manifest and identity: what a    *)
(* call leaves is a host, a second call repairs what a first one left, and *)
(* no step of a plan takes away what a step before it has shown.           *)
(***************************************************************************)
EXTENDS Host, TLAPS

(* Ensuring a step leaves a host.                                          *)
LEMMA EnsuredType ==
    ASSUME NEW h \in HostState, NEW t \in Target, NEW step
    PROVE  Ensured(step, t, h) \in HostState
BY PlannerAssumption
   DEF Ensured, EnsureImage, EnsureStorage, EnsureStorageAbsent, EnsureSeed, EnsureSeedAbsent,
       EnsureConfig, EnsurePower, EnsureVMAbsent, EnsureKeaReservation, EnsureKeaAbsent,
       EnsurePFRules, EnsurePFAbsent, HostState, Target

(* So does an interrupted call.                                            *)
LEMMA TornType ==
    ASSUME NEW h \in HostState, NEW t \in Target, NEW step, NEW g \in Torn(step, t, h)
    PROVE  g \in HostState
<1>1. t.manifest.disk \in Nat
  BY PlannerAssumption DEF Target
<1>2. CASE g = h \/ g = Ensured(step, t, h)
  BY <1>2, EnsuredType
<1>3. CASE g \in TornStorage(t, h)
  BY <1>1, <1>3 DEF TornStorage, HostState
<1>4. CASE g \in TornVM(h)
  BY <1>4 DEF TornVM, HostState
<1>5. CASE g \in TornKea(t, h)
  BY <1>5 DEF TornKea, EnsureKeaAbsent, HostState
<1> QED BY <1>2, <1>3, <1>4, <1>5 DEF Torn

(* The steps whose second call does what the first one did.                *)
LEMMA Idempotent ==
    ASSUME NEW h \in HostState, NEW t \in Target, NEW step
    PROVE  Ensured(step, t, Ensured(step, t, h)) = Ensured(step, t, h)
<1>1. t.manifest.disk \in Nat \ {0}
  BY PlannerAssumption DEF Target
<1>2. CASE step \in {"image/ensure-verified", "cloudinit/ensure-seed", "cloudinit/ensure-absent",
                     "zfs/ensure-absent"}
  BY <1>2 DEF Ensured, EnsureImage, EnsureSeed, EnsureSeedAbsent, EnsureStorageAbsent, HostState
<1>3. CASE step = "zfs/ensure-storage"
  BY <1>1, <1>3 DEF Ensured, EnsureStorage, HostState
<1>4. CASE step \in {"vmbhyve/ensure-config", "vmbhyve/ensure-power-state", "vmbhyve/ensure-stopped"}
  BY <1>4 DEF Ensured, EnsureConfig, EnsurePower, HostState
<1>5. CASE step = "vmbhyve/ensure-absent"
  BY <1>5 DEF Ensured, EnsureVMAbsent, VMExists, HostState
<1>6. CASE step \in {"kea/ensure-reservation", "kea/ensure-absent"}
  BY <1>6 DEF Ensured, EnsureKeaReservation, EnsureKeaAbsent, HostState
<1>7. CASE step \in {"pf/ensure-rules", "pf/ensure-absent"}
  BY <1>7 DEF Ensured, EnsurePFRules, EnsurePFAbsent, HostState
<1>8. CASE step \notin {"image/ensure-verified", "cloudinit/ensure-seed", "cloudinit/ensure-absent",
                        "zfs/ensure-absent", "zfs/ensure-storage", "vmbhyve/ensure-config",
                        "vmbhyve/ensure-power-state", "vmbhyve/ensure-stopped", "vmbhyve/ensure-absent",
                        "kea/ensure-reservation", "kea/ensure-absent", "pf/ensure-rules", "pf/ensure-absent"}
  BY <1>8 DEF Ensured
<1> QED BY <1>2, <1>3, <1>4, <1>5, <1>6, <1>7, <1>8

(* The consequent of RetryRepairs, for a host g left by a call on h.       *)
Repaired(step, t, h, g) ==
    LET again == Ensured(step, t, g)
        once  == Ensured(step, t, h)
    IN  CASE step = "zfs/ensure-storage"    -> again = once \/ (g.disk # 0 /\ ~g.imaged)
          [] step = "vmbhyve/ensure-absent" -> [again EXCEPT !.seed = None] = [once EXCEPT !.seed = None]
          [] OTHER                          -> again = once

(* Every host an interrupted call may leave is repaired by a retry.        *)
LEMMA TornRepaired ==
    ASSUME NEW h \in HostState, NEW t \in Target, NEW step, NEW g \in Torn(step, t, h)
    PROVE  Repaired(step, t, h, g)
<1>1. CASE g = h
  BY <1>1 DEF Repaired
<1>2. CASE g = Ensured(step, t, h)
  <2>1. Ensured(step, t, g) = Ensured(step, t, h)
    BY <1>2, Idempotent
  <2> QED BY <2>1 DEF Repaired
<1>3. CASE step = "zfs/ensure-storage" /\ g \in TornStorage(t, h)
  <2>1. t.manifest.disk \in Nat \ {0}
    BY PlannerAssumption DEF Target
  <2>2. g.disk # 0 /\ ~g.imaged
    BY <1>3, <2>1 DEF TornStorage, HostState
  <2> QED BY <1>3, <2>2 DEF Repaired
<1>4. CASE step = "vmbhyve/ensure-absent" /\ g \in TornVM(h)
  <2>1. VMExists(h)
    BY <1>4 DEF TornVM
  <2>2. Ensured(step, t, h) = [h EXCEPT !.config = None, !.running = FALSE, !.seed = None]
    BY <1>4, <2>1 DEF Ensured, EnsureVMAbsent
  <2>3. Ensured(step, t, g) = IF g.config # None
                              THEN [g EXCEPT !.config = None, !.running = FALSE, !.seed = None] ELSE g
    BY <1>4 DEF Ensured, EnsureVMAbsent, VMExists
  <2>4. [Ensured(step, t, g) EXCEPT !.seed = None] = [Ensured(step, t, h) EXCEPT !.seed = None]
    <3>1. CASE g = [h EXCEPT !.running = FALSE] \/ g = [h EXCEPT !.running = FALSE, !.seed = None]
      <4>1. g.config # None
        BY <2>1, <3>1 DEF VMExists, HostState
      <4>2. Ensured(step, t, g) = [g EXCEPT !.config = None, !.running = FALSE, !.seed = None]
        BY <2>3, <4>1
      <4>3. Ensured(step, t, g) = Ensured(step, t, h)
        BY <2>2, <3>1, <4>2 DEF HostState
      <4> QED BY <4>3
    <3>2. CASE g = [h EXCEPT !.running = FALSE, !.config = None]
      <4>1. g.config = None
        BY <3>2 DEF HostState
      <4>2. Ensured(step, t, g) = g
        BY <2>3, <4>1
      <4> QED BY <2>2, <3>2, <4>2 DEF HostState
    <3> QED BY <1>4, <2>1, <3>1, <3>2 DEF TornVM
  <2> QED BY <1>4, <2>4 DEF Repaired
<1>5. CASE step = "kea/ensure-reservation" /\ g \in TornKea(t, h)
  <2>1. Ensured(step, t, g) = Ensured(step, t, h)
    BY <1>5 DEF TornKea, EnsureKeaAbsent, Ensured, EnsureKeaReservation, HostState
  <2> QED BY <1>5, <2>1 DEF Repaired
<1> QED BY <1>1, <1>2, <1>3, <1>4, <1>5 DEF Torn

(* A storage call that finds no image leaves a zvol it will refuse, or the *)
(* one it found.                                                           *)
LEMMA HalfStoredTorn ==
    ASSUME NEW h \in HostState, NEW t \in Target, NEW step, MarkerMissing(step, t, h)
    PROVE  HalfStored(t, h) \in Torn(step, t, h)
<1>1. t.manifest.disk \in Nat \ {0}
  BY PlannerAssumption DEF Target
<1>2. CASE h.disk = 0
  BY <1>1, <1>2 DEF HalfStored, TornStorage, Torn, MarkerMissing, HostState
<1>3. CASE h.disk = t.manifest.disk
  <2>1. HalfStored(t, h) = h
    BY <1>1, <1>3 DEF HalfStored, HostState
  <2> QED BY <2>1 DEF Torn
<1> QED BY <1>2, <1>3 DEF MarkerMissing

(***************************************************************************)
(* What the steps of an operation leave true for the ones after them.      *)
(***************************************************************************)

(* What a satisfied step promises of the host, where later steps, or the   *)
(* resource itself, rely on it.                                            *)
Shows(step, t, h) ==
    CASE step = "zfs/ensure-storage"      -> h.disk = t.manifest.disk /\ h.imaged
      [] step = "cloudinit/ensure-seed"   -> h.seed = t.manifest
      [] step = "vmbhyve/ensure-config"   -> h.config = t
      [] step = "observer/observe-all"    -> ObservedPresent(t, h)
      [] step = "observer/observe-absent" -> ObservedAbsent(t, h)
      [] OTHER                            -> TRUE

(* A call that is not refused and reports success shows it.                *)
LEMMA CallShows ==
    ASSUME NEW h \in HostState, NEW t \in Target, NEW step,
           ~Blocked(step, t, h), ~MarkerMissing(step, t, h), ~Drifted(step, t, h)
    PROVE  Shows(step, t, Ensured(step, t, h))
<1>1. t.manifest.disk \in Nat \ {0}
  BY PlannerAssumption DEF Target
<1>2. CASE step = "zfs/ensure-storage"
  <2>1. h.disk = 0 \/ (h.disk = t.manifest.disk /\ h.imaged)
    BY <1>2 DEF Blocked, ForeignStorage, MarkerMissing
  <2> QED BY <1>1, <1>2, <2>1 DEF Shows, Ensured, EnsureStorage, HostState
<1>3. CASE step = "cloudinit/ensure-seed" \/ step = "vmbhyve/ensure-config"
  BY <1>3 DEF Shows, Ensured, EnsureSeed, EnsureConfig, HostState
<1>4. CASE step = "observer/observe-all" \/ step = "observer/observe-absent"
  BY <1>4 DEF Shows, Ensured, Drifted
<1> QED BY <1>2, <1>3, <1>4 DEF Shows

Building == {"zfs/ensure-storage", "cloudinit/ensure-seed", "vmbhyve/ensure-config"}
Removing == {"zfs/ensure-absent", "cloudinit/ensure-absent", "vmbhyve/ensure-absent"}

(* Only the removing steps take away what the building ones have made.     *)
LEMMA TornKeepsBuilt ==
    ASSUME NEW h \in HostState, NEW t \in Target, NEW step \in Building, Shows(step, t, h),
           NEW other, other \notin Removing, NEW g \in Torn(other, t, h)
    PROVE  Shows(step, t, g)
<1> DEFINE Built(x) == /\ h.disk = t.manifest.disk /\ h.imaged => x.disk = h.disk /\ x.imaged
                       /\ h.seed = t.manifest => x.seed = h.seed
                       /\ h.config = t => x.config = h.config
<1>1. t.manifest.disk \in Nat \ {0}
  BY PlannerAssumption DEF Target
<1>2. Built(Ensured(other, t, h))
  BY <1>1 DEF Removing, Ensured, EnsureImage, EnsureStorage, EnsureSeed, EnsureConfig,
              EnsurePower, EnsureKeaReservation, EnsureKeaAbsent, EnsurePFRules, EnsurePFAbsent,
              HostState
<1>3. g \in TornStorage(t, h) => Built(g)
  BY <1>1 DEF TornStorage, HostState
<1>4. g \in TornKea(t, h) => Built(g)
  BY DEF TornKea, EnsureKeaAbsent, HostState
<1>5. Built(g)
  BY <1>2, <1>3, <1>4 DEF Torn, Removing
<1> QED BY <1>5 DEF Shows, Building

(* Storage is destroyed by one step alone.                                 *)
LEMMA TornKeepsStorage ==
    ASSUME NEW h \in HostState, NEW t \in Target, NEW step, NEW g \in Torn(step, t, h),
           h.disk # 0, g.disk = 0
    PROVE  step = "zfs/ensure-absent"
<1>1. t.manifest.disk \in Nat \ {0}
  BY PlannerAssumption DEF Target
<1>2. CASE g = Ensured(step, t, h)
  BY <1>1, <1>2 DEF Ensured, EnsureImage, EnsureStorage, EnsureStorageAbsent, EnsureSeed,
       EnsureSeedAbsent, EnsureConfig, EnsurePower, EnsureVMAbsent, EnsureKeaReservation,
       EnsureKeaAbsent, EnsurePFRules, EnsurePFAbsent, HostState
<1>3. CASE g \in TornVM(h) \/ g \in TornKea(t, h)
  BY <1>3 DEF TornVM, TornKea, EnsureKeaAbsent, HostState
<1>4. CASE g \in TornStorage(t, h)
  BY <1>4 DEF TornStorage
<1> QED BY <1>2, <1>3, <1>4 DEF Torn

(* A guest that vm-bhyve does not know is not powered on.                  *)
OffWithoutConfig(h) == h.config = None => ~h.running

(* No driver call leaves a guest running without its configuration.        *)
LEMMA TornKeepsOff ==
    ASSUME NEW h \in HostState, NEW t \in Target, NEW step, NEW g \in Torn(step, t, h),
           OffWithoutConfig(h)
    PROVE  OffWithoutConfig(g)
<1> USE DEF OffWithoutConfig
<1>1. CASE g = Ensured(step, t, h) /\ ~Blocked(step, t, h)
  <2>1. CASE step \in {"vmbhyve/ensure-power-state", "vmbhyve/ensure-stopped"}
    <3>1. h.config # None
      BY <1>1, <2>1 DEF Blocked, VMExists
    <3>2. g.config = h.config
      BY <1>1, <2>1 DEF Ensured, EnsurePower, HostState
    <3> QED BY <3>1, <3>2
  <2>2. CASE step \in {"vmbhyve/ensure-config", "vmbhyve/ensure-absent"}
    BY <1>1, <2>2, HostAssumption DEF Ensured, EnsureConfig, EnsureVMAbsent, VMExists, HostState
  <2>3. CASE step \notin {"vmbhyve/ensure-power-state", "vmbhyve/ensure-stopped",
                          "vmbhyve/ensure-config", "vmbhyve/ensure-absent"}
    <3>1. g.config = h.config /\ g.running = h.running
      BY <1>1, <2>3 DEF Ensured, EnsureImage, EnsureStorage, EnsureStorageAbsent, EnsureSeed,
         EnsureSeedAbsent, EnsureKeaReservation, EnsureKeaAbsent, EnsurePFRules, EnsurePFAbsent,
         HostState
    <3> QED BY <3>1
  <2> QED BY <2>1, <2>2, <2>3
<1>2. CASE g \in TornVM(h) \/ g \in TornKea(t, h) \/ g \in TornStorage(t, h)
  BY <1>2 DEF TornVM, TornKea, TornStorage, EnsureKeaAbsent, HostState
<1> QED BY <1>1, <1>2 DEF Torn
--------------------------------------------------------------------------------
(***************************************************************************)
(* The plans.                                                              *)
(***************************************************************************)

(* A sequence with one element before it.                                 *)
LEMMA PrependOne ==
    ASSUME NEW S, NEW x \in S, NEW s \in Seq(S)
    PROVE  /\ DOMAIN (<<x>> \o s) = 1..(Len(s) + 1) /\ (<<x>> \o s)[1] = x
           /\ \A i \in 1..Len(s) : (<<x>> \o s)[i + 1] = s[i]
OBVIOUS

(* The plan of an apply where the site's services are managed.            *)
LEMMA ServicesFirst ==
    ManageServices =>
        /\ DOMAIN ApplySteps = 1..10 /\ ApplySteps[1] = "service/ensure-ready"
        /\ \A i \in 1..9 : ApplySteps[i + 1] = ResourceSteps[i]
<1> DEFINE S == {"service/ensure-ready"} \cup
                { "image/ensure-verified", "zfs/ensure-storage", "cloudinit/ensure-seed",
                  "vmbhyve/ensure-definition", "vmbhyve/ensure-config",
                  "kea/ensure-reservation", "pf/ensure-rules",
                  "vmbhyve/ensure-power-state", "observer/observe-all" }
<1>1. ResourceSteps \in Seq(S)
  BY DEF ResourceSteps
<1>2. Len(ResourceSteps) = 9
  BY DEF ResourceSteps
<1>3. "service/ensure-ready" \in S
  OBVIOUS
<1> HIDE DEF S
<1>4. /\ DOMAIN (<<"service/ensure-ready">> \o ResourceSteps) = 1..(Len(ResourceSteps) + 1)
      /\ (<<"service/ensure-ready">> \o ResourceSteps)[1] = "service/ensure-ready"
      /\ \A i \in 1..Len(ResourceSteps) :
            (<<"service/ensure-ready">> \o ResourceSteps)[i + 1] = ResourceSteps[i]
  BY <1>1, <1>3, PrependOne
<1> QED BY <1>2, <1>4 DEF ApplySteps

(* The order of the steps: what is made is not removed again by the same   *)
(* operation, an observer comes last, and only a delete removes storage.   *)
LEMMA PlanOrder ==
    ASSUME NEW a \in Action, NEW i \in DOMAIN Plan(a), NEW n \in DOMAIN Plan(a)
    PROVE  /\ i < n => Plan(a)[i] \notin ObserverStep
           /\ Plan(a)[i] \in Building => Plan(a)[n] \notin Removing
           /\ Plan(a)[i] \in {"zfs/ensure-absent", "observer/observe-absent"} => a = "delete"
<1> USE DEF ObserverStep, Building, Removing
<1>1. CASE a = "delete"
  BY <1>1 DEF Plan, DeleteSteps
<1>2. CASE a = "reconcile"
  BY <1>2 DEF Plan, ReconcileSteps
<1>3. CASE a = "apply" /\ ~ManageServices
  BY <1>3 DEF Plan, ApplySteps, ResourceSteps
<1>4. CASE a = "apply" /\ ManageServices
  <2>1. Plan(a) = ApplySteps
    BY <1>4 DEF Plan
  <2>2. DOMAIN ApplySteps = 1..10
    BY <1>4, ServicesFirst
  <2>3. \A j \in 1..10 : j = 1 \/ \E k \in 1..9 : j = k + 1
    OBVIOUS
  <2>4. /\ \A k \in 1..8 : ResourceSteps[k] \notin ObserverStep
        /\ \A k \in 1..9 : ResourceSteps[k] \notin Removing \cup {"observer/observe-absent"}
    BY DEF ResourceSteps
  <2>5. \A j \in 1..10 : /\ j # 10 => ApplySteps[j] \notin ObserverStep
                         /\ ApplySteps[j] \notin Removing \cup {"observer/observe-absent"}
    BY <1>4, <2>3, <2>4, ServicesFirst
  <2>6. i < n => i # 10
    BY <2>1, <2>2
  <2> QED BY <2>1, <2>2, <2>5, <2>6
<1> QED BY <1>1, <1>2, <1>3, <1>4 DEF Action

(* Each plan ends with its observer, and an apply builds the guest.        *)
LEMMA PlanHas ==
    /\ \E i \in DOMAIN Plan("delete") : Plan("delete")[i] = "observer/observe-absent"
    /\ \E i \in DOMAIN Plan("reconcile") : Plan("reconcile")[i] = "observer/observe-all"
    /\ \A s \in Building \cup {"observer/observe-all"} :
          \E i \in DOMAIN Plan("apply") : Plan("apply")[i] = s
<1>1. DeleteSteps[7] = "observer/observe-absent" /\ 7 \in DOMAIN DeleteSteps
  BY DEF DeleteSteps
<1>2. ReconcileSteps[1] = "observer/observe-all" /\ 1 \in DOMAIN ReconcileSteps
  BY DEF ReconcileSteps
<1>3. CASE ManageServices
  <2>1. /\ ApplySteps[3] = "zfs/ensure-storage" /\ ApplySteps[4] = "cloudinit/ensure-seed"
        /\ ApplySteps[6] = "vmbhyve/ensure-config" /\ ApplySteps[10] = "observer/observe-all"
        /\ 3 \in DOMAIN ApplySteps /\ 4 \in DOMAIN ApplySteps
        /\ 6 \in DOMAIN ApplySteps /\ 10 \in DOMAIN ApplySteps
    <3>1. /\ ResourceSteps[2] = "zfs/ensure-storage" /\ ResourceSteps[3] = "cloudinit/ensure-seed"
          /\ ResourceSteps[5] = "vmbhyve/ensure-config" /\ ResourceSteps[9] = "observer/observe-all"
      BY DEF ResourceSteps
    <3> QED BY <1>3, <3>1, ServicesFirst
  <2> QED BY <1>1, <1>2, <2>1 DEF Plan, Building
<1>4. CASE ~ManageServices
  <2>1. /\ ApplySteps[2] = "zfs/ensure-storage" /\ ApplySteps[3] = "cloudinit/ensure-seed"
        /\ ApplySteps[5] = "vmbhyve/ensure-config" /\ ApplySteps[9] = "observer/observe-all"
        /\ 2 \in DOMAIN ApplySteps /\ 3 \in DOMAIN ApplySteps
        /\ 5 \in DOMAIN ApplySteps /\ 9 \in DOMAIN ApplySteps
    BY <1>4 DEF ApplySteps, ResourceSteps
  <2> QED BY <1>1, <1>2, <2>1 DEF Plan, Building
<1> QED BY <1>3, <1>4
================================================================================
