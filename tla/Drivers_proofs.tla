----------------------------- MODULE Drivers_proofs -----------------------------
(***************************************************************************)
(* The drivers, command by command, implement the one-step call of module  *)
(* DriverCall: for every manifest, identity and number of services, and    *)
(* any number of faults and of changes by others.                          *)
(***************************************************************************)
EXTENDS Drivers, Host_proofs, TLAPS

Here == HostOf(sys)

(* The commands of each driver call.                                       *)
Commands(step) ==
    CASE step = "service/ensure-ready"       -> {"service status", "service start", "service check"}
      [] step = "image/ensure-verified"      -> {"read image", "download", "rename image", "mark image"}
      [] step = "zfs/ensure-storage"         -> {"zfs create", "verify storage", "dd", "zfs set", "read identity"}
      [] step = "zfs/ensure-absent"          -> {"zfs destroy", "zfs list"}
      [] step = "cloudinit/ensure-seed"      -> {"read seed", "rename seed", "mark seed"}
      [] step = "cloudinit/ensure-absent"    -> {"rm seed.iso", "rm marker"}
      [] step = "vmbhyve/ensure-definition"  -> {"mkdir"}
      [] step = "vmbhyve/ensure-config"      -> {"write config"}
      [] step \in {"vmbhyve/ensure-power-state", "vmbhyve/ensure-stopped"} -> {"vm list", "vm start or stop"}
      [] step = "vmbhyve/ensure-absent"      -> {"vm stop", "vm destroy", "rm files"}
      [] step = "kea/ensure-reservation"     -> {"reservation-get", "reservation-add", "reservation-update",
                                                 "reservation-del", "reservation-check"}
      [] step = "kea/ensure-absent"          -> {"reservation-drop", "reservation-gone"}
      [] step = "pf/ensure-rules"            -> IF ManageAnchor THEN {"pfctl load", "pfctl check"} ELSE {"skip"}
      [] step = "pf/ensure-absent"           -> IF ManageAnchor THEN {"pfctl flush", "pfctl gone"} ELSE {"skip"}
      [] step \in ObserverStep               -> {"observe"}

(* The hosts at which a command of a call on b can begin.                  *)
Reach(command, t, b) ==
    CASE command = "mark image"       -> {b, EnsureImage(b)}
      [] command \in {"verify storage", "dd", "zfs set"} -> {IF b.disk = 0 THEN HalfStored(t, b) ELSE b}
      [] command = "read identity"    -> {EnsureStorage(t, b)}
      [] command = "zfs list"         -> {b, EnsureStorageAbsent(b)}
      [] command = "mark seed"        -> {EnsureSeed(t, b)}
      [] command = "rm marker"        -> {EnsureSeedAbsent(b)}
      [] command = "vm destroy"       -> {[b EXCEPT !.running = FALSE]}
      [] command = "rm files"         -> TornVM(b) \cup {EnsureVMAbsent(b)}
      [] command \in {"reservation-get", "reservation-update"} -> {b}
      [] command \in {"reservation-add", "reservation-del", "reservation-check"}
                                      -> {b, EnsureKeaReservation(t, b)} \cup TornKea(t, b)
      [] command = "reservation-gone" -> {b, EnsureKeaAbsent(t, b)}
      [] command = "pfctl check"      -> {b, EnsurePFRules(t, b)}
      [] command = "pfctl gone"       -> {b, EnsurePFAbsent(b)}
      [] OTHER                        -> {b}

(* What the driver knows at a command, from those before it.               *)
Knows ==
    /\ at \in {"download", "rename image"} => ~before.image
    /\ at = "mark image" => sys.raw = "image"
    /\ at = "verify storage" => (fresh <=> before.disk = 0)
    /\ at \in {"dd", "zfs set"} => before.disk = 0 /\ before.image
    /\ at = "zfs set" => sys.content = "image"
    /\ at = "read identity" => before.image /\ before.disk \in {0, manifest.disk}
    /\ at \in {"vm start or stop", "vm destroy", "rm files"} => before.config # None
    /\ at = "reservation-update" => identity \in before.kea

(* A machine: the zvol is in its dataset, and carries the image identity   *)
(* only when it holds the image.                                           *)
Sound(s) ==
    /\ s \in Machine
    /\ s.zvol # 0 => s.dataset
    /\ s.stamp => s.zvol # 0 /\ s.content = "image"

Typed ==
    /\ before \in HostState
    /\ op \in [action : Action, target : Target] \cup {None}
    /\ n \in Nat \ {0} /\ nth \in 1..Services /\ fresh \in BOOLEAN
    /\ call \in DC!Call \cup {None}
    /\ answer \in DC!Outcomes \cup {"running"}
    /\ at = "idle" <=> answer # "running"

Underway ==
    at # "idle" =>
        /\ call \in DC!Call /\ at \in Commands(call.step)
        /\ Here \in Reach(at, target, before)
        /\ Knows

Inv == Typed /\ Sound(sys) /\ Underway

(***************************************************************************)
(* Both modules have the planner's plans and the host of module Host.      *)
(***************************************************************************)
LEMMA SamePlanner == DC!Action = Action /\ \A a : DC!Plan(a) = Plan(a)
BY DEF DC!Action, DC!Plan, DC!ApplySteps, DC!ResourceSteps, DC!DeleteSteps, DC!ReconcileSteps,
       Action, Plan, ApplySteps, ResourceSteps, DeleteSteps, ReconcileSteps

LEMMA SameTypes ==
    DC!Target = Target /\ DC!HostState = HostState /\ DC!EmptyHost = EmptyHost /\ DC!ReadsBack = ReadsBack
BY DEF DC!Target, DC!HostState, DC!EmptyHost, DC!ReadsBack, Target, HostState, EmptyHost, ReadsBack

LEMMA SameEnsured == \A step, t, h : DC!Ensured(step, t, h) = Ensured(step, t, h)
BY DEF DC!Ensured, DC!EnsureImage, DC!EnsureStorage, DC!EnsureStorageAbsent, DC!EnsureSeed,
       DC!EnsureSeedAbsent, DC!EnsureConfig, DC!EnsurePower, DC!EnsureVMAbsent, DC!VMExists,
       DC!EnsureKeaReservation, DC!EnsureKeaAbsent, DC!EnsurePFRules, DC!EnsurePFAbsent,
       Ensured, EnsureImage, EnsureStorage, EnsureStorageAbsent, EnsureSeed, EnsureSeedAbsent,
       EnsureConfig, EnsurePower, EnsureVMAbsent, VMExists, EnsureKeaReservation, EnsureKeaAbsent,
       EnsurePFRules, EnsurePFAbsent

LEMMA SameAnswers ==
    \A step, t, h :
        /\ DC!Blocked(step, t, h) = Blocked(step, t, h)
        /\ DC!MarkerMissing(step, t, h) = MarkerMissing(step, t, h)
        /\ DC!Drifted(step, t, h) = Drifted(step, t, h)
        /\ DC!Skips(step) = Skips(step)
        /\ DC!Refusable(step, h) = Refusable(step, h)
        /\ DC!HalfStored(t, h) = HalfStored(t, h)
BY DEF DC!Blocked, DC!ForeignStorage, DC!VMExists, DC!MarkerMissing, DC!Drifted, DC!ObservedPresent,
       DC!ObservedAbsent, DC!Skips, DC!Refusable, DC!HalfStored,
       Blocked, ForeignStorage, VMExists, MarkerMissing, Drifted, ObservedPresent, ObservedAbsent,
       Skips, Refusable, HalfStored

LEMMA SameTorn == \A step, t, h : DC!Torn(step, t, h) = Torn(step, t, h)
BY SameEnsured, SameAnswers
   DEF DC!Torn, DC!TornStorage, DC!TornVM, DC!VMExists, DC!TornKea, DC!EnsureKeaAbsent,
       Torn, TornStorage, TornVM, VMExists, TornKea, EnsureKeaAbsent

(***************************************************************************)
(* The abstract actions, over the machine.                                 *)
(***************************************************************************)
LEMMA WorkMaps ==
    ASSUME answer = "running", Here' \in Torn(call.step, call.target, before),
           UNCHANGED <<call, before, answer>>
    PROVE  DC!Work
BY SameTorn DEF DC!Work, Here

LEMMA ReturnMaps ==
    ASSUME answer = "running", UNCHANGED <<call, before>>,
           LET step == call.step
               t    == call.target
           IN  \/ answer' = "blocked" /\ Blocked(step, t, before) /\ Here' = before
               \/ /\ answer' \in {"failed", "blocked"} /\ MarkerMissing(step, t, before)
                  /\ Here' = HalfStored(t, before)
               \/ answer' = "drift" /\ Drifted(step, t, before) /\ Here' = before
               \/ /\ answer' = IF Skips(step) THEN "skipped" ELSE "done"
                  /\ ~Blocked(step, t, before) /\ ~MarkerMissing(step, t, before)
                  /\ ~Drifted(step, t, before) /\ Here' = Ensured(step, t, before)
               \/ /\ ~Skips(step)
                  /\ \/ /\ answer' = "failed" \/ (answer' = "drift" /\ step \in ReadsBack)
                        /\ Here' \in Torn(step, t, before)
                     \/ answer' = "blocked" /\ Refusable(step, before) /\ Here' = before
    PROVE  DC!Return
BY SameTypes, SameTorn, SameEnsured, SameAnswers DEF DC!Return, DC!Answers, DC!Errs, Here

LEMMA KilledMaps ==
    ASSUME answer = "running", answer' = "killed", UNCHANGED <<call, before>>,
           Here' \in Torn(call.step, call.target, before)
    PROVE  DC!Killed
BY SameTorn DEF DC!Killed, Here

(***************************************************************************)
(* Commands and the host.                                                  *)
(***************************************************************************)
LEMMA CallTyped == ASSUME NEW c \in DC!Call PROVE c.target \in Target /\ c.target.manifest \in Manifests
                          /\ c.target.identity \in Identities /\ c.target.manifest.disk \in Nat \ {0}
BY SameTypes, PlannerAssumption DEF DC!Call, Target

LEMMA HostTyped == ASSUME NEW s \in Machine PROVE HostOf(s) \in HostState
BY DEF HostOf, Machine, HostState

(* The commands that change the machine.                                   *)
Changing ==
    { "service start", "rename image", "mark image", "zfs create", "zfs destroy", "vm destroy",
      "rm files", "dd", "zfs set", "rename seed", "mark seed", "rm seed.iso", "rm marker",
      "write config", "vm start or stop", "vm stop", "reservation-add", "reservation-update",
      "reservation-del", "reservation-drop", "pfctl load", "pfctl flush" }

(* A change of one thing leaves a machine.                                 *)
LEMMA FieldSound ==
    ASSUME NEW s, Sound(s)
    PROVE  /\ \A r \in {"none", "image", "other"} : Sound([s EXCEPT !.raw = r])
           /\ \A b \in BOOLEAN : Sound([s EXCEPT !.marker = b]) /\ Sound([s EXCEPT !.running = b])
           /\ Sound([s EXCEPT !.dataset = TRUE])
           /\ ~s.stamp => Sound([s EXCEPT !.content = "part"])
           /\ Sound([s EXCEPT !.content = "image"])
           /\ s.zvol # 0 /\ s.content = "image" => Sound([s EXCEPT !.stamp = TRUE])
           /\ \A m \in Manifests \cup {None} : Sound([s EXCEPT !.iso = m]) /\ Sound([s EXCEPT !.seal = m])
           /\ \A t \in Target \cup {None} : Sound([s EXCEPT !.config = t])
           /\ \A i \in Identities, r \in {"none", "other", "match"} : Sound([s EXCEPT !.res[i] = r])
           /\ \A i \in Identities \cup {None} : Sound([s EXCEPT !.rules = i])
           /\ \A u \in SUBSET (1..Services) : Sound([s EXCEPT !.up = u])
<1> USE DEF Sound, Machine
<1>1. \A r \in {"none", "image", "other"} : Sound([s EXCEPT !.raw = r])
  OBVIOUS
<1>2. \A b \in BOOLEAN : Sound([s EXCEPT !.marker = b]) /\ Sound([s EXCEPT !.running = b])
  OBVIOUS
<1>3. Sound([s EXCEPT !.dataset = TRUE])
  OBVIOUS
<1>4. ~s.stamp => Sound([s EXCEPT !.content = "part"])
  OBVIOUS
<1>5. Sound([s EXCEPT !.content = "image"])
  OBVIOUS
<1>6. s.zvol # 0 /\ s.content = "image" => Sound([s EXCEPT !.stamp = TRUE])
  OBVIOUS
<1>7. \A m \in Manifests \cup {None} : Sound([s EXCEPT !.iso = m]) /\ Sound([s EXCEPT !.seal = m])
  OBVIOUS
<1>8. \A t \in Target \cup {None} : Sound([s EXCEPT !.config = t])
  OBVIOUS
<1>9. \A i \in Identities, r \in {"none", "other", "match"} : Sound([s EXCEPT !.res[i] = r])
  OBVIOUS
<1>10. \A i \in Identities \cup {None} : Sound([s EXCEPT !.rules = i])
  OBVIOUS
<1>11. \A u \in SUBSET (1..Services) : Sound([s EXCEPT !.up = u])
  OBVIOUS
<1> QED BY <1>1, <1>2, <1>3, <1>4, <1>5, <1>6, <1>7, <1>8, <1>9, <1>10, <1>11

LEMMA VolumeSound ==
    ASSUME NEW s, Sound(s), call \in DC!Call
    PROVE  /\ Sound(CreateVolume(s))
           /\ Sound(NoVolume(s)) /\ Sound([NoVolume(s) EXCEPT !.dataset = s.dataset])
           /\ Sound(NoDirectory(s))
<1>1. call.target.manifest.disk \in Nat \ {0}
  BY CallTyped
<1>2. Sound(CreateVolume(s))
  BY <1>1 DEF CreateVolume, Sound, Machine, target, manifest
<1>3. Sound(NoVolume(s)) /\ Sound([NoVolume(s) EXCEPT !.dataset = s.dataset])
  BY DEF NoVolume, Sound, Machine
<1>4. Sound(NoDirectory(s))
  BY DEF NoDirectory, Sound, Machine
<1> QED BY <1>2, <1>3, <1>4

(* Every command leaves a machine, also when it is interrupted.            *)
LEMMA EffectSound ==
    ASSUME NEW s, Sound(s), call \in DC!Call, nth \in 1..Services, NEW c,
           c = "zfs set" => s.zvol # 0 /\ s.content = "image",
           c = "dd" => ~s.stamp
    PROVE  Sound(Effect(c, s)) /\ \A r \in Partly(c, s) : Sound(r)
<1>1. call.target \in Target /\ call.target.manifest \in Manifests
      /\ call.target.identity \in Identities /\ call.target.manifest.disk \in Nat \ {0}
  BY CallTyped
<1>2. s.up \cup {nth} \in SUBSET (1..Services)
  BY DEF Sound, Machine
<1> USE DEF target, manifest, identity
<1>5. Sound(Effect(c, s))
  <2>1. CASE c \in {"service start", "rename image", "mark image"}
    BY <1>2, <2>1, FieldSound DEF Effect
  <2>2. CASE c \in {"zfs create", "zfs destroy", "vm destroy", "rm files"}
    BY <2>2, VolumeSound DEF Effect
  <2>3. CASE c \in {"dd", "zfs set"}
    BY <2>3, FieldSound DEF Effect
  <2>4. CASE c \in {"rename seed", "mark seed", "rm seed.iso", "rm marker"}
    BY <1>1, <2>4, FieldSound DEF Effect
  <2>5. CASE c \in {"write config", "vm start or stop", "vm stop"}
    BY <1>1, <2>5, FieldSound DEF Effect
  <2>6. CASE c \in {"reservation-add", "reservation-update", "reservation-del", "reservation-drop"}
    BY <1>1, <2>6, FieldSound DEF Effect
  <2>7. CASE c \in {"pfctl load", "pfctl flush"}
    BY <1>1, <2>7, FieldSound DEF Effect
  <2>8. CASE c \notin Changing
    BY <2>8 DEF Effect, Changing
  <2> QED BY <2>1, <2>2, <2>3, <2>4, <2>5, <2>6, <2>7, <2>8 DEF Changing
<1>6. ASSUME NEW r \in Partly(c, s) PROVE Sound(r)
  <2>1. CASE c \in {"zfs create", "dd"}
    BY <1>6, <2>1, FieldSound DEF Partly
  <2>3. CASE c = "zfs destroy"
    BY <1>6, <2>3, VolumeSound DEF Partly
  <2>4. CASE c \in {"vm destroy", "rm files"}
    <3>1. r \in {[s EXCEPT !.config = None], [s EXCEPT !.iso = None], [s EXCEPT !.seal = None]}
      BY <1>6, <2>4 DEF Partly
    <3>2. Sound([s EXCEPT !.config = None]) /\ Sound([s EXCEPT !.iso = None]) /\ Sound([s EXCEPT !.seal = None])
      BY FieldSound
    <3> QED BY <3>1, <3>2
  <2>5. CASE c \notin {"zfs create", "dd", "zfs destroy", "vm destroy", "rm files"}
    BY <1>6, <2>5 DEF Partly
  <2> QED BY <2>1, <2>3, <2>4, <2>5
<1> QED BY <1>5, <1>6

(* A host is what its fields say.                                          *)
LEMMA HostExt ==
    ASSUME NEW g \in HostState, NEW h \in HostState,
           g.image = h.image, g.disk = h.disk, g.imaged = h.imaged, g.running = h.running,
           g.seed = h.seed, g.config = h.config, g.kea = h.kea, g.pf = h.pf
    PROVE  g = h
BY DEF HostState

(* What a change of one thing is to the host.                              *)
LEMMA FieldHost ==
    ASSUME NEW s \in Machine
    PROVE  LET h == HostOf(s)
           IN  /\ HostOf([s EXCEPT !.raw = "image"]) = [h EXCEPT !.image = s.marker]
               /\ HostOf([s EXCEPT !.marker = TRUE]) = [h EXCEPT !.image = (s.raw = "image")]
               /\ HostOf([s EXCEPT !.dataset = TRUE]) = h
               /\ \A c : HostOf([s EXCEPT !.content = c]) = h
               /\ HostOf([s EXCEPT !.stamp = TRUE]) = [h EXCEPT !.imaged = TRUE]
               /\ \A m : HostOf([s EXCEPT !.iso = m]) = [h EXCEPT !.seed = m]
               /\ \A m : HostOf([s EXCEPT !.seal = m]) = h
               /\ \A t : HostOf([s EXCEPT !.config = t]) = [h EXCEPT !.config = t]
               /\ \A b \in BOOLEAN : HostOf([s EXCEPT !.running = b]) = [h EXCEPT !.running = b]
               /\ \A i \in Identities : HostOf([s EXCEPT !.res[i] = "match"]) = [h EXCEPT !.kea = @ \cup {i}]
               /\ \A i \in Identities : HostOf([s EXCEPT !.res[i] = "none"]) = [h EXCEPT !.kea = @ \ {i}]
               /\ \A i : HostOf([s EXCEPT !.rules = i]) = [h EXCEPT !.pf = i]
               /\ \A u : HostOf([s EXCEPT !.up = u]) = h
               /\ HostOf(NoVolume(s)) = EnsureStorageAbsent(h)
               /\ HostOf([NoVolume(s) EXCEPT !.dataset = s.dataset]) = EnsureStorageAbsent(h)
               /\ HostOf(NoDirectory(s)) = [h EXCEPT !.config = None, !.seed = None]
<1> DEFINE h == HostOf(s)
<1>0. h \in HostState
  BY HostTyped
<1> HIDE DEF h
<1>1. HostOf([s EXCEPT !.raw = "image"]) = [h EXCEPT !.image = s.marker]
  <2>1. HostOf([s EXCEPT !.raw = "image"]) =
          [ image |-> s.marker, disk |-> h.disk, imaged |-> h.imaged, running |-> h.running,
            seed |-> h.seed, config |-> h.config, kea |-> h.kea, pf |-> h.pf ]
    BY DEF h, HostOf, Machine
  <2> QED BY <1>0, <2>1 DEF HostState
<1>2. HostOf([s EXCEPT !.marker = TRUE]) = [h EXCEPT !.image = (s.raw = "image")]
  <2>1. HostOf([s EXCEPT !.marker = TRUE]) =
          [ image |-> (s.raw = "image"), disk |-> h.disk, imaged |-> h.imaged, running |-> h.running,
            seed |-> h.seed, config |-> h.config, kea |-> h.kea, pf |-> h.pf ]
    BY DEF h, HostOf, Machine
  <2> QED BY <1>0, <2>1 DEF HostState
<1>3. HostOf([s EXCEPT !.dataset = TRUE]) = h
  BY DEF h, HostOf, Machine
<1>4. \A c : HostOf([s EXCEPT !.content = c]) = h
  BY DEF h, HostOf, Machine
<1>5. HostOf([s EXCEPT !.stamp = TRUE]) = [h EXCEPT !.imaged = TRUE]
  <2>1. HostOf([s EXCEPT !.stamp = TRUE]) =
          [ image |-> h.image, disk |-> h.disk, imaged |-> TRUE, running |-> h.running,
            seed |-> h.seed, config |-> h.config, kea |-> h.kea, pf |-> h.pf ]
    BY DEF h, HostOf, Machine
  <2>2. HostOf([s EXCEPT !.stamp = TRUE]) \in HostState
    <3>1. [s EXCEPT !.stamp = TRUE] \in Machine
      BY DEF Machine
    <3> QED BY <3>1, HostTyped
  <2>3. [h EXCEPT !.imaged = TRUE] \in HostState
    BY <1>0 DEF HostState
  <2> QED BY <1>0, <2>1, <2>2, <2>3, HostExt DEF HostState
<1>6. \A m : HostOf([s EXCEPT !.iso = m]) = [h EXCEPT !.seed = m]
  <2> TAKE m
  <2>1. HostOf([s EXCEPT !.iso = m]) =
          [ image |-> h.image, disk |-> h.disk, imaged |-> h.imaged, running |-> h.running,
            seed |-> m, config |-> h.config, kea |-> h.kea, pf |-> h.pf ]
    BY DEF h, HostOf, Machine
  <2> QED BY <1>0, <2>1 DEF HostState
<1>7. \A m : HostOf([s EXCEPT !.seal = m]) = h
  BY DEF h, HostOf, Machine
<1>8. \A t : HostOf([s EXCEPT !.config = t]) = [h EXCEPT !.config = t]
  <2> TAKE t
  <2>1. HostOf([s EXCEPT !.config = t]) =
          [ image |-> h.image, disk |-> h.disk, imaged |-> h.imaged, running |-> h.running,
            seed |-> h.seed, config |-> t, kea |-> h.kea, pf |-> h.pf ]
    BY DEF h, HostOf, Machine
  <2> QED BY <1>0, <2>1 DEF HostState
<1>9. \A b \in BOOLEAN : HostOf([s EXCEPT !.running = b]) = [h EXCEPT !.running = b]
  <2> TAKE b \in BOOLEAN
  <2>1. HostOf([s EXCEPT !.running = b]) =
          [ image |-> h.image, disk |-> h.disk, imaged |-> h.imaged, running |-> b,
            seed |-> h.seed, config |-> h.config, kea |-> h.kea, pf |-> h.pf ]
    BY DEF h, HostOf, Machine
  <2> QED BY <1>0, <2>1 DEF HostState
<1>10. \A i \in Identities : HostOf([s EXCEPT !.res[i] = "match"]) = [h EXCEPT !.kea = @ \cup {i}]
  <2> TAKE i \in Identities
  <2>1. HostOf([s EXCEPT !.res[i] = "match"]) =
          [ image |-> h.image, disk |-> h.disk, imaged |-> h.imaged, running |-> h.running,
            seed |-> h.seed, config |-> h.config, kea |-> h.kea \cup {i}, pf |-> h.pf ]
    BY DEF h, HostOf, Machine
  <2> QED BY <1>0, <2>1 DEF HostState
<1>11. \A i \in Identities : HostOf([s EXCEPT !.res[i] = "none"]) = [h EXCEPT !.kea = @ \ {i}]
  <2> TAKE i \in Identities
  <2>1. HostOf([s EXCEPT !.res[i] = "none"]) =
          [ image |-> h.image, disk |-> h.disk, imaged |-> h.imaged, running |-> h.running,
            seed |-> h.seed, config |-> h.config, kea |-> h.kea \ {i}, pf |-> h.pf ]
    BY DEF h, HostOf, Machine
  <2> QED BY <1>0, <2>1 DEF HostState
<1>12. \A i : HostOf([s EXCEPT !.rules = i]) = [h EXCEPT !.pf = i]
  <2> TAKE i
  <2>1. HostOf([s EXCEPT !.rules = i]) =
          [ image |-> h.image, disk |-> h.disk, imaged |-> h.imaged, running |-> h.running,
            seed |-> h.seed, config |-> h.config, kea |-> h.kea, pf |-> i ]
    BY DEF h, HostOf, Machine
  <2> QED BY <1>0, <2>1 DEF HostState
<1>13. \A u : HostOf([s EXCEPT !.up = u]) = h
  BY DEF h, HostOf, Machine
<1>14. HostOf(NoVolume(s)) = EnsureStorageAbsent(h)
  <2>1. HostOf(NoVolume(s)) =
          [ image |-> h.image, disk |-> 0, imaged |-> FALSE, running |-> h.running,
            seed |-> h.seed, config |-> h.config, kea |-> h.kea, pf |-> h.pf ]
    BY DEF h, HostOf, Machine, NoVolume
  <2>2. HostOf(NoVolume(s)) \in HostState
    BY <1>0, <2>1 DEF HostState
  <2>3. EnsureStorageAbsent(h) \in HostState
    BY <1>0 DEF HostState, EnsureStorageAbsent
  <2> QED BY <1>0, <2>1, <2>2, <2>3, HostExt DEF HostState, EnsureStorageAbsent
<1>15. HostOf([NoVolume(s) EXCEPT !.dataset = s.dataset]) = EnsureStorageAbsent(h)
  <2>1. HostOf([NoVolume(s) EXCEPT !.dataset = s.dataset]) = HostOf(NoVolume(s))
    BY DEF HostOf, Machine, NoVolume
  <2> QED BY <1>14, <2>1
<1>16. HostOf(NoDirectory(s)) = [h EXCEPT !.config = None, !.seed = None]
  <2>1. HostOf(NoDirectory(s)) =
          [ image |-> h.image, disk |-> h.disk, imaged |-> h.imaged, running |-> h.running,
            seed |-> None, config |-> None, kea |-> h.kea, pf |-> h.pf ]
    BY DEF h, HostOf, Machine, NoDirectory
  <2>2. HostOf(NoDirectory(s)) \in HostState
    <3>1. NoDirectory(s) \in Machine
      BY DEF NoDirectory, Machine
    <3> QED BY <3>1, HostTyped
  <2>3. [h EXCEPT !.config = None, !.seed = None] \in HostState
    BY <1>0 DEF HostState
  <2> QED BY <1>0, <2>1, <2>2, <2>3, HostExt DEF HostState
<1> QED BY <1>1, <1>2, <1>3, <1>4, <1>5, <1>6, <1>7, <1>8, <1>9, <1>10, <1>11, <1>12, <1>13, <1>14, <1>15, <1>16 DEF h

(* The commands that change the host, and how.                             *)
ChangingHost ==
    { "rename image", "mark image", "zfs create", "zfs set", "zfs destroy", "rename seed",
      "rm seed.iso", "write config", "vm start or stop", "vm stop", "vm destroy", "rm files",
      "reservation-add", "reservation-update", "reservation-del", "reservation-drop",
      "pfctl load", "pfctl flush" }

LEMMA EffectHost ==
    ASSUME NEW s \in Machine, call \in DC!Call
    PROVE  LET h == HostOf(s)
           IN  /\ \A c : c \notin ChangingHost => HostOf(Effect(c, s)) = h
               /\ HostOf(Effect("rename image", s)) = [h EXCEPT !.image = s.marker]
               /\ HostOf(Effect("mark image", s)) = [h EXCEPT !.image = (s.raw = "image")]
               /\ h.disk # 0 => HostOf(Effect("zfs create", s)) = h
               /\ h.disk = 0 => HostOf(Effect("zfs create", s)) = HalfStored(target, h)
               /\ HostOf(Effect("zfs set", s)) = [h EXCEPT !.imaged = TRUE]
               /\ HostOf(Effect("zfs destroy", s)) = EnsureStorageAbsent(h)
               /\ HostOf(Effect("rename seed", s)) = EnsureSeed(target, h)
               /\ HostOf(Effect("rm seed.iso", s)) = EnsureSeedAbsent(h)
               /\ HostOf(Effect("write config", s)) = EnsureConfig(target, h)
               /\ HostOf(Effect("vm start or stop", s)) = EnsurePower(Power, h)
               /\ h.config = None => HostOf(Effect("vm stop", s)) = h
               /\ h.config # None => HostOf(Effect("vm stop", s)) = [h EXCEPT !.running = FALSE]
               /\ \A c \in {"vm destroy", "rm files"} :
                      HostOf(Effect(c, s)) = [h EXCEPT !.config = None, !.seed = None]
               /\ \A c \in {"reservation-add", "reservation-update"} :
                      HostOf(Effect(c, s)) = EnsureKeaReservation(target, h)
               /\ \A c \in {"reservation-del", "reservation-drop"} :
                      HostOf(Effect(c, s)) = EnsureKeaAbsent(target, h)
               /\ HostOf(Effect("pfctl load", s)) = [h EXCEPT !.pf = identity]
               /\ HostOf(Effect("pfctl flush", s)) = [h EXCEPT !.pf = None]
<1> DEFINE h == HostOf(s)
<1>0. target \in Target /\ identity \in Identities /\ identity = target.identity
      /\ manifest = target.manifest /\ manifest.disk \in Nat \ {0}
      /\ h \in HostState /\ h.disk = s.zvol /\ h.config = s.config
  BY CallTyped, HostTyped DEF target, manifest, identity, HostOf
<1>1. ASSUME NEW c, c \notin ChangingHost PROVE HostOf(Effect(c, s)) = h
  <2>1. CASE c = "service start"
    BY <2>1, FieldHost DEF Effect
  <2>2. CASE c = "dd"
    BY <2>2, FieldHost DEF Effect
  <2>3. CASE c \in {"mark seed", "rm marker"}
    BY <2>3, FieldHost DEF Effect
  <2>4. CASE c \notin {"service start", "dd", "mark seed", "rm marker"}
    BY <1>1, <2>4 DEF Effect, ChangingHost
  <2> QED BY <2>1, <2>2, <2>3, <2>4
<1>2. /\ HostOf(Effect("rename image", s)) = [h EXCEPT !.image = s.marker]
      /\ HostOf(Effect("mark image", s)) = [h EXCEPT !.image = (s.raw = "image")]
  BY FieldHost DEF Effect
<1>3. h.disk # 0 => HostOf(Effect("zfs create", s)) = h
  BY <1>0, FieldHost DEF Effect, CreateVolume
<1>4. ASSUME h.disk = 0 PROVE HostOf(Effect("zfs create", s)) = HalfStored(target, h)
  <2>1. Effect("zfs create", s) =
            [s EXCEPT !.dataset = TRUE, !.zvol = manifest.disk, !.content = "none", !.stamp = FALSE]
    BY <1>0, <1>4 DEF Effect, CreateVolume
  <2>2. Effect("zfs create", s) \in Machine
    BY <1>0, <2>1 DEF Machine
  <2>3. HalfStored(target, h) \in HostState
    BY <1>0 DEF HalfStored, HostState
  <2>4. HostOf(Effect("zfs create", s)).disk = manifest.disk
        /\ HostOf(Effect("zfs create", s)).imaged = FALSE
    BY <2>1 DEF HostOf, Machine
  <2>5. HalfStored(target, h).disk = manifest.disk /\ HalfStored(target, h).imaged = FALSE
    BY <1>0, <1>4 DEF HalfStored, HostState
  <2>6. /\ HostOf(Effect("zfs create", s)).image = h.image
        /\ HostOf(Effect("zfs create", s)).running = h.running
        /\ HostOf(Effect("zfs create", s)).seed = h.seed
        /\ HostOf(Effect("zfs create", s)).config = h.config
        /\ HostOf(Effect("zfs create", s)).kea = h.kea
        /\ HostOf(Effect("zfs create", s)).pf = h.pf
    <3> DEFINE g == Effect("zfs create", s)
    <3>1. /\ g.raw = s.raw /\ g.marker = s.marker /\ g.running = s.running /\ g.iso = s.iso
          /\ g.config = s.config /\ g.res = s.res /\ g.rules = s.rules
      BY <2>1 DEF Machine
    <3> HIDE DEF g
    <3>2. /\ HostOf(g).image = h.image /\ HostOf(g).running = h.running /\ HostOf(g).seed = h.seed
          /\ HostOf(g).config = h.config /\ HostOf(g).kea = h.kea /\ HostOf(g).pf = h.pf
      BY <3>1 DEF HostOf
    <3> QED BY <3>2 DEF g
  <2>7. /\ HalfStored(target, h).image = h.image /\ HalfStored(target, h).running = h.running
        /\ HalfStored(target, h).seed = h.seed /\ HalfStored(target, h).config = h.config
        /\ HalfStored(target, h).kea = h.kea /\ HalfStored(target, h).pf = h.pf
    BY <1>0 DEF HalfStored, HostState
  <2> QED BY <2>2, <2>3, <2>4, <2>5, <2>6, <2>7, HostTyped, HostExt
<1>5. /\ HostOf(Effect("zfs set", s)) = [h EXCEPT !.imaged = TRUE]
      /\ HostOf(Effect("zfs destroy", s)) = EnsureStorageAbsent(h)
  BY FieldHost DEF Effect
<1>6. /\ HostOf(Effect("rename seed", s)) = EnsureSeed(target, h)
      /\ HostOf(Effect("rm seed.iso", s)) = EnsureSeedAbsent(h)
  <2>1. Effect("rename seed", s) = [s EXCEPT !.iso = manifest] /\ Effect("rm seed.iso", s) = [s EXCEPT !.iso = None]
    BY DEF Effect
  <2>2. \A m : HostOf([s EXCEPT !.iso = m]) = [h EXCEPT !.seed = m]
    BY FieldHost
  <2> QED BY <1>0, <2>1, <2>2 DEF EnsureSeed, EnsureSeedAbsent
<1>7. HostOf(Effect("write config", s)) = EnsureConfig(target, h)
  <2>1. Effect("write config", s) = [s EXCEPT !.config = target]
    BY DEF Effect
  <2>2. \A t : HostOf([s EXCEPT !.config = t]) = [h EXCEPT !.config = t]
    BY FieldHost
  <2> QED BY <2>1, <2>2 DEF EnsureConfig
<1>8. HostOf(Effect("vm start or stop", s)) = EnsurePower(Power, h)
  BY FieldHost DEF Effect, EnsurePower
<1>9. /\ h.config = None => HostOf(Effect("vm stop", s)) = h
      /\ h.config # None => HostOf(Effect("vm stop", s)) = [h EXCEPT !.running = FALSE]
  BY <1>0, FieldHost DEF Effect
<1>10. \A c \in {"vm destroy", "rm files"} :
           HostOf(Effect(c, s)) = [h EXCEPT !.config = None, !.seed = None]
  BY FieldHost DEF Effect
<1>11. /\ \A c \in {"reservation-add", "reservation-update"} :
              HostOf(Effect(c, s)) = EnsureKeaReservation(target, h)
       /\ \A c \in {"reservation-del", "reservation-drop"} :
              HostOf(Effect(c, s)) = EnsureKeaAbsent(target, h)
  BY <1>0, FieldHost DEF Effect, EnsureKeaReservation, EnsureKeaAbsent
<1>12. /\ HostOf(Effect("pfctl load", s)) = [h EXCEPT !.pf = identity]
       /\ HostOf(Effect("pfctl flush", s)) = [h EXCEPT !.pf = None]
  <2>1. Effect("pfctl load", s) = [s EXCEPT !.rules = identity] /\ Effect("pfctl flush", s) = [s EXCEPT !.rules = None]
    BY DEF Effect
  <2>2. \A i : HostOf([s EXCEPT !.rules = i]) = [h EXCEPT !.pf = i]
    BY FieldHost
  <2> QED BY <2>1, <2>2
<1> QED BY <1>1, <1>2, <1>3, <1>4, <1>5, <1>6, <1>7, <1>8, <1>9, <1>10, <1>11, <1>12

(***************************************************************************)
(* Calls.                                                                  *)
(***************************************************************************)
PowerSteps == {"vmbhyve/ensure-power-state", "vmbhyve/ensure-stopped"}

DriverSteps ==
    { "service/ensure-ready", "image/ensure-verified", "zfs/ensure-storage", "zfs/ensure-absent",
      "cloudinit/ensure-seed", "cloudinit/ensure-absent", "vmbhyve/ensure-definition",
      "vmbhyve/ensure-config", "vmbhyve/ensure-absent", "kea/ensure-reservation", "kea/ensure-absent",
      "pf/ensure-rules", "pf/ensure-absent" } \cup PowerSteps \cup ObserverStep

(* The plans consist of these steps.                                       *)
LEMMA PlanSteps ==
    ASSUME NEW a \in Action
    PROVE  /\ Plan(a) \in Seq(DriverSteps)
           /\ \A i \in DOMAIN Plan(a) : Plan(a)[i] \in DriverSteps
<1>1. ResourceSteps \in Seq(DriverSteps) /\ <<"service/ensure-ready">> \in Seq(DriverSteps)
  BY DEF ResourceSteps, DriverSteps, PowerSteps, ObserverStep
<1>2. ApplySteps \in Seq(DriverSteps)
  BY <1>1 DEF ApplySteps
<1>3. DeleteSteps \in Seq(DriverSteps) /\ ReconcileSteps \in Seq(DriverSteps)
  BY DEF DeleteSteps, ReconcileSteps, DriverSteps, PowerSteps, ObserverStep
<1>4. Plan(a) \in Seq(DriverSteps)
  BY <1>2, <1>3 DEF Plan, Action
<1> QED BY <1>4

(* The steps that calls ensure.                                            *)
LEMMA CallSteps == DC!Step \subseteq DriverSteps
BY PlanSteps, SamePlanner DEF DC!Step

LEMMA UnderwayCall ==
    ASSUME Inv, at # "idle"
    PROVE  /\ call \in DC!Call /\ call.step \in DriverSteps
           /\ target \in Target /\ manifest \in Manifests /\ identity \in Identities
           /\ manifest.disk \in Nat \ {0} /\ manifest = target.manifest /\ identity = target.identity
           /\ before \in HostState /\ Here \in HostState /\ answer = "running"
           /\ Sound(sys) /\ sys \in Machine
<1>1. call \in DC!Call
  BY DEF Inv, Typed, Underway
<1>2. call.step \in DriverSteps
  BY <1>1, CallSteps DEF DC!Call
<1> QED BY <1>1, <1>2, CallTyped, HostTyped DEF Inv, Typed, Sound, Here, target, manifest, identity

(* A command is followed by another command of the call.                   *)
LEMMA ThenKeeps ==
    ASSUME Inv, at # "idle", NEW label, To(label), nth' \in 1..Services, fresh' \in BOOLEAN,
           Sound(sys'), label # "idle", label \in Commands(call.step),
           Here' \in Reach(label, target, before), Knows',
           Here' \in Torn(call.step, target, before)
    PROVE  Inv' /\ DC!Next
<1>1. answer = "running"
  BY UnderwayCall
<1>2. DC!Work
  BY <1>1, WorkMaps DEF To, target
<1>3. Typed'
  BY <1>1 DEF Inv, Typed, To
<1>4. Underway'
  BY DEF Inv, Underway, To, target
<1> QED BY <1>2, <1>3, <1>4 DEF Inv, DC!Next

(* A command is the last one of the call.                                  *)
LEMMA ReturnKeeps ==
    ASSUME Inv, at # "idle", NEW outcome \in DC!Outcomes, Return(outcome), Sound(sys')
    PROVE  Inv'
<1>1. n' \in Nat \ {0}
  BY DEF Inv, Typed, Return
<1>2. nth' \in 1..Services /\ fresh' \in BOOLEAN
  <2>1. 1 \in 1..Services
    BY DriversAssumption
  <2>2. nth' = 1 /\ fresh' = FALSE
    BY DEF Return
  <2> QED BY <2>1, <2>2
<1>3. Typed'
  <2>1. outcome # "running"
    BY DEF DC!Outcomes
  <2>2. at' = "idle" /\ answer' = outcome /\ UNCHANGED <<op, call, before>>
    BY DEF Return
  <2> QED BY <1>1, <1>2, <2>1, <2>2 DEF Inv, Typed
<1>4. Underway'
  BY DEF Return, Underway
<1> QED BY <1>3, <1>4 DEF Inv

(* A command answers for the call, as the abstract call does.              *)
LEMMA LastKeeps ==
    ASSUME Inv, at # "idle", NEW outcome \in DC!Outcomes, Return(outcome), Sound(sys'),
           LET step == call.step
           IN  \/ outcome = "blocked" /\ Blocked(step, target, before) /\ Here' = before
               \/ /\ outcome \in {"failed", "blocked"} /\ MarkerMissing(step, target, before)
                  /\ Here' = HalfStored(target, before)
               \/ outcome = "drift" /\ Drifted(step, target, before) /\ Here' = before
               \/ /\ outcome = IF Skips(step) THEN "skipped" ELSE "done"
                  /\ ~Blocked(step, target, before) /\ ~MarkerMissing(step, target, before)
                  /\ ~Drifted(step, target, before) /\ Here' = Ensured(step, target, before)
               \/ /\ ~Skips(step)
                  /\ \/ /\ outcome = "failed" \/ (outcome = "drift" /\ step \in ReadsBack)
                        /\ Here' \in Torn(step, target, before)
                     \/ outcome = "blocked" /\ Refusable(step, before) /\ Here' = before
    PROVE  Inv' /\ DC!Next
<1>1. Inv'
  BY ReturnKeeps
<1>2. answer = "running" /\ answer' = outcome /\ UNCHANGED <<call, before>>
  BY UnderwayCall DEF Return
<1>3. DC!Return
  BY <1>2, ReturnMaps DEF target
<1> QED BY <1>1, <1>3 DEF DC!Next

(* Whose command it is.                                                    *)
LEMMA StepOf ==
    ASSUME NEW step \in DriverSteps, NEW c \in Commands(step)
    PROVE  /\ c \in {"service status", "service start", "service check"} <=> step = "service/ensure-ready"
           /\ c \in {"read image", "download", "rename image", "mark image"} <=> step = "image/ensure-verified"
           /\ c \in {"zfs create", "verify storage", "dd", "zfs set", "read identity"} <=> step = "zfs/ensure-storage"
           /\ c \in {"zfs destroy", "zfs list"} <=> step = "zfs/ensure-absent"
           /\ c \in {"read seed", "rename seed", "mark seed"} <=> step = "cloudinit/ensure-seed"
           /\ c \in {"rm seed.iso", "rm marker"} <=> step = "cloudinit/ensure-absent"
           /\ c = "mkdir" <=> step = "vmbhyve/ensure-definition"
           /\ c = "write config" <=> step = "vmbhyve/ensure-config"
           /\ c \in {"vm list", "vm start or stop"} <=> step \in PowerSteps
           /\ c \in {"vm stop", "vm destroy", "rm files"} <=> step = "vmbhyve/ensure-absent"
           /\ c \in {"reservation-get", "reservation-add", "reservation-update",
                      "reservation-del", "reservation-check"} <=> step = "kea/ensure-reservation"
           /\ c \in {"reservation-drop", "reservation-gone"} <=> step = "kea/ensure-absent"
           /\ c \in {"pfctl load", "pfctl check"} <=> step = "pf/ensure-rules" /\ ManageAnchor
           /\ c \in {"pfctl flush", "pfctl gone"} <=> step = "pf/ensure-absent" /\ ManageAnchor
           /\ c = "skip" <=> Skips(step)
           /\ c = "observe" <=> step \in ObserverStep
BY HostAssumption DEF Commands, DriverSteps, PowerSteps, ObserverStep, Skips

(* What the command says of the step, and what is known of the call.       *)
LEMMA StepAt ==
    ASSUME Inv, at # "idle"
    PROVE  /\ at \in {"service status", "service start", "service check"} => call.step = "service/ensure-ready"
           /\ at \in {"read image", "download", "rename image", "mark image"} => call.step = "image/ensure-verified"
           /\ at \in {"zfs create", "verify storage", "dd", "zfs set", "read identity"} => call.step = "zfs/ensure-storage"
           /\ at \in {"zfs destroy", "zfs list"} => call.step = "zfs/ensure-absent"
           /\ at \in {"read seed", "rename seed", "mark seed"} => call.step = "cloudinit/ensure-seed"
           /\ at \in {"rm seed.iso", "rm marker"} => call.step = "cloudinit/ensure-absent"
           /\ at = "mkdir" => call.step = "vmbhyve/ensure-definition"
           /\ at = "write config" => call.step = "vmbhyve/ensure-config"
           /\ at \in {"vm list", "vm start or stop"} => call.step \in PowerSteps
           /\ at \in {"vm stop", "vm destroy", "rm files"} => call.step = "vmbhyve/ensure-absent"
           /\ at \in {"reservation-get", "reservation-add", "reservation-update",
                      "reservation-del", "reservation-check"} => call.step = "kea/ensure-reservation"
           /\ at \in {"reservation-drop", "reservation-gone"} => call.step = "kea/ensure-absent"
           /\ at \in {"pfctl load", "pfctl check"} => call.step = "pf/ensure-rules" /\ ManageAnchor
           /\ at \in {"pfctl flush", "pfctl gone"} => call.step = "pf/ensure-absent" /\ ManageAnchor
           /\ at = "skip" <=> Skips(call.step)
           /\ at = "observe" <=> call.step \in ObserverStep
<1>1. call.step \in DriverSteps /\ at \in Commands(call.step)
  BY UnderwayCall DEF Inv, Underway
<1> QED BY <1>1, StepOf

(* What a command finds was left by the commands before it.                *)
LEMMA ReachTorn ==
    ASSUME Inv, at # "idle"
    PROVE  /\ Here \in Torn(call.step, target, before)
           /\ at = "dd" => ~sys.stamp
           /\ at = "zfs set" => sys.zvol # 0 /\ sys.content = "image"
<1> DEFINE step == call.step
<1>1. /\ target \in Target /\ identity = target.identity /\ manifest = target.manifest
      /\ manifest.disk \in Nat \ {0} /\ before \in HostState /\ step \in DriverSteps
  BY UnderwayCall
<1>2. at \in Commands(step) /\ Here \in Reach(at, target, before) /\ Knows
  BY DEF Inv, Underway
<1> HIDE DEF step
<1>3. before \in Torn(step, target, before)
  BY DEF Torn
<1>4. CASE at = "mark image"
  <2>1. step = "image/ensure-verified"
    BY <1>1, <1>2, <1>4, StepOf
  <2> QED BY <1>2, <1>3, <1>4, <2>1 DEF Reach, Torn, Blocked, MarkerMissing, Ensured, step
<1>5. CASE at \in {"verify storage", "dd", "zfs set"}
  <2>1. step = "zfs/ensure-storage"
    BY <1>1, <1>2, <1>5, StepOf
  <2>2. Here = IF before.disk = 0 THEN HalfStored(target, before) ELSE before
    BY <1>2, <1>5 DEF Reach
  <2>3. before.disk = 0 => HalfStored(target, before) \in TornStorage(target, before)
    BY <1>1 DEF HalfStored, TornStorage, HostState
  <2>4. Here \in Torn(step, target, before)
    BY <1>3, <2>1, <2>2, <2>3 DEF Torn
  <2>5. at # "verify storage" => before.disk = 0
    BY <1>2, <1>5 DEF Knows
  <2>6. before.disk = 0 => Here.imaged = FALSE /\ Here.disk = manifest.disk
    BY <1>1, <2>2 DEF HalfStored, HostState
  <2>7. Here.imaged = sys.stamp /\ Here.disk = sys.zvol
    BY DEF Here, HostOf
  <2>8. at = "zfs set" => sys.content = "image"
    BY <1>2 DEF Knows
  <2> QED BY <1>1, <1>5, <2>4, <2>5, <2>6, <2>7, <2>8 DEF step
<1>6. CASE at = "read identity"
  <2>1. step = "zfs/ensure-storage"
    BY <1>1, <1>2, <1>6, StepOf
  <2>2. Here = EnsureStorage(target, before) /\ before.image
    BY <1>2, <1>6 DEF Reach, Knows
  <2>3. ~MarkerMissing(step, target, before)
    BY <2>2 DEF MarkerMissing
  <2>4. Blocked(step, target, before) => before.disk # 0
    BY <2>1 DEF Blocked, ForeignStorage
  <2>5. before.disk # 0 => Here = before
    BY <2>2 DEF EnsureStorage
  <2>6. ~Blocked(step, target, before) => Here \in Torn(step, target, before)
    BY <2>1, <2>2, <2>3 DEF Torn, Ensured
  <2> QED BY <1>3, <1>6, <2>4, <2>5, <2>6 DEF step
<1>7. CASE at = "zfs list"
  <2>1. step = "zfs/ensure-absent"
    <3>1. at \in {"zfs destroy", "zfs list"} <=> step = "zfs/ensure-absent"
      BY <1>1, <1>2, StepOf
    <3> QED BY <1>7, <3>1
  <2> QED BY <1>2, <1>3, <1>7, <2>1 DEF Reach, Torn, Blocked, MarkerMissing, Ensured, step
<1>8. CASE at \in {"mark seed", "rm marker"}
  <2>1. step = IF at = "mark seed" THEN "cloudinit/ensure-seed" ELSE "cloudinit/ensure-absent"
    BY <1>1, <1>2, <1>8, StepOf DEF Commands
  <2> QED BY <1>2, <1>3, <1>8, <2>1 DEF Reach, Torn, Blocked, MarkerMissing, Ensured, step
<1>9. CASE at \in {"vm destroy", "rm files"}
  <2>1. step = "vmbhyve/ensure-absent"
    BY <1>1, <1>2, <1>9, StepOf
  <2>2. before.config # None
    BY <1>2, <1>9 DEF Knows
  <2> QED BY <1>2, <1>3, <1>9, <2>1, <2>2 DEF Reach, Torn, TornVM, VMExists, Blocked, MarkerMissing, Ensured, step
<1>10. CASE at \in {"reservation-add", "reservation-del", "reservation-check"}
  <2>1. step = "kea/ensure-reservation"
    BY <1>1, <1>2, <1>10, StepOf
  <2> QED BY <1>2, <1>3, <1>10, <2>1 DEF Reach, Torn, Blocked, MarkerMissing, Ensured, step
<1>11. CASE at = "reservation-gone"
  <2>1. step = "kea/ensure-absent"
    <3>1. at \in {"reservation-drop", "reservation-gone"} <=> step = "kea/ensure-absent"
      BY <1>1, <1>2, StepOf
    <3> QED BY <1>11, <3>1
  <2> QED BY <1>2, <1>3, <1>11, <2>1 DEF Reach, Torn, Blocked, MarkerMissing, Ensured, step
<1>12. CASE at \in {"pfctl check", "pfctl gone"}
  <2>1. step = IF at = "pfctl check" THEN "pf/ensure-rules" ELSE "pf/ensure-absent"
    BY <1>1, <1>2, <1>12, StepOf
  <2> QED BY <1>2, <1>3, <1>12, <2>1 DEF Reach, Torn, Blocked, MarkerMissing, Ensured, step
<1>13. CASE at \notin {"mark image", "verify storage", "dd", "zfs set", "read identity", "zfs list", "mark seed",
                       "rm marker", "vm destroy", "rm files", "reservation-add", "reservation-del",
                       "reservation-check", "reservation-gone", "pfctl check", "pfctl gone"}
  <2>1. Here = before
    BY <1>2, <1>13 DEF Reach
  <2> QED BY <1>3, <1>13, <2>1 DEF step
<1> QED BY <1>4, <1>5, <1>6, <1>7, <1>8, <1>9, <1>10, <1>11, <1>12, <1>13

(* The host after the command the call is at.                              *)
LEMMA EffectAt ==
    ASSUME Inv, at # "idle"
    PROVE  LET g == HostOf(Effect(at, sys))
           IN  /\ at \notin ChangingHost => g = Here
               /\ at = "rename image" => g = [Here EXCEPT !.image = sys.marker]
               /\ at = "mark image" => g = [Here EXCEPT !.image = (sys.raw = "image")]
               /\ at = "zfs create" /\ Here.disk # 0 => g = Here
               /\ at = "zfs create" /\ Here.disk = 0 => g = HalfStored(target, Here)
               /\ at = "zfs set" => g = [Here EXCEPT !.imaged = TRUE]
               /\ at = "zfs destroy" => g = EnsureStorageAbsent(Here)
               /\ at = "rename seed" => g = EnsureSeed(target, Here)
               /\ at = "rm seed.iso" => g = EnsureSeedAbsent(Here)
               /\ at = "write config" => g = EnsureConfig(target, Here)
               /\ at = "vm start or stop" => g = EnsurePower(Power, Here)
               /\ at = "vm stop" /\ Here.config = None => g = Here
               /\ at = "vm stop" /\ Here.config # None => g = [Here EXCEPT !.running = FALSE]
               /\ at \in {"vm destroy", "rm files"} => g = [Here EXCEPT !.config = None, !.seed = None]
               /\ at \in {"reservation-add", "reservation-update"} => g = EnsureKeaReservation(target, Here)
               /\ at \in {"reservation-del", "reservation-drop"} => g = EnsureKeaAbsent(target, Here)
               /\ at = "pfctl load" => g = [Here EXCEPT !.pf = identity]
               /\ at = "pfctl flush" => g = [Here EXCEPT !.pf = None]
<1>1. sys \in Machine /\ call \in DC!Call
  BY UnderwayCall
<1> DEFINE g == HostOf(Effect(at, sys))
<1>2. at \notin ChangingHost => g = Here
  BY <1>1, EffectHost DEF Here
<1>3. at = "rename image" => g = [Here EXCEPT !.image = sys.marker]
  BY <1>1, EffectHost DEF Here
<1>4. at = "mark image" => g = [Here EXCEPT !.image = (sys.raw = "image")]
  BY <1>1, EffectHost DEF Here
<1>5. /\ at = "zfs create" /\ Here.disk # 0 => g = Here
      /\ at = "zfs create" /\ Here.disk = 0 => g = HalfStored(target, Here)
  BY <1>1, EffectHost DEF Here
<1>6. at = "zfs set" => g = [Here EXCEPT !.imaged = TRUE]
  BY <1>1, EffectHost DEF Here
<1>7. at = "zfs destroy" => g = EnsureStorageAbsent(Here)
  BY <1>1, EffectHost DEF Here
<1>8. at = "rename seed" => g = EnsureSeed(target, Here)
  BY <1>1, EffectHost DEF Here
<1>9. at = "rm seed.iso" => g = EnsureSeedAbsent(Here)
  BY <1>1, EffectHost DEF Here
<1>10. at = "write config" => g = EnsureConfig(target, Here)
  BY <1>1, EffectHost DEF Here
<1>11. at = "vm start or stop" => g = EnsurePower(Power, Here)
  BY <1>1, EffectHost DEF Here
<1>12. /\ at = "vm stop" /\ Here.config = None => g = Here
       /\ at = "vm stop" /\ Here.config # None => g = [Here EXCEPT !.running = FALSE]
  BY <1>1, EffectHost DEF Here
<1>13. at \in {"vm destroy", "rm files"} => g = [Here EXCEPT !.config = None, !.seed = None]
  BY <1>1, EffectHost DEF Here
<1>14. /\ at \in {"reservation-add", "reservation-update"} => g = EnsureKeaReservation(target, Here)
       /\ at \in {"reservation-del", "reservation-drop"} => g = EnsureKeaAbsent(target, Here)
  BY <1>1, EffectHost DEF Here
<1>15. /\ at = "pfctl load" => g = [Here EXCEPT !.pf = identity]
       /\ at = "pfctl flush" => g = [Here EXCEPT !.pf = None]
  BY <1>1, EffectHost DEF Here
<1> HIDE DEF g
<1>16. QED
  BY <1>2, <1>3, <1>4, <1>5, <1>6, <1>7, <1>8, <1>9, <1>10, <1>11, <1>12, <1>13, <1>14, <1>15 DEF g

(* A command that is done leaves the host among the torn ones.             *)
LEMMA EffectTorn ==
    ASSUME Inv, at # "idle"
    PROVE  HostOf(Effect(at, sys)) \in Torn(call.step, target, before)
<1> DEFINE step == call.step
           g == HostOf(Effect(at, sys))
<1>1. /\ target \in Target /\ identity = target.identity /\ manifest = target.manifest
      /\ manifest.disk \in Nat \ {0} /\ before \in HostState /\ step \in DriverSteps
      /\ Here \in HostState /\ sys \in Machine /\ call \in DC!Call
  BY UnderwayCall
<1>2. at \in Commands(step) /\ Here \in Reach(at, target, before) /\ Knows
  BY DEF Inv, Underway
<1>3. Here \in Torn(step, target, before) /\ before \in Torn(step, target, before)
  BY ReachTorn DEF Torn
<1> SUFFICES g \in Torn(step, target, before)
  OBVIOUS
<1> HIDE DEF step, g
<1>5. CASE at \notin ChangingHost
  BY <1>1, <1>3, <1>5, EffectAt DEF g
<1>6. CASE at \in {"rename image", "mark image"}
  <2>1. step = "image/ensure-verified"
    BY <1>6, StepAt DEF step
  <2>2. g = [Here EXCEPT !.image = TRUE] \/ g = [Here EXCEPT !.image = FALSE]
    <3>1. CASE at = "rename image"
      BY <1>1, <3>1, EffectAt DEF g, Machine
    <3>2. CASE at = "mark image"
      BY <1>1, <3>2, EffectAt DEF g
    <3> QED BY <1>6, <3>1, <3>2
  <2>3. at = "mark image" => g = [Here EXCEPT !.image = TRUE]
    BY <1>1, <1>2, EffectAt DEF g, Knows
  <2>4. at = "rename image" => Here = before /\ ~before.image
    BY <1>2 DEF Reach, Knows
  <2>5. at = "mark image" => Here \in {before, EnsureImage(before)}
    BY <1>2 DEF Reach
  <2>6. g \in {before, EnsureImage(before)}
    BY <1>1, <1>6, <2>2, <2>3, <2>4, <2>5 DEF EnsureImage, HostState
  <2>7. EnsureImage(before) \in Torn(step, target, before)
    BY <2>1 DEF Torn, Blocked, MarkerMissing, Ensured
  <2> QED BY <1>3, <2>6, <2>7
<1>7. CASE at = "zfs create"
  <2>1. step = "zfs/ensure-storage"
    BY <1>7, StepAt DEF step
  <2>2. Here = before
    BY <1>2, <1>7 DEF Reach
  <2>3. IF before.disk = 0 THEN g = HalfStored(target, before) ELSE g = before
    BY <1>1, <1>7, <2>2, EffectAt DEF g
  <2>4. before.disk = 0 => HalfStored(target, before) \in TornStorage(target, before)
    BY <1>1 DEF HalfStored, TornStorage, HostState
  <2> QED BY <1>3, <2>1, <2>3, <2>4 DEF Torn
<1>8. CASE at = "zfs set"
  <2>1. step = "zfs/ensure-storage"
    BY <1>8, StepAt DEF step
  <2>2. before.disk = 0 /\ before.image /\ Here = HalfStored(target, before)
    BY <1>2, <1>8 DEF Reach, Knows
  <2>3. g = [Here EXCEPT !.imaged = TRUE]
    BY <1>1, <1>8, EffectAt DEF g
  <2>4. g = EnsureStorage(target, before)
    BY <1>1, <2>2, <2>3 DEF HalfStored, EnsureStorage, HostState
  <2>5. ~Blocked(step, target, before) /\ ~MarkerMissing(step, target, before)
    BY <2>1, <2>2 DEF Blocked, ForeignStorage, MarkerMissing
  <2> QED BY <2>1, <2>4, <2>5 DEF Torn, Ensured
<1>9. CASE at = "zfs destroy"
  <2>1. step = "zfs/ensure-absent"
    BY <1>9, StepAt DEF step
  <2>2. Here = before
    BY <1>2, <1>9 DEF Reach
  <2>3. g = EnsureStorageAbsent(before)
    BY <1>1, <1>9, <2>2, EffectAt DEF g
  <2> QED BY <2>1, <2>3 DEF Torn, Ensured, Blocked, MarkerMissing
<1>10. CASE at = "rename seed"
  <2>1. step = "cloudinit/ensure-seed"
    BY <1>10, StepAt DEF step
  <2>2. Here = before
    BY <1>2, <1>10 DEF Reach
  <2>3. g = EnsureSeed(target, before)
    BY <1>1, <1>10, <2>2, EffectAt DEF g
  <2> QED BY <2>1, <2>3 DEF Torn, Ensured, Blocked, MarkerMissing
<1>11. CASE at = "rm seed.iso"
  <2>1. step = "cloudinit/ensure-absent"
    BY <1>11, StepAt DEF step
  <2>2. Here = before
    BY <1>2, <1>11 DEF Reach
  <2>3. g = EnsureSeedAbsent(before)
    BY <1>1, <1>11, <2>2, EffectAt DEF g
  <2> QED BY <2>1, <2>3 DEF Torn, Ensured, Blocked, MarkerMissing
<1>12. CASE at = "write config"
  <2>1. step = "vmbhyve/ensure-config"
    BY <1>12, StepAt DEF step
  <2>2. Here = before
    BY <1>2, <1>12 DEF Reach
  <2>3. g = EnsureConfig(target, before)
    BY <1>1, <1>12, <2>2, EffectAt DEF g
  <2> QED BY <2>1, <2>3 DEF Torn, Ensured, Blocked, MarkerMissing
<1>13. CASE at = "vm start or stop"
  <2>1. step \in PowerSteps
    BY <1>13, StepAt DEF step
  <2>2. Here = before /\ before.config # None
    BY <1>2, <1>13 DEF Reach, Knows
  <2>3. g = EnsurePower(Power, before)
    BY <1>1, <1>13, <2>2, EffectAt DEF g
  <2>4. EnsurePower(Power, before) = Ensured(step, target, before)
    BY <1>1, <2>1 DEF Ensured, Power, PowerSteps, step
  <2>5. ~Blocked(step, target, before) /\ ~MarkerMissing(step, target, before)
    BY <2>1, <2>2 DEF Blocked, VMExists, MarkerMissing, PowerSteps
  <2> QED BY <2>3, <2>4, <2>5 DEF Torn
<1>14. CASE at \in {"vm stop", "vm destroy", "rm files"}
  <2>1. step = "vmbhyve/ensure-absent"
    BY <1>14, StepAt DEF step
  <2>2. ~Blocked(step, target, before) /\ ~MarkerMissing(step, target, before)
    BY <2>1 DEF Blocked, MarkerMissing
  <2>3. CASE at = "vm stop"
    <3>1. Here = before
      BY <1>2, <2>3 DEF Reach
    <3>2. g = IF before.config = None THEN before ELSE [before EXCEPT !.running = FALSE]
      BY <1>1, <2>3, <3>1, EffectAt DEF g
    <3> QED BY <1>3, <2>1, <3>2 DEF Torn, TornVM, VMExists
  <2>4. CASE at \in {"vm destroy", "rm files"}
    <3>1. before.config # None
      BY <1>2, <2>4 DEF Knows
    <3>2. Here \in TornVM(before) \cup {EnsureVMAbsent(before)}
      BY <1>2, <2>4, <3>1 DEF Reach, TornVM, VMExists
    <3>3. g = [Here EXCEPT !.config = None, !.seed = None]
      BY <1>1, <2>4, EffectAt DEF g
    <3>4. EnsureVMAbsent(before) = [before EXCEPT !.config = None, !.running = FALSE, !.seed = None]
      BY <3>1 DEF EnsureVMAbsent, VMExists
    <3>5. g = EnsureVMAbsent(before)
      BY <1>1, <3>1, <3>2, <3>3, <3>4 DEF TornVM, VMExists, HostState
    <3> QED BY <2>1, <2>2, <3>5 DEF Torn, Ensured
  <2> QED BY <1>14, <2>3, <2>4
<1>15. CASE at \in {"reservation-add", "reservation-update", "reservation-del"}
  <2>1. step = "kea/ensure-reservation"
    BY <1>15, StepAt DEF step
  <2>2. Here \in {before, EnsureKeaReservation(target, before)} \cup TornKea(target, before)
    BY <1>2, <1>15 DEF Reach
  <2>3. EnsureKeaReservation(target, before) \in Torn(step, target, before)
        /\ TornKea(target, before) \subseteq Torn(step, target, before)
    BY <2>1 DEF Torn, Ensured, Blocked, MarkerMissing
  <2>4. CASE at \in {"reservation-add", "reservation-update"}
    <3>1. g = EnsureKeaReservation(target, Here)
      BY <1>1, <2>4, EffectAt DEF g
    <3>2. g = EnsureKeaReservation(target, before)
      BY <1>1, <2>2, <3>1 DEF EnsureKeaReservation, EnsureKeaAbsent, TornKea, HostState
    <3> QED BY <2>3, <3>2
  <2>5. CASE at = "reservation-del"
    <3>1. g = EnsureKeaAbsent(target, Here)
      BY <1>1, <2>5, EffectAt DEF g
    <3>2. g = EnsureKeaAbsent(target, before)
      BY <1>1, <2>2, <3>1 DEF EnsureKeaReservation, EnsureKeaAbsent, TornKea, HostState
    <3>3. identity \notin before.kea => EnsureKeaAbsent(target, before) = before
      BY <1>1 DEF EnsureKeaAbsent, HostState
    <3>4. identity \in before.kea => EnsureKeaAbsent(target, before) \in TornKea(target, before)
      BY <1>1 DEF TornKea
    <3> QED BY <1>3, <2>3, <3>2, <3>3, <3>4
  <2> QED BY <1>15, <2>4, <2>5
<1>16. CASE at = "reservation-drop"
  <2>1. step = "kea/ensure-absent"
    BY <1>16, StepAt DEF step
  <2>2. Here = before
    BY <1>2, <1>16 DEF Reach
  <2>3. g = EnsureKeaAbsent(target, before)
    BY <1>1, <1>16, <2>2, EffectAt DEF g
  <2> QED BY <2>1, <2>3 DEF Torn, Ensured, Blocked, MarkerMissing
<1>17. CASE at = "pfctl load"
  <2>1. step = "pf/ensure-rules" /\ ManageAnchor
    BY <1>17, StepAt DEF step
  <2>2. Here = before
    BY <1>2, <1>17 DEF Reach
  <2>3. g = EnsurePFRules(target, before)
    BY <1>1, <1>17, <2>1, <2>2, EffectAt DEF g, EnsurePFRules
  <2> QED BY <2>1, <2>3 DEF Torn, Ensured, Blocked, MarkerMissing
<1>18. CASE at = "pfctl flush"
  <2>1. step = "pf/ensure-absent" /\ ManageAnchor
    BY <1>18, StepAt DEF step
  <2>2. Here = before
    BY <1>2, <1>18 DEF Reach
  <2>3. g = EnsurePFAbsent(before)
    BY <1>1, <1>18, <2>1, <2>2, EffectAt DEF g, EnsurePFAbsent
  <2> QED BY <2>1, <2>3 DEF Torn, Ensured, Blocked, MarkerMissing
<1> QED BY <1>5, <1>6, <1>7, <1>8, <1>9, <1>10, <1>11, <1>12, <1>13, <1>14, <1>15, <1>16, <1>17, <1>18 DEF ChangingHost

(* So does one that is done in part.                                       *)
LEMMA PartlyTorn ==
    ASSUME Inv, at # "idle", NEW r \in Partly(at, sys)
    PROVE  HostOf(r) \in Torn(call.step, target, before)
<1>1. before \in HostState /\ Here \in HostState /\ sys \in Machine /\ Sound(sys)
  BY UnderwayCall
<1>2. Here \in Reach(at, target, before) /\ Knows
  BY DEF Inv, Underway
<1>3. Here \in Torn(call.step, target, before)
  BY ReachTorn
<1>4. CASE at = "zfs create"
  <2>1. r = [sys EXCEPT !.dataset = TRUE]
    BY <1>4 DEF Partly
  <2>2. HostOf(r) = Here
    BY <1>1, <2>1, FieldHost DEF Here
  <2> QED BY <1>3, <2>2
<1>5. CASE at = "dd"
  <2>1. r = [sys EXCEPT !.content = "part"]
    BY <1>5 DEF Partly
  <2>2. HostOf(r) = Here
    BY <1>1, <2>1, FieldHost DEF Here
  <2> QED BY <1>3, <2>2
<1>6. CASE at = "zfs destroy"
  <2>1. r = [NoVolume(sys) EXCEPT !.dataset = sys.dataset]
    BY <1>6 DEF Partly
  <2>2. HostOf(r) = EnsureStorageAbsent(Here)
    BY <1>1, <2>1, FieldHost DEF Here
  <2>3. HostOf(Effect(at, sys)) = EnsureStorageAbsent(Here)
    BY <1>6, EffectAt
  <2> QED BY <2>2, <2>3, EffectTorn
<1>7. CASE at \in {"vm destroy", "rm files"}
  <2>1. r \in {[sys EXCEPT !.config = None], [sys EXCEPT !.iso = None], [sys EXCEPT !.seal = None]}
    BY <1>7 DEF Partly
  <2>2. HostOf(r) \in {Here, [Here EXCEPT !.config = None], [Here EXCEPT !.seed = None]}
    <3>1. HostOf([sys EXCEPT !.config = None]) = [Here EXCEPT !.config = None]
      BY <1>1, FieldHost DEF Here
    <3>2. HostOf([sys EXCEPT !.iso = None]) = [Here EXCEPT !.seed = None]
      BY <1>1, FieldHost DEF Here
    <3>3. HostOf([sys EXCEPT !.seal = None]) = Here
      BY <1>1, FieldHost DEF Here
    <3> QED BY <2>1, <3>1, <3>2, <3>3
  <2>3. call.step = "vmbhyve/ensure-absent"
    BY <1>7, StepAt
  <2>4. before.config # None
    BY <1>2, <1>7 DEF Knows
  <2>5. Here \in TornVM(before) \cup {EnsureVMAbsent(before)}
    BY <1>2, <1>7, <2>4 DEF Reach, TornVM, VMExists
  <2>6. EnsureVMAbsent(before) = [before EXCEPT !.config = None, !.running = FALSE, !.seed = None]
    BY <2>4 DEF EnsureVMAbsent, VMExists
  <2>7. HostOf(r) \in TornVM(before) \cup {EnsureVMAbsent(before)}
    <3> DEFINE left == {[before EXCEPT !.running = FALSE], [before EXCEPT !.running = FALSE, !.config = None],
                        [before EXCEPT !.running = FALSE, !.seed = None],
                        [before EXCEPT !.config = None, !.running = FALSE, !.seed = None]}
    <3>1. left = TornVM(before) \cup {EnsureVMAbsent(before)}
      BY <2>4, <2>6 DEF TornVM, VMExists
    <3>2. Here \in left
      BY <2>5, <3>1
    <3>3. [Here EXCEPT !.config = None] \in left
      BY <1>1, <3>2 DEF HostState
    <3>4. [Here EXCEPT !.seed = None] \in left
      BY <1>1, <3>2 DEF HostState
    <3> HIDE DEF left
    <3> QED BY <2>2, <3>1, <3>2, <3>3, <3>4
  <2> QED BY <2>3, <2>7 DEF Torn, Ensured, Blocked, MarkerMissing
<1>8. CASE at \notin {"zfs create", "dd", "zfs destroy", "vm destroy", "rm files"}
  BY <1>8 DEF Partly
<1> QED BY <1>4, <1>5, <1>6, <1>7, <1>8

(* However a command ends, it leaves a machine, and a torn host.           *)
Ends == {sys, Effect(at, sys)} \cup Partly(at, sys)

LEMMA CommandEnds ==
    ASSUME Inv, at # "idle", NEW r \in Ends
    PROVE  Sound(r) /\ HostOf(r) \in Torn(call.step, target, before)
<1>1. Sound(sys) /\ call \in DC!Call /\ nth \in 1..Services
  BY UnderwayCall DEF Inv, Typed
<1>2. Sound(Effect(at, sys)) /\ \A q \in Partly(at, sys) : Sound(q)
  BY <1>1, ReachTorn, EffectSound
<1> QED BY <1>1, <1>2, ReachTorn, EffectTorn, PartlyTorn DEF Ends, Here

(* Runs, as its users see it.                                              *)
LEMMA RunsEnds ==
    ASSUME Inv, NEW c, c # "idle", Runs(c)
    PROVE  /\ at = c /\ at # "idle" /\ sys' \in Ends
           /\ Sound(sys') /\ Here' \in Torn(call.step, target, before)
           /\ sys' = Effect(c, sys) \/ (c \in Checked /\ sys' = sys)
<1>1. at = c /\ sys' \in Ends /\ (sys' = Effect(c, sys) \/ (c \in Checked /\ sys' = sys))
  BY DEF Runs, Ends
<1> QED BY <1>1, CommandEnds DEF Here

(***************************************************************************)
(* The drivers.                                                            *)
(***************************************************************************)
LEMMA Reads ==
    ASSUME NEW c, c \notin Changing
    PROVE  /\ Runs(c) => sys' = sys
           /\ Effect(c, sys) = sys
<1>1. Effect(c, sys) = sys
  BY DEF Effect, Changing
<1> QED BY <1>1 DEF Runs

LEMMA CommandsOf ==
    /\ Commands("service/ensure-ready") = {"service status", "service start", "service check"}
    /\ Commands("image/ensure-verified") = {"read image", "download", "rename image", "mark image"}
    /\ Commands("zfs/ensure-storage") = {"zfs create", "verify storage", "dd", "zfs set", "read identity"}
    /\ Commands("zfs/ensure-absent") = {"zfs destroy", "zfs list"}
    /\ Commands("cloudinit/ensure-seed") = {"read seed", "rename seed", "mark seed"}
    /\ Commands("cloudinit/ensure-absent") = {"rm seed.iso", "rm marker"}
    /\ \A step \in PowerSteps : Commands(step) = {"vm list", "vm start or stop"}
    /\ Commands("vmbhyve/ensure-absent") = {"vm stop", "vm destroy", "rm files"}
    /\ Commands("kea/ensure-reservation") =
          {"reservation-get", "reservation-add", "reservation-update", "reservation-del", "reservation-check"}
    /\ Commands("kea/ensure-absent") = {"reservation-drop", "reservation-gone"}
    /\ ManageAnchor => Commands("pf/ensure-rules") = {"pfctl load", "pfctl check"}
    /\ ManageAnchor => Commands("pf/ensure-absent") = {"pfctl flush", "pfctl gone"}
BY HostAssumption DEF Commands, PowerSteps, ObserverStep

LEMMA HereFields ==
    ASSUME sys \in Machine
    PROVE  /\ Here.image = (sys.raw = "image" /\ sys.marker) /\ Here.disk = sys.zvol
           /\ Here.imaged = sys.stamp /\ Here.running = sys.running /\ Here.seed = sys.iso
           /\ Here.config = sys.config /\ Here.pf = sys.rules
           /\ \A i \in Identities : i \in Here.kea <=> sys.res[i] # "none"
BY DEF Here, HostOf, Machine

LEMMA ServicesKeep ==
    ASSUME Inv, at # "idle", EnsureServices
    PROVE  Inv' /\ DC!Next
<1>1. at \in {"service status", "service start", "service check"} /\ sys' \in {sys, Effect(at, sys)}
  BY DEF EnsureServices, Then, Last, Runs
<1>2. call.step = "service/ensure-ready" /\ Here = before
  BY <1>1, StepAt DEF Inv, Underway, Reach
<1>3. Sound(sys')
  BY <1>1, CommandEnds DEF Ends
<1>4. Here' = before
  BY <1>1, <1>2, EffectAt DEF Here, ChangingHost
<1>5. Here' \in Torn(call.step, target, before)
  BY <1>4 DEF Torn
<1>6. nth \in 1..Services /\ fresh \in BOOLEAN /\ (MoreServices => nth + 1 \in 1..Services)
  BY DriversAssumption DEF Inv, Typed, MoreServices
<1>7. ASSUME NEW label \in {"service status", "service start", "service check"}, To(label),
             nth' = nth \/ (MoreServices /\ nth' = nth + 1), fresh' = fresh
      PROVE  Inv' /\ DC!Next
  <2>1. label \in Commands(call.step) /\ Here' \in Reach(label, target, before) /\ Knows'
    <3>1. label \in Commands(call.step)
      BY <1>2, <1>7, CommandsOf
    <3>2. Here' \in Reach(label, target, before)
      BY <1>4, <1>7 DEF Reach
    <3>3. Knows'
      BY <1>7 DEF Knows, To
    <3> QED BY <3>1, <3>2, <3>3
  <2>2. nth' \in 1..Services /\ fresh' \in BOOLEAN
    BY <1>6, <1>7
  <2> QED BY <1>3, <1>5, <1>7, <2>1, <2>2, ThenKeeps
<1>8. ASSUME NEW outcome \in {"drift", "done"}, Return(outcome)
      PROVE  Inv' /\ DC!Next
  <2>1. /\ outcome \in DC!Outcomes /\ ~Skips(call.step) /\ call.step \in ReadsBack
        /\ ~Blocked(call.step, target, before) /\ ~MarkerMissing(call.step, target, before)
        /\ ~Drifted(call.step, target, before) /\ Ensured(call.step, target, before) = before
    BY <1>2 DEF DC!Outcomes, Skips, ReadsBack, Blocked, MarkerMissing, Drifted, Ensured
  <2> QED BY <1>3, <1>4, <1>5, <1>8, <2>1, LastKeeps
<1>9. QED
  <2>1. \/ \E label \in {"service status", "service start", "service check"} :
               To(label) /\ (nth' = nth \/ (MoreServices /\ nth' = nth + 1)) /\ fresh' = fresh
        \/ \E outcome \in {"drift", "done"} : Return(outcome)
    BY DEF EnsureServices, Then, Last, locals
  <2> QED BY <1>7, <1>8, <2>1

(* The driver goes on to the next command.                                 *)
LEMMA Moves ==
    ASSUME Inv, NEW c, c # "idle", NEW label, label # "idle", Then(c, label),
           label \in Commands(call.step), Here' \in Reach(label, target, before), Knows'
    PROVE  Inv' /\ DC!Next
<1>1. Runs(c) /\ To(label) /\ nth' = nth /\ fresh' = fresh
  BY DEF Then, locals
<1>2. at # "idle" /\ Sound(sys') /\ Here' \in Torn(call.step, target, before)
  BY <1>1, RunsEnds
<1>3. nth' \in 1..Services /\ fresh' \in BOOLEAN
  BY <1>1 DEF Inv, Typed
<1> QED BY <1>1, <1>2, <1>3, ThenKeeps

(* The driver answers.                                                     *)
LEMMA Finishes ==
    ASSUME Inv, NEW c, c # "idle", NEW outcome, Last(c, outcome),
           LET step == call.step
           IN  \/ outcome = "blocked" /\ Blocked(step, target, before) /\ Here' = before
               \/ /\ outcome \in {"failed", "blocked"} /\ MarkerMissing(step, target, before)
                  /\ Here' = HalfStored(target, before)
               \/ outcome = "drift" /\ Drifted(step, target, before) /\ Here' = before
               \/ /\ outcome = IF Skips(step) THEN "skipped" ELSE "done"
                  /\ ~Blocked(step, target, before) /\ ~MarkerMissing(step, target, before)
                  /\ ~Drifted(step, target, before) /\ Here' = Ensured(step, target, before)
               \/ ~Skips(step) /\ outcome = "drift" /\ step \in ReadsBack
    PROVE  Inv' /\ DC!Next
<1>1. Runs(c) /\ Return(outcome)
  BY DEF Last
<1>2. at # "idle" /\ Sound(sys') /\ Here' \in Torn(call.step, target, before)
  BY <1>1, RunsEnds
<1>3. outcome \in DC!Outcomes
  BY DEF DC!Outcomes
<1> QED BY <1>1, <1>2, <1>3, LastKeeps

(* Nothing is known at most commands.                                      *)
LEMMA KnowsNothing ==
    ASSUME NEW label, To(label),
           label \notin {"download", "rename image", "mark image", "verify storage", "dd", "zfs set", "read identity",
                         "vm start or stop", "vm destroy", "rm files", "reservation-update"}
    PROVE  Knows'
BY DEF Knows, To

LEMMA ImageKeeps ==
    ASSUME Inv, at # "idle", DriveImage
    PROVE  Inv' /\ DC!Next
<1>1. at \in {"read image", "download", "rename image", "mark image"}
  BY DEF DriveImage, Then, Last, Runs
<1>2. /\ call.step = "image/ensure-verified" /\ Knows
      /\ IF at = "mark image" THEN Here \in {before, EnsureImage(before)} ELSE Here = before
  BY <1>1, StepAt DEF Inv, Underway, Reach
<1>3. /\ before \in HostState /\ Here \in HostState /\ sys \in Machine
      /\ Here.image = (sys.raw = "image" /\ sys.marker)
      /\ HostOf(sys) = Here
  BY UnderwayCall, HereFields DEF Here
<1>4. /\ ~Skips(call.step) /\ ~Blocked(call.step, target, before) /\ ~MarkerMissing(call.step, target, before)
      /\ ~Drifted(call.step, target, before) /\ Ensured(call.step, target, before) = EnsureImage(before)
  BY <1>2 DEF Skips, Blocked, MarkerMissing, Drifted, Ensured
<1>5. CASE HostOf(sys).image /\ Last("read image", "done")
  <2>1. at = "read image" /\ sys' = sys
    BY <1>5, Reads DEF Last, Runs, Changing
  <2>2. Here' = EnsureImage(before)
    BY <1>2, <1>3, <1>5, <2>1 DEF Here, EnsureImage, HostState
  <2> QED BY <1>4, <1>5, <2>2, Finishes
<1>6. CASE ~HostOf(sys).image /\ Then("read image", "download")
  <2>1. at = "read image" /\ sys' = sys /\ To("download")
    BY <1>6, Reads DEF Then, Runs, Changing
  <2>2. Here' = before /\ ~before.image
    BY <1>2, <1>3, <1>6, <2>1 DEF Here
  <2>3. Knows'
    BY <2>1, <2>2 DEF Knows, To
  <2>4. "download" \in Commands(call.step) /\ Here' \in Reach("download", target, before)
    BY <1>2, <2>2, CommandsOf DEF Reach
  <2> QED BY <1>6, <2>3, <2>4, Moves
<1>7. CASE Then("download", "rename image")
  <2>1. at = "download" /\ sys' = sys /\ To("rename image")
    BY <1>7, Reads DEF Then, Runs, Changing
  <2>2. Here' = before /\ ~before.image
    BY <1>2, <2>1 DEF Here, Knows
  <2>3. Knows'
    BY <2>1, <2>2 DEF Knows, To
  <2>4. "rename image" \in Commands(call.step) /\ Here' \in Reach("rename image", target, before)
    BY <1>2, <2>2, CommandsOf DEF Reach
  <2> QED BY <1>7, <2>3, <2>4, Moves
<1>8. CASE Then("rename image", "mark image")
  <2>1. at = "rename image" /\ sys' = Effect(at, sys) /\ To("mark image")
    BY <1>8 DEF Then, Runs, Checked
  <2>2. Here = before /\ ~before.image
    BY <1>2, <2>1 DEF Knows
  <2>3. Here' = [Here EXCEPT !.image = sys.marker] /\ sys.marker \in BOOLEAN
    BY <1>3, <2>1, EffectAt DEF Here, Machine
  <2>4. Here' \in {before, EnsureImage(before)}
    BY <1>3, <2>2, <2>3 DEF EnsureImage, HostState
  <2>5. sys'.raw = "image"
    BY <1>3, <2>1 DEF Effect, Machine
  <2>6. Knows'
    BY <2>1, <2>5 DEF Knows, To
  <2>7. "mark image" \in Commands(call.step) /\ Here' \in Reach("mark image", target, before)
    BY <1>2, <2>4, CommandsOf DEF Reach
  <2> QED BY <1>8, <2>6, <2>7, Moves
<1>9. CASE Last("mark image", "done")
  <2>1. at = "mark image" /\ sys' = Effect(at, sys) /\ sys.raw = "image"
    BY <1>2, <1>9 DEF Last, Runs, Checked, Knows
  <2>2. Here' = [Here EXCEPT !.image = TRUE]
    BY <2>1, EffectAt DEF Here
  <2>3. Here' = EnsureImage(before)
    BY <1>2, <1>3, <2>1, <2>2 DEF EnsureImage, HostState
  <2> QED BY <1>4, <1>9, <2>3, Finishes
<1> QED BY <1>5, <1>6, <1>7, <1>8, <1>9 DEF DriveImage

LEMMA StorageKeeps ==
    ASSUME Inv, at # "idle", DriveStorage
    PROVE  Inv' /\ DC!Next
<1>1. at \in {"zfs create", "verify storage", "dd", "zfs set", "read identity"}
  <2>1. Written[1] = "dd" /\ Written[1 + 1] = "zfs set" /\ Written[2] = "zfs set"
    BY DEF Written
  <2> QED BY <2>1 DEF DriveStorage, Then, Last, Runs
<1>2. call.step = "zfs/ensure-storage" /\ Knows /\ Here \in Reach(at, target, before)
  BY <1>1, StepAt DEF Inv, Underway
<1>3. /\ before \in HostState /\ Here \in HostState /\ sys \in Machine
      /\ Here.image = (sys.raw = "image" /\ sys.marker) /\ Here.disk = sys.zvol /\ Here.imaged = sys.stamp
      /\ HostOf(sys) = Here
      /\ manifest.disk \in Nat \ {0} /\ manifest = target.manifest
      /\ nth \in 1..Services /\ fresh \in BOOLEAN
  BY UnderwayCall, HereFields DEF Here, Inv, Typed
<1>4. ~Skips(call.step) /\ ~Drifted(call.step, target, before)
      /\ Ensured(call.step, target, before) = EnsureStorage(target, before)
  BY <1>2 DEF Skips, Drifted, Ensured
<1>5. CASE /\ Runs("zfs create") /\ To("verify storage")
           /\ fresh' = (sys.zvol = 0) /\ UNCHANGED nth
  <2>1. at = "zfs create" /\ sys' = Effect(at, sys)
    BY <1>5 DEF Runs, Checked
  <2>2. Here = before
    BY <1>2, <2>1 DEF Reach
  <2>3. Here' = IF before.disk = 0 THEN HalfStored(target, before) ELSE before
    BY <2>1, <2>2, EffectAt DEF Here
  <2>4. "verify storage" \in Commands(call.step) /\ Here' \in Reach("verify storage", target, before)
    BY <1>2, <2>3, CommandsOf DEF Reach
  <2>5. fresh' \in BOOLEAN /\ nth' \in 1..Services /\ (fresh' <=> before.disk = 0)
    BY <1>3, <1>5, <2>2
  <2>6. Knows'
    BY <1>5, <2>5 DEF Knows, To
  <2>7. Sound(sys') /\ Here' \in Torn(call.step, target, before)
    BY <1>5, RunsEnds
  <2> QED BY <1>5, <2>4, <2>5, <2>6, <2>7, ThenKeeps
<1>6. ASSUME at = "verify storage"
      PROVE  /\ Here = IF before.disk = 0 THEN HalfStored(target, before) ELSE before
             /\ before.image = Here.image
             /\ sys.zvol = manifest.disk => before.disk \in {0, manifest.disk} /\ Here = HalfStored(target, before)
             /\ sys.zvol # manifest.disk => before.disk \notin {0, manifest.disk} /\ Here = before
  <2>1. Here = IF before.disk = 0 THEN HalfStored(target, before) ELSE before
    BY <1>2, <1>6 DEF Reach
  <2>2. /\ HalfStored(target, before).disk = manifest.disk /\ HalfStored(target, before).image = before.image
        /\ before.disk = manifest.disk => HalfStored(target, before) = before
    <3>1. /\ HalfStored(target, before).disk = manifest.disk /\ HalfStored(target, before).image = before.image
          /\ HalfStored(target, before).running = before.running /\ HalfStored(target, before).seed = before.seed
          /\ HalfStored(target, before).config = before.config /\ HalfStored(target, before).kea = before.kea
          /\ HalfStored(target, before).pf = before.pf
          /\ before.disk # 0 => HalfStored(target, before).imaged = before.imaged
          /\ HalfStored(target, before) \in HostState
      BY <1>3 DEF HalfStored, HostState
    <3> QED BY <1>3, <3>1, HostExt
  <2> QED BY <1>3, <2>1, <2>2
<1>7. CASE sys.zvol # manifest.disk /\ Last("verify storage", "blocked")
  <2>1. at = "verify storage" /\ sys' = sys
    BY <1>7, Reads DEF Last, Runs, Changing
  <2>2. Here' = before /\ before.disk \notin {0, manifest.disk}
    BY <1>6, <1>7, <2>1 DEF Here
  <2>3. Blocked(call.step, target, before)
    BY <1>2, <1>3, <2>2 DEF Blocked, ForeignStorage
  <2> QED BY <1>7, <2>2, <2>3, Finishes
<1>8. ASSUME NEW outcome \in {"failed", "blocked"}, sys.zvol = manifest.disk, ~Here.image,
             Last("verify storage", outcome)
      PROVE  Inv' /\ DC!Next
  <2>1. at = "verify storage" /\ sys' = sys
    BY <1>8, Reads DEF Last, Runs, Changing
  <2>2. Here' = HalfStored(target, before) /\ before.disk \in {0, manifest.disk} /\ ~before.image
    BY <1>6, <1>8, <2>1 DEF Here
  <2>3. MarkerMissing(call.step, target, before)
    BY <1>2, <1>3, <2>2 DEF MarkerMissing
  <2> QED BY <1>8, <2>2, <2>3, Finishes
<1>9. CASE /\ sys.zvol = manifest.disk /\ HostOf(sys).image
           /\ Then("verify storage", IF fresh THEN Written[1] ELSE "read identity")
  <2>1. at = "verify storage" /\ sys' = sys
    BY <1>9, Reads DEF Then, Runs, Changing
  <2>2. before.disk \in {0, manifest.disk} /\ before.image /\ (fresh <=> before.disk = 0)
    BY <1>2, <1>3, <1>6, <1>9, <2>1 DEF Knows
  <2>3. Here' = IF before.disk = 0 THEN HalfStored(target, before) ELSE before
    BY <1>6, <2>1 DEF Here
  <2>4. CASE fresh
    <3>1. Then("verify storage", "dd") /\ To("dd")
      BY <1>9, <2>4 DEF Written, Then
    <3>2. "dd" \in Commands(call.step) /\ Here' \in Reach("dd", target, before)
      BY <1>2, <2>3, CommandsOf DEF Reach
    <3>3. Knows'
      BY <2>2, <2>4, <3>1 DEF Knows, To
    <3> QED BY <3>1, <3>2, <3>3, Moves
  <2>5. CASE ~fresh
    <3>1. Then("verify storage", "read identity") /\ To("read identity")
      BY <1>9, <2>5 DEF Then
    <3>2. Here' = EnsureStorage(target, before)
      BY <2>2, <2>3, <2>5 DEF EnsureStorage
    <3>3. "read identity" \in Commands(call.step) /\ Here' \in Reach("read identity", target, before)
      BY <1>2, <3>2, CommandsOf DEF Reach
    <3>4. manifest' = manifest
      BY <3>1 DEF To, manifest, target
    <3>5. Knows'
      BY <2>2, <3>1, <3>4 DEF Knows, To
    <3> QED BY <3>1, <3>3, <3>5, Moves
  <2> QED BY <1>3, <2>4, <2>5
<1>10. CASE Then("dd", "zfs set")
  <2>1. at = "dd" /\ sys' = Effect(at, sys) /\ To("zfs set")
    BY <1>10 DEF Then, Runs, Checked
  <2>2. Here' = Here /\ sys'.content = "image"
    <3>1. Here' = Here
      BY <2>1, EffectAt DEF Here, ChangingHost
    <3>2. sys' = [sys EXCEPT !.content = "image"]
      BY <2>1 DEF Effect
    <3> QED BY <1>3, <3>1, <3>2 DEF Machine
  <2>3. Here' \in Reach("zfs set", target, before) /\ "zfs set" \in Commands(call.step)
    BY <1>2, <2>1, <2>2, CommandsOf DEF Reach
  <2>4. Knows'
    BY <1>2, <2>1, <2>2 DEF Knows, To
  <2> QED BY <1>10, <2>3, <2>4, Moves
<1>11. CASE Then("zfs set", "read identity")
  <2>1. at = "zfs set" /\ sys' = Effect(at, sys) /\ To("read identity")
    BY <1>11 DEF Then, Runs, Checked
  <2>2. before.disk = 0 /\ before.image /\ Here = HalfStored(target, before)
    BY <1>2, <2>1 DEF Reach, Knows
  <2>3. Here' = [Here EXCEPT !.imaged = TRUE]
    BY <2>1, EffectAt DEF Here
  <2>4. Here' = EnsureStorage(target, before)
    BY <1>3, <2>2, <2>3 DEF HalfStored, EnsureStorage, HostState
  <2>5. Here' \in Reach("read identity", target, before) /\ "read identity" \in Commands(call.step)
    BY <1>2, <2>4, CommandsOf DEF Reach
  <2>6. Knows'
    BY <2>1, <2>2 DEF Knows, To
  <2> QED BY <1>11, <2>5, <2>6, Moves
<1>12. CASE Last("read identity", IdentityRead)
  <2>1. at = "read identity" /\ sys' = sys
    BY <1>12, Reads DEF Last, Runs, Changing
  <2>2. Here = EnsureStorage(target, before) /\ before.image /\ before.disk \in {0, manifest.disk}
    BY <1>2, <2>1 DEF Reach, Knows
  <2>3. Here' = EnsureStorage(target, before)
    BY <2>1, <2>2 DEF Here
  <2>4. ~MarkerMissing(call.step, target, before)
    BY <2>2 DEF MarkerMissing
  <2>5. before.disk = 0 => Here.imaged
    BY <1>3, <2>2 DEF EnsureStorage, HostState
  <2>6. before.disk # 0 => Here = before
    BY <2>2 DEF EnsureStorage
  <2>7. CASE sys.stamp
    <3>1. ~Blocked(call.step, target, before)
      BY <1>2, <1>3, <2>2, <2>6, <2>7 DEF Blocked, ForeignStorage
    <3>2. Last("read identity", "done")
      BY <1>12, <2>7 DEF IdentityRead
    <3> QED BY <1>4, <2>3, <2>4, <3>1, <3>2, Finishes
  <2>8. CASE ~sys.stamp
    <3>1. Blocked(call.step, target, before)
      BY <1>2, <1>3, <2>2, <2>5, <2>6, <2>8 DEF Blocked, ForeignStorage
    <3>2. Last("read identity", "blocked")
      BY <1>12, <2>8 DEF IdentityRead
    <3>3. Here' = before
      BY <1>3, <2>2, <2>3, <2>5, <2>6, <2>8
    <3> QED BY <3>1, <3>2, <3>3, Finishes
  <2> QED BY <2>7, <2>8
<1>13. QED
  <2>1. /\ sys.marker \in BOOLEAN
        /\ (~sys.marker \/ sys.raw = "none") => ~Here.image
        /\ sys.raw = "other" => ~Here.image
    BY <1>3 DEF Machine
  <2>2. \/ Runs("zfs create") /\ To("verify storage") /\ fresh' = (sys.zvol = 0) /\ UNCHANGED nth
        \/ sys.zvol # manifest.disk /\ Last("verify storage", "blocked")
        \/ \E outcome \in {"failed", "blocked"} :
               sys.zvol = manifest.disk /\ ~Here.image /\ Last("verify storage", outcome)
        \/ /\ sys.zvol = manifest.disk /\ HostOf(sys).image
           /\ Then("verify storage", IF fresh THEN Written[1] ELSE "read identity")
        \/ Then("dd", "zfs set") \/ Then("zfs set", "read identity")
        \/ Last("read identity", IdentityRead)
    <3>1. (\E k \in {1, 2} : Then(Written[k], Written[k + 1]))
              => Then("dd", "zfs set") \/ Then("zfs set", "read identity")
      <4>1. /\ Written[1] = "dd" /\ Written[1 + 1] = "zfs set"
            /\ Written[2] = "zfs set" /\ Written[2 + 1] = "read identity"
        BY DEF Written
      <4> QED BY <4>1
    <3> QED BY <2>1, <3>1 DEF DriveStorage
  <2> QED BY <1>5, <1>7, <1>8, <1>9, <1>10, <1>11, <1>12, <2>2

LEMMA StorageAbsentKeeps ==
    ASSUME Inv, at # "idle", DriveStorageAbsent
    PROVE  Inv' /\ DC!Next
<1>1. at \in {"zfs destroy", "zfs list"}
  BY DEF DriveStorageAbsent, Then, Last, Runs
<1>2. call.step = "zfs/ensure-absent" /\ Here \in Reach(at, target, before)
  BY <1>1, StepAt DEF Inv, Underway
<1>3. /\ before \in HostState /\ Here \in HostState /\ sys \in Machine /\ Sound(sys)
      /\ Here.disk = sys.zvol /\ Here.imaged = sys.stamp
  BY UnderwayCall, HereFields
<1>4. /\ ~Skips(call.step) /\ ~Blocked(call.step, target, before) /\ ~MarkerMissing(call.step, target, before)
      /\ ~Drifted(call.step, target, before) /\ Ensured(call.step, target, before) = EnsureStorageAbsent(before)
      /\ call.step \in ReadsBack
  BY <1>2 DEF Skips, Blocked, MarkerMissing, Drifted, Ensured, ReadsBack
<1>5. CASE Then("zfs destroy", "zfs list")
  <2>1. at = "zfs destroy" /\ sys' \in {sys, Effect(at, sys)} /\ To("zfs list")
    BY <1>5 DEF Then, Runs
  <2>2. Here = before
    BY <1>2, <2>1 DEF Reach
  <2>3. Here' \in {before, EnsureStorageAbsent(before)}
    BY <2>1, <2>2, EffectAt DEF Here
  <2>4. Here' \in Reach("zfs list", target, before) /\ "zfs list" \in Commands(call.step)
    BY <1>2, <2>3, CommandsOf DEF Reach
  <2> QED BY <1>5, <2>1, <2>4, KnowsNothing, Moves
<1>6. CASE Last("zfs list", IF sys.dataset THEN "drift" ELSE "done")
  <2>1. at = "zfs list" /\ sys' = sys
    BY <1>6, Reads DEF Last, Runs, Changing
  <2>2. CASE sys.dataset
    BY <1>4, <1>6, <2>2, Finishes
  <2>3. CASE ~sys.dataset
    <3>1. Here.disk = 0 /\ Here.imaged = FALSE
      BY <1>3, <2>3 DEF Sound, Machine
    <3>2. Here \in {before, EnsureStorageAbsent(before)}
      BY <1>2, <2>1 DEF Reach
    <3>3. Here = EnsureStorageAbsent(before)
      BY <1>3, <3>1, <3>2 DEF EnsureStorageAbsent, HostState
    <3>4. Here' = EnsureStorageAbsent(before)
      BY <2>1, <3>3 DEF Here
    <3> QED BY <1>4, <1>6, <2>3, <3>4, Finishes
  <2> QED BY <2>2, <2>3
<1> QED BY <1>5, <1>6 DEF DriveStorageAbsent

LEMMA SeedKeeps ==
    ASSUME Inv, at # "idle", DriveSeed
    PROVE  Inv' /\ DC!Next
<1>1. at \in {"read seed", "rename seed", "mark seed"}
  BY DEF DriveSeed, Then, Last, Runs
<1>2. /\ call.step = "cloudinit/ensure-seed"
      /\ Here = IF at = "mark seed" THEN EnsureSeed(target, before) ELSE before
  BY <1>1, StepAt DEF Inv, Underway, Reach
<1>3. /\ before \in HostState /\ sys \in Machine /\ Here.seed = sys.iso /\ manifest = target.manifest
  BY UnderwayCall, HereFields
<1>4. /\ ~Skips(call.step) /\ ~Blocked(call.step, target, before) /\ ~MarkerMissing(call.step, target, before)
      /\ ~Drifted(call.step, target, before) /\ Ensured(call.step, target, before) = EnsureSeed(target, before)
  BY <1>2 DEF Skips, Blocked, MarkerMissing, Drifted, Ensured
<1>5. CASE Sealed /\ Last("read seed", "done")
  <2>1. at = "read seed" /\ sys' = sys
    BY <1>5, Reads DEF Last, Runs, Changing
  <2>2. Here' = before /\ before.seed = target.manifest
    BY <1>2, <1>3, <1>5, <2>1 DEF Here, Sealed
  <2>3. Here' = EnsureSeed(target, before)
    BY <1>3, <2>2 DEF EnsureSeed, HostState
  <2> QED BY <1>4, <1>5, <2>3, Finishes
<1>6. CASE Then("read seed", "rename seed")
  <2>1. at = "read seed" /\ sys' = sys /\ To("rename seed")
    BY <1>6, Reads DEF Then, Runs, Changing
  <2>2. Here' \in Reach("rename seed", target, before) /\ "rename seed" \in Commands(call.step)
    BY <1>2, <2>1, CommandsOf DEF Reach, Here
  <2> QED BY <1>6, <2>1, <2>2, KnowsNothing, Moves
<1>7. CASE Then("rename seed", "mark seed")
  <2>1. at = "rename seed" /\ sys' = Effect(at, sys) /\ To("mark seed")
    BY <1>7 DEF Then, Runs, Checked
  <2>2. Here' = EnsureSeed(target, before)
    BY <1>2, <2>1, EffectAt DEF Here
  <2>3. Here' \in Reach("mark seed", target, before) /\ "mark seed" \in Commands(call.step)
    BY <1>2, <2>2, CommandsOf DEF Reach
  <2> QED BY <1>7, <2>1, <2>3, KnowsNothing, Moves
<1>8. CASE Last("mark seed", "done")
  <2>1. at = "mark seed" /\ sys' = Effect(at, sys)
    BY <1>8 DEF Last, Runs, Checked
  <2>2. Here' = Here
    BY <2>1, EffectAt DEF Here, ChangingHost
  <2> QED BY <1>2, <1>4, <1>8, <2>1, <2>2, Finishes
<1> QED BY <1>5, <1>6, <1>7, <1>8 DEF DriveSeed

LEMMA SeedAbsentKeeps ==
    ASSUME Inv, at # "idle", DriveSeedAbsent
    PROVE  Inv' /\ DC!Next
<1>1. at \in {"rm seed.iso", "rm marker"}
  BY DEF DriveSeedAbsent, Then, Last, Runs
<1>2. /\ call.step = "cloudinit/ensure-absent"
      /\ Here = IF at = "rm marker" THEN EnsureSeedAbsent(before) ELSE before
  BY <1>1, StepAt DEF Inv, Underway, Reach
<1>3. /\ ~Skips(call.step) /\ ~Blocked(call.step, target, before) /\ ~MarkerMissing(call.step, target, before)
      /\ ~Drifted(call.step, target, before) /\ Ensured(call.step, target, before) = EnsureSeedAbsent(before)
  BY <1>2 DEF Skips, Blocked, MarkerMissing, Drifted, Ensured
<1>4. CASE Then("rm seed.iso", "rm marker")
  <2>1. at = "rm seed.iso" /\ sys' = Effect(at, sys) /\ To("rm marker")
    BY <1>4 DEF Then, Runs, Checked
  <2>2. Here' = EnsureSeedAbsent(before)
    BY <1>2, <2>1, EffectAt DEF Here
  <2>3. Here' \in Reach("rm marker", target, before) /\ "rm marker" \in Commands(call.step)
    BY <1>2, <2>2, CommandsOf DEF Reach
  <2> QED BY <1>4, <2>1, <2>3, KnowsNothing, Moves
<1>5. CASE Last("rm marker", "done")
  <2>1. at = "rm marker" /\ sys' = Effect(at, sys)
    BY <1>5 DEF Last, Runs, Checked
  <2>2. Here' = Here
    BY <2>1, EffectAt DEF Here, ChangingHost
  <2> QED BY <1>2, <1>3, <1>5, <2>1, <2>2, Finishes
<1> QED BY <1>4, <1>5 DEF DriveSeedAbsent

LEMMA GuestKeeps ==
    ASSUME Inv, at # "idle", DriveGuest
    PROVE  Inv' /\ DC!Next
<1>1. at \in {"mkdir", "write config"}
  BY DEF DriveGuest, Last, Runs
<1>2. /\ call.step = IF at = "mkdir" THEN "vmbhyve/ensure-definition" ELSE "vmbhyve/ensure-config"
      /\ Here = before
  BY <1>1, StepAt DEF Inv, Underway, Reach
<1>3. /\ ~Skips(call.step) /\ ~Blocked(call.step, target, before) /\ ~MarkerMissing(call.step, target, before)
      /\ ~Drifted(call.step, target, before)
      /\ Ensured(call.step, target, before) = IF at = "mkdir" THEN before ELSE EnsureConfig(target, before)
  BY <1>1, <1>2 DEF Skips, Blocked, MarkerMissing, Drifted, Ensured
<1>4. sys' = Effect(at, sys)
  BY DEF DriveGuest, Last, Runs, Checked
<1>5. Here' = Ensured(call.step, target, before)
  BY <1>1, <1>2, <1>3, <1>4, EffectAt DEF Here, ChangingHost
<1> QED BY <1>3, <1>5, Finishes DEF DriveGuest

LEMMA PowerKeeps ==
    ASSUME Inv, at # "idle", DrivePower
    PROVE  Inv' /\ DC!Next
<1>1. at \in {"vm list", "vm start or stop"}
  BY DEF DrivePower, Then, Last, Runs
<1>2. call.step \in PowerSteps /\ Knows /\ Here = before
  BY <1>1, StepAt DEF Inv, Underway, Reach
<1>3. /\ before \in HostState /\ Here.config = sys.config /\ Here.running = sys.running
      /\ manifest = target.manifest
  BY UnderwayCall, HereFields
<1>4. /\ ~Skips(call.step) /\ ~MarkerMissing(call.step, target, before) /\ ~Drifted(call.step, target, before)
      /\ Ensured(call.step, target, before) = EnsurePower(Power, before)
      /\ Blocked(call.step, target, before) <=> before.config = None
  BY <1>2, <1>3 DEF PowerSteps, Skips, Blocked, VMExists, MarkerMissing, Drifted, Ensured, Power
<1>5. CASE sys.config = None /\ Last("vm list", "blocked")
  <2>1. sys' = sys
    BY <1>5, Reads DEF Last, Changing
  <2>2. Here' = before
    BY <1>2, <2>1 DEF Here
  <2> QED BY <1>2, <1>3, <1>4, <1>5, <2>2, Finishes
<1>6. CASE sys.config # None /\ sys.running = (Power = "running") /\ Last("vm list", "done")
  <2>1. sys' = sys
    BY <1>6, Reads DEF Last, Changing
  <2>2. Here' = before
    BY <1>2, <2>1 DEF Here
  <2>3. EnsurePower(Power, before) = before
    BY <1>2, <1>3, <1>6 DEF EnsurePower, HostState
  <2> QED BY <1>2, <1>3, <1>4, <1>6, <2>2, <2>3, Finishes
<1>7. CASE sys.config # None /\ Then("vm list", "vm start or stop")
  <2>1. sys' = sys /\ To("vm start or stop")
    BY <1>7, Reads DEF Then, Changing
  <2>2. Here' \in Reach("vm start or stop", target, before) /\ "vm start or stop" \in Commands(call.step)
    <3>1. Commands(call.step) = {"vm list", "vm start or stop"}
      BY <1>2, CommandsOf
    <3>2. Here' = before
      BY <1>2, <2>1 DEF Here
    <3> QED BY <3>1, <3>2 DEF Reach
  <2>3. Knows'
    BY <1>2, <1>3, <1>7, <2>1 DEF Knows, To
  <2> QED BY <1>7, <2>2, <2>3, Moves
<1>8. CASE Last("vm start or stop", "done")
  <2>1. at = "vm start or stop" /\ sys' = Effect(at, sys)
    BY <1>8 DEF Last, Runs, Checked
  <2>2. Here' = EnsurePower(Power, before)
    BY <1>2, <2>1, EffectAt DEF Here
  <2>3. before.config # None
    BY <1>2, <2>1 DEF Knows
  <2> QED BY <1>4, <1>8, <2>2, <2>3, Finishes
<1> QED BY <1>5, <1>6, <1>7, <1>8 DEF DrivePower

LEMMA VMAbsentKeeps ==
    ASSUME Inv, at # "idle", DriveVMAbsent
    PROVE  Inv' /\ DC!Next
<1>0. Removal[1] = "vm stop" /\ Removal[2] = "vm destroy"
  BY DEF Removal
<1>1. at \in {"vm stop", "vm destroy", "rm files"}
  BY <1>0 DEF DriveVMAbsent, Then, Last, Runs
<1>2. call.step = "vmbhyve/ensure-absent" /\ Knows /\ Here \in Reach(at, target, before)
  BY <1>1, StepAt DEF Inv, Underway
<1>3. /\ before \in HostState /\ Here \in HostState /\ Here.config = sys.config
      /\ nth \in 1..Services /\ fresh \in BOOLEAN
  BY UnderwayCall, HereFields DEF Inv, Typed
<1>4. /\ ~Skips(call.step) /\ ~Blocked(call.step, target, before) /\ ~MarkerMissing(call.step, target, before)
      /\ ~Drifted(call.step, target, before) /\ Ensured(call.step, target, before) = EnsureVMAbsent(before)
  BY <1>2 DEF Skips, Blocked, MarkerMissing, Drifted, Ensured
<1>5. CASE sys.config = None /\ Last("vm stop", "done")
  <2>1. at = "vm stop" /\ sys' = Effect(at, sys)
    BY <1>5 DEF Last, Runs, Checked
  <2>2. Here = before /\ Here' = Here
    BY <1>2, <1>3, <1>5, <2>1, EffectAt DEF Here, Reach
  <2>3. EnsureVMAbsent(before) = before
    BY <1>3, <1>5, <2>2 DEF EnsureVMAbsent, VMExists
  <2> QED BY <1>4, <1>5, <2>2, <2>3, Finishes
<1>6. CASE sys.config # None /\ Then("vm stop", "vm destroy")
  <2>1. at = "vm stop" /\ sys' = Effect(at, sys) /\ To("vm destroy")
    BY <1>6 DEF Then, Runs, Checked
  <2>2. Here = before /\ Here' = [Here EXCEPT !.running = FALSE]
    BY <1>2, <1>3, <1>6, <2>1, EffectAt DEF Here, Reach
  <2>3. Here' \in Reach("vm destroy", target, before) /\ "vm destroy" \in Commands(call.step)
    BY <1>2, <2>2, CommandsOf DEF Reach
  <2>4. Knows'
    BY <1>3, <1>6, <2>1, <2>2 DEF Knows, To
  <2> QED BY <1>6, <2>3, <2>4, Moves
<1>7. ASSUME NEW c \in {"vm destroy", "rm files"}, Last(c, "done")
      PROVE  Inv' /\ DC!Next
  <2>1. at = c /\ sys' = Effect(at, sys)
    BY <1>7 DEF Last, Runs, Checked
  <2>2. before.config # None
    BY <1>2, <2>1 DEF Knows
  <2>3. Here \in TornVM(before) \cup {EnsureVMAbsent(before)}
    BY <1>2, <2>1, <2>2 DEF Reach, TornVM, VMExists
  <2>4. Here' = [Here EXCEPT !.config = None, !.seed = None]
    BY <2>1, EffectAt DEF Here
  <2>5. EnsureVMAbsent(before) = [before EXCEPT !.config = None, !.running = FALSE, !.seed = None]
    BY <2>2 DEF EnsureVMAbsent, VMExists
  <2>6. Here' = EnsureVMAbsent(before)
    BY <1>3, <2>2, <2>3, <2>4, <2>5 DEF TornVM, VMExists, HostState
  <2> QED BY <1>4, <1>7, <2>6, Finishes
<1>8. CASE /\ at = "vm destroy"
           /\ sys' \in {sys, Effect(at, sys)} \cup Partly(at, sys)
           /\ To("rm files") /\ UNCHANGED locals
  <2>1. Sound(sys') /\ Here' \in Torn(call.step, target, before)
    BY <1>8, CommandEnds DEF Ends, Here
  <2>2. before.config # None
    BY <1>2, <1>8 DEF Knows
  <2>3. Here = [before EXCEPT !.running = FALSE]
    BY <1>2, <1>8 DEF Reach
  <2>4. EnsureVMAbsent(before) = [before EXCEPT !.config = None, !.running = FALSE, !.seed = None]
    BY <2>2 DEF EnsureVMAbsent, VMExists
  <2>5. Here' \in TornVM(before) \cup {EnsureVMAbsent(before)}
    <3>1. CASE sys' = sys
      BY <2>2, <2>3, <3>1 DEF Here, TornVM, VMExists
    <3>2. CASE sys' = Effect(at, sys)
      <4>1. Here' = [Here EXCEPT !.config = None, !.seed = None]
        BY <1>8, <3>2, EffectAt DEF Here
      <4> QED BY <1>3, <2>3, <2>4, <4>1 DEF HostState
    <3>3. CASE sys' \in Partly(at, sys)
      <4>1. sys' \in {[sys EXCEPT !.config = None], [sys EXCEPT !.iso = None], [sys EXCEPT !.seal = None]}
        BY <1>8, <3>3 DEF Partly
      <4>2. sys \in Machine
        BY UnderwayCall
      <4>3. HostOf([sys EXCEPT !.config = None]) = [Here EXCEPT !.config = None]
        BY <4>2, FieldHost DEF Here
      <4>4. HostOf([sys EXCEPT !.iso = None]) = [Here EXCEPT !.seed = None]
        BY <4>2, FieldHost DEF Here
      <4>5. HostOf([sys EXCEPT !.seal = None]) = Here
        BY <4>2, FieldHost DEF Here
      <4>6. Here' \in {Here, [Here EXCEPT !.config = None], [Here EXCEPT !.seed = None]}
        BY <4>1, <4>3, <4>4, <4>5 DEF Here
      <4> QED BY <1>3, <2>2, <2>3, <4>6 DEF TornVM, VMExists, HostState
    <3> QED BY <1>8, <3>1, <3>2, <3>3
  <2>6. Here' \in Reach("rm files", target, before) /\ "rm files" \in Commands(call.step)
    BY <1>2, <2>5, CommandsOf DEF Reach
  <2>7. Knows'
    BY <1>8, <2>2 DEF Knows, To
  <2>8. nth' \in 1..Services /\ fresh' \in BOOLEAN
    BY <1>3, <1>8 DEF locals
  <2> QED BY <1>8, <2>1, <2>6, <2>7, <2>8, ThenKeeps
<1> QED BY <1>0, <1>5, <1>6, <1>7, <1>8 DEF DriveVMAbsent

LEMMA KeaKeeps ==
    ASSUME Inv, at # "idle", DriveKea
    PROVE  Inv' /\ DC!Next
<1>1. at \in {"reservation-get", "reservation-add", "reservation-update", "reservation-del", "reservation-check"}
  BY DEF DriveKea, Then, Last, Runs
<1>2. call.step = "kea/ensure-reservation" /\ Knows /\ Here \in Reach(at, target, before)
  BY <1>1, StepAt DEF Inv, Underway
<1>3. /\ before \in HostState /\ Here \in HostState /\ sys \in Machine /\ identity = target.identity
      /\ identity \in Identities /\ sys.res[identity] \in {"none", "other", "match"}
      /\ identity \in Here.kea <=> sys.res[identity] # "none"
  BY UnderwayCall, HereFields DEF Machine
<1>4. /\ ~Skips(call.step) /\ ~Blocked(call.step, target, before) /\ ~MarkerMissing(call.step, target, before)
      /\ ~Drifted(call.step, target, before) /\ call.step \in ReadsBack
      /\ Ensured(call.step, target, before) = EnsureKeaReservation(target, before)
  BY <1>2 DEF Skips, Blocked, MarkerMissing, Drifted, Ensured, ReadsBack
<1> DEFINE left == {before, EnsureKeaReservation(target, before)} \cup TornKea(target, before)
<1>5. \A c \in {"reservation-add", "reservation-del", "reservation-check"} :
          Reach(c, target, before) = left /\ c \in Commands(call.step)
  BY <1>2, CommandsOf DEF Reach
<1>6. Here \in left /\ before \in left
  BY <1>1, <1>2 DEF Reach
<1>7. /\ EnsureKeaReservation(target, Here) \in left
      /\ EnsureKeaAbsent(target, Here) \in left
  <2>1. EnsureKeaReservation(target, Here) = EnsureKeaReservation(target, before)
    BY <1>3, <1>6 DEF EnsureKeaReservation, EnsureKeaAbsent, TornKea, HostState
  <2>2. EnsureKeaAbsent(target, Here) = EnsureKeaAbsent(target, before)
    BY <1>3, <1>6 DEF EnsureKeaReservation, EnsureKeaAbsent, TornKea, HostState
  <2>3. identity \notin before.kea => EnsureKeaAbsent(target, before) = before
    BY <1>3 DEF EnsureKeaAbsent, HostState
  <2>4. identity \in before.kea => EnsureKeaAbsent(target, before) \in TornKea(target, before)
    BY <1>3 DEF TornKea
  <2> QED BY <2>1, <2>2, <2>3, <2>4
<1> HIDE DEF left
<1>8. CASE Then("reservation-get", CASE sys.res[identity] = "none"  -> "reservation-add"
                                     [] sys.res[identity] = "other" -> "reservation-update"
                                     [] sys.res[identity] = "match" -> "reservation-check")
  <2>1. at = "reservation-get" /\ sys' = sys
    BY <1>8, Reads DEF Then, Runs, Changing
  <2>2. Here = before /\ Here' = before
    BY <1>2, <2>1 DEF Reach, Here
  <2>3. CASE sys.res[identity] = "none"
    <3>1. Then("reservation-get", "reservation-add") /\ To("reservation-add")
      BY <1>8, <2>3 DEF Then
    <3> QED BY <1>5, <1>6, <2>2, <3>1, KnowsNothing, Moves
  <2>4. CASE sys.res[identity] = "other"
    <3>1. Then("reservation-get", "reservation-update") /\ To("reservation-update")
      BY <1>8, <2>4 DEF Then
    <3>2. identity' = identity /\ before' = before
      BY <3>1 DEF To, identity, target
    <3>3. Knows'
      BY <1>3, <2>2, <2>4, <3>1, <3>2 DEF Knows, To
    <3>4. Here' \in Reach("reservation-update", target, before) /\ "reservation-update" \in Commands(call.step)
      BY <1>2, <2>2, CommandsOf DEF Reach
    <3> QED BY <3>1, <3>3, <3>4, Moves
  <2>5. CASE sys.res[identity] = "match"
    <3>1. Then("reservation-get", "reservation-check") /\ To("reservation-check")
      BY <1>8, <2>5 DEF Then
    <3> QED BY <1>5, <1>6, <2>2, <3>1, KnowsNothing, Moves
  <2> QED BY <1>3, <2>3, <2>4, <2>5
<1>9. ASSUME NEW c \in {"reservation-add", "reservation-update"}, Then(c, "reservation-check")
      PROVE  Inv' /\ DC!Next
  <2>1. at = c /\ sys' \in {sys, Effect(at, sys)} /\ To("reservation-check")
    BY <1>9 DEF Then, Runs
  <2>2. Here' \in left
    BY <1>6, <1>7, <2>1, EffectAt DEF Here
  <2> QED BY <1>5, <1>9, <2>1, <2>2, KnowsNothing, Moves
<1>10. CASE at = "reservation-update" /\ To("reservation-del") /\ UNCHANGED <<sys, locals, bounds>>
  <2>1. Here' = Here /\ Sound(sys') /\ nth' \in 1..Services /\ fresh' \in BOOLEAN
    BY <1>10, UnderwayCall DEF Here, Inv, Typed, locals, Sound
  <2>2. Here' \in Torn(call.step, target, before)
    BY <2>1, ReachTorn
  <2> QED BY <1>5, <1>6, <1>10, <2>1, <2>2, KnowsNothing, ThenKeeps
<1>11. CASE Then("reservation-del", "reservation-add")
  <2>1. at = "reservation-del" /\ sys' = Effect(at, sys) /\ To("reservation-add")
    BY <1>11 DEF Then, Runs, Checked
  <2>2. Here' \in left
    BY <1>7, <2>1, EffectAt DEF Here
  <2> QED BY <1>5, <1>11, <2>1, <2>2, KnowsNothing, Moves
<1>12. CASE Last("reservation-check", IF sys.res[identity] = "match" THEN "done" ELSE "drift")
  <2>1. at = "reservation-check" /\ sys' = sys
    BY <1>12, Reads DEF Last, Runs, Changing
  <2>2. CASE sys.res[identity] = "match"
    <3>1. identity \in Here.kea
      BY <1>3, <2>2
    <3>2. Here = EnsureKeaReservation(target, before)
      BY <1>3, <1>6, <3>1 DEF EnsureKeaReservation, EnsureKeaAbsent, TornKea, HostState, left
    <3>3. Here' = EnsureKeaReservation(target, before)
      BY <2>1, <3>2 DEF Here
    <3> QED BY <1>4, <1>12, <2>2, <3>3, Finishes
  <2>3. CASE sys.res[identity] # "match"
    BY <1>4, <1>12, <2>3, Finishes
  <2> QED BY <2>2, <2>3
<1> QED BY <1>8, <1>9, <1>10, <1>11, <1>12 DEF DriveKea

LEMMA KeaAbsentKeeps ==
    ASSUME Inv, at # "idle", DriveKeaAbsent
    PROVE  Inv' /\ DC!Next
<1>1. at \in {"reservation-drop", "reservation-gone"}
  BY DEF DriveKeaAbsent, Then, Last, Runs
<1>2. call.step = "kea/ensure-absent" /\ Here \in Reach(at, target, before)
  BY <1>1, StepAt DEF Inv, Underway
<1>3. /\ before \in HostState /\ Here \in HostState /\ identity = target.identity /\ identity \in Identities
      /\ identity \in Here.kea <=> sys.res[identity] # "none"
  BY UnderwayCall, HereFields
<1>4. /\ ~Skips(call.step) /\ ~Blocked(call.step, target, before) /\ ~MarkerMissing(call.step, target, before)
      /\ ~Drifted(call.step, target, before) /\ call.step \in ReadsBack
      /\ Ensured(call.step, target, before) = EnsureKeaAbsent(target, before)
  BY <1>2 DEF Skips, Blocked, MarkerMissing, Drifted, Ensured, ReadsBack
<1>5. CASE Then("reservation-drop", "reservation-gone")
  <2>1. at = "reservation-drop" /\ sys' \in {sys, Effect(at, sys)} /\ To("reservation-gone")
    BY <1>5 DEF Then, Runs
  <2>2. Here = before
    BY <1>2, <2>1 DEF Reach
  <2>3. Here' \in {before, EnsureKeaAbsent(target, before)}
    BY <2>1, <2>2, EffectAt DEF Here
  <2>4. Here' \in Reach("reservation-gone", target, before) /\ "reservation-gone" \in Commands(call.step)
    BY <1>2, <2>3, CommandsOf DEF Reach
  <2> QED BY <1>5, <2>1, <2>4, KnowsNothing, Moves
<1>6. CASE Last("reservation-gone", IF sys.res[identity] = "none" THEN "done" ELSE "drift")
  <2>1. at = "reservation-gone" /\ sys' = sys
    BY <1>6, Reads DEF Last, Runs, Changing
  <2>2. CASE sys.res[identity] = "none"
    <3>1. Here \in {before, EnsureKeaAbsent(target, before)} /\ identity \notin Here.kea
      BY <1>2, <1>3, <2>1, <2>2 DEF Reach
    <3>2. Here = EnsureKeaAbsent(target, before)
      BY <1>3, <3>1 DEF EnsureKeaAbsent, HostState
    <3>3. Here' = EnsureKeaAbsent(target, before)
      BY <2>1, <3>2 DEF Here
    <3> QED BY <1>4, <1>6, <2>2, <3>3, Finishes
  <2>3. CASE sys.res[identity] # "none"
    BY <1>4, <1>6, <2>3, Finishes
  <2> QED BY <2>2, <2>3
<1> QED BY <1>5, <1>6 DEF DriveKeaAbsent

LEMMA PFKeeps ==
    ASSUME Inv, at # "idle", DrivePF
    PROVE  Inv' /\ DC!Next
<1>1. before \in HostState /\ Here \in HostState /\ identity = target.identity /\ Here.pf = sys.rules
  BY UnderwayCall, HereFields
<1>2. Here \in Reach(at, target, before)
  BY DEF Inv, Underway
<1>3. CASE Last("skip", "skipped")
  <2>1. at = "skip" /\ sys' = sys
    BY <1>3, Reads DEF Last, Runs, Changing
  <2>2. Skips(call.step)
    BY <2>1, StepAt
  <2>3. /\ ~Blocked(call.step, target, before) /\ ~MarkerMissing(call.step, target, before)
        /\ ~Drifted(call.step, target, before) /\ Ensured(call.step, target, before) = before
    BY <2>2 DEF Skips, Blocked, MarkerMissing, Drifted, Ensured, EnsurePFRules, EnsurePFAbsent
  <2>4. Here' = before
    BY <1>2, <2>1 DEF Reach, Here
  <2> QED BY <1>3, <2>2, <2>3, <2>4, Finishes
<1>4. ASSUME at \in {"pfctl load", "pfctl check"}
      PROVE  /\ call.step = "pf/ensure-rules" /\ ManageAnchor
             /\ ~Skips(call.step) /\ ~Blocked(call.step, target, before) /\ ~MarkerMissing(call.step, target, before)
             /\ ~Drifted(call.step, target, before) /\ call.step \in ReadsBack
             /\ Ensured(call.step, target, before) = EnsurePFRules(target, before)
  <2>1. call.step = "pf/ensure-rules" /\ ManageAnchor
    BY <1>4, StepAt
  <2> QED BY <2>1 DEF Skips, Blocked, MarkerMissing, Drifted, Ensured, ReadsBack
<1>5. ASSUME at \in {"pfctl flush", "pfctl gone"}
      PROVE  /\ call.step = "pf/ensure-absent" /\ ManageAnchor
             /\ ~Skips(call.step) /\ ~Blocked(call.step, target, before) /\ ~MarkerMissing(call.step, target, before)
             /\ ~Drifted(call.step, target, before) /\ call.step \in ReadsBack
             /\ Ensured(call.step, target, before) = EnsurePFAbsent(before)
  <2>1. call.step = "pf/ensure-absent" /\ ManageAnchor
    BY <1>5, StepAt
  <2> QED BY <2>1 DEF Skips, Blocked, MarkerMissing, Drifted, Ensured, ReadsBack
<1>6. CASE Then("pfctl load", "pfctl check")
  <2>1. at = "pfctl load" /\ sys' \in {sys, Effect(at, sys)} /\ To("pfctl check")
    BY <1>6 DEF Then, Runs
  <2>2. Here = before
    BY <1>2, <2>1 DEF Reach
  <2>3. EnsurePFRules(target, before) = [before EXCEPT !.pf = identity]
    BY <1>1, <1>4, <2>1 DEF EnsurePFRules
  <2>4. Here' \in {before, EnsurePFRules(target, before)}
    BY <2>1, <2>2, <2>3, EffectAt DEF Here
  <2>5. Here' \in Reach("pfctl check", target, before) /\ "pfctl check" \in Commands(call.step)
    BY <1>4, <2>1, <2>4, CommandsOf DEF Reach
  <2> QED BY <1>6, <2>1, <2>5, KnowsNothing, Moves
<1>7. CASE Last("pfctl check", IF sys.rules = identity THEN "done" ELSE "drift")
  <2>1. at = "pfctl check" /\ sys' = sys
    BY <1>7, Reads DEF Last, Runs, Changing
  <2>2. CASE sys.rules = identity
    <3>1. Here \in {before, EnsurePFRules(target, before)} /\ Here.pf = target.identity
      BY <1>1, <1>2, <2>1, <2>2 DEF Reach
    <3>2. Here = EnsurePFRules(target, before)
      BY <1>1, <3>1 DEF EnsurePFRules, HostState
    <3>3. Here' = EnsurePFRules(target, before)
      BY <2>1, <3>2 DEF Here
    <3> QED BY <1>4, <1>7, <2>1, <2>2, <3>3, Finishes
  <2>3. CASE sys.rules # identity
    BY <1>4, <1>7, <2>1, <2>3, Finishes
  <2> QED BY <2>2, <2>3
<1>8. CASE Then("pfctl flush", "pfctl gone")
  <2>1. at = "pfctl flush" /\ sys' \in {sys, Effect(at, sys)} /\ To("pfctl gone")
    BY <1>8 DEF Then, Runs
  <2>2. Here = before
    BY <1>2, <2>1 DEF Reach
  <2>3. EnsurePFAbsent(before) = [before EXCEPT !.pf = None]
    BY <1>5, <2>1 DEF EnsurePFAbsent
  <2>4. Here' \in {before, EnsurePFAbsent(before)}
    BY <2>1, <2>2, <2>3, EffectAt DEF Here
  <2>5. Here' \in Reach("pfctl gone", target, before) /\ "pfctl gone" \in Commands(call.step)
    BY <1>5, <2>1, <2>4, CommandsOf DEF Reach
  <2> QED BY <1>8, <2>1, <2>5, KnowsNothing, Moves
<1>9. CASE Last("pfctl gone", IF sys.rules = None THEN "done" ELSE "drift")
  <2>1. at = "pfctl gone" /\ sys' = sys
    BY <1>9, Reads DEF Last, Runs, Changing
  <2>2. CASE sys.rules = None
    <3>1. Here \in {before, EnsurePFAbsent(before)} /\ Here.pf = None
      BY <1>1, <1>2, <2>1, <2>2 DEF Reach
    <3>2. Here = EnsurePFAbsent(before)
      BY <1>1, <3>1 DEF EnsurePFAbsent, HostState
    <3>3. Here' = EnsurePFAbsent(before)
      BY <2>1, <3>2 DEF Here
    <3> QED BY <1>5, <1>9, <2>1, <2>2, <3>3, Finishes
  <2>3. CASE sys.rules # None
    BY <1>5, <1>9, <2>1, <2>3, Finishes
  <2> QED BY <2>2, <2>3
<1> QED BY <1>3, <1>6, <1>7, <1>8, <1>9 DEF DrivePF

LEMMA ObserveKeeps ==
    ASSUME Inv, at # "idle", Observe
    PROVE  Inv' /\ DC!Next
<1>1. at = "observe" /\ sys' = sys
  BY Reads DEF Observe, Last, Runs, Changing
<1>2. call.step \in ObserverStep /\ Here = before /\ HostOf(sys) = before
  BY <1>1, StepAt DEF Inv, Underway, Reach, Here
<1>3. /\ ~Skips(call.step) /\ ~Blocked(call.step, target, before) /\ ~MarkerMissing(call.step, target, before)
      /\ Ensured(call.step, target, before) = before
  BY <1>2 DEF ObserverStep, Skips, Blocked, MarkerMissing, Ensured
<1>4. Here' = before
  BY <1>1, <1>2 DEF Here
<1>5. CASE Drifted(call.step, target, before)
  <2>1. Last("observe", "drift")
    BY <1>2, <1>5 DEF Observe
  <2> QED BY <1>4, <1>5, <2>1, Finishes
<1>6. CASE ~Drifted(call.step, target, before)
  <2>1. Last("observe", "done")
    BY <1>2, <1>6 DEF Observe
  <2> QED BY <1>3, <1>4, <1>6, <2>1, Finishes
<1> QED BY <1>5, <1>6

(* A command that answers, whichever driver runs.                          *)
LEMMA CommandKeeps ==
    ASSUME Inv, Command
    PROVE  Inv' /\ DC!Next
<1>1. at # "idle"
  BY DEF Command, Inv, Typed
<1> QED BY <1>1, ServicesKeep, ImageKeeps, StorageKeeps, StorageAbsentKeeps, SeedKeeps, SeedAbsentKeeps,
           GuestKeeps, PowerKeeps, VMAbsentKeeps, KeaKeeps, KeaAbsentKeeps, PFKeeps, ObserveKeeps DEF Command

LEMMA InterruptKeeps ==
    ASSUME Inv, Interrupt
    PROVE  Inv' /\ DC!Next
<1>1. at # "idle" /\ sys' \in Ends
  BY DEF Interrupt, Ends
<1>2. Sound(sys') /\ Here' \in Torn(call.step, target, before)
  BY <1>1, CommandEnds DEF Here
<1>3. CASE at \notin {"skip", "service status", "service check", "vm destroy"} /\ Return("failed")
  <2>1. ~Skips(call.step) /\ "failed" \in DC!Outcomes
    BY <1>1, <1>3, StepAt DEF DC!Outcomes
  <2> QED BY <1>1, <1>2, <1>3, <2>1, LastKeeps
<1>4. CASE at = "service check" /\ Return("drift")
  <2>1. call.step = "service/ensure-ready"
    BY <1>1, <1>4, StepAt
  <2>2. ~Skips(call.step) /\ call.step \in ReadsBack /\ "drift" \in DC!Outcomes
    BY <2>1 DEF Skips, ReadsBack, DC!Outcomes
  <2> QED BY <1>1, <1>2, <1>4, <2>2, LastKeeps
<1>5. CASE Return("killed")
  <2>1. "killed" \in DC!Outcomes
    BY DEF DC!Outcomes
  <2>2. Inv'
    BY <1>1, <1>2, <1>5, <2>1, ReturnKeeps
  <2>3. answer = "running" /\ answer' = "killed" /\ UNCHANGED <<call, before>>
    BY <1>1, <1>5, UnderwayCall DEF Return
  <2>4. DC!Killed
    BY <1>2, <2>3, KilledMaps DEF target
  <2> QED BY <2>2, <2>4 DEF DC!Next
<1> QED BY <1>3, <1>4, <1>5 DEF Interrupt

LEMMA RefuseKeeps ==
    ASSUME Inv, Refuse
    PROVE  Inv' /\ DC!Next
<1>1. at \in {"download", "read seed"} /\ Return("blocked") /\ sys' = sys /\ at # "idle"
  BY DEF Refuse
<1>2. Here = before /\ Knows
  BY <1>1 DEF Inv, Underway, Reach
<1>3. Here' = before /\ Sound(sys')
  BY <1>1, <1>2, UnderwayCall DEF Here
<1>4. CASE at = "download"
  <2>1. call.step = "image/ensure-verified" /\ ~before.image
    BY <1>1, <1>2, <1>4, StepAt DEF Knows
  <2>2. ~Skips(call.step) /\ Refusable(call.step, before) /\ "blocked" \in DC!Outcomes
    BY <2>1 DEF Skips, Refusable, DC!Outcomes
  <2> QED BY <1>1, <1>3, <2>2, LastKeeps
<1>5. CASE at = "read seed"
  <2>1. call.step = "cloudinit/ensure-seed"
    BY <1>1, <1>5, StepAt
  <2>2. ~Skips(call.step) /\ Refusable(call.step, before) /\ "blocked" \in DC!Outcomes
    BY <2>1 DEF Skips, Refusable, DC!Outcomes
  <2> QED BY <1>1, <1>3, <2>2, LastKeeps
<1> QED BY <1>1, <1>4, <1>5

(* A call starts at its first command, on the host as it is.               *)
LEMMA FirstCommand ==
    ASSUME NEW step \in DriverSteps
    PROVE  /\ First(step) \in Commands(step) /\ First(step) # "idle"
           /\ First(step) \in {"service status", "read image", "zfs create", "zfs destroy", "read seed", "rm seed.iso",
                               "mkdir", "write config", "vm list", "vm stop", "reservation-get", "reservation-drop",
                               "pfctl load", "pfctl flush", "skip", "observe"}
<1>1. Removal[1] = "vm stop"
  BY DEF Removal
<1> QED BY <1>1, HostAssumption DEF First, Commands, DriverSteps, PowerSteps, ObserverStep

LEMMA BeginKeeps ==
    ASSUME Inv, Begin
    PROVE  Inv' /\ DC!Next
<1>1. /\ at = "idle" /\ answer # "running" /\ Sound(sys) /\ op \in [action : Action, target : Target] \cup {None}
      /\ n \in Nat \ {0} /\ nth \in 1..Services /\ fresh \in BOOLEAN
  BY DEF Begin, Inv, Typed
<1>2. op' \in [action : Action, target : Target] /\ n' \in DOMAIN Plan(op'.action) /\ n' \in Nat \ {0}
  <2>1. CASE op # None /\ n <= Len(Plan(op.action)) /\ UNCHANGED <<op, n>>
    <3>1. op \in [action : Action, target : Target]
      BY <1>1, <2>1
    <3>2. Plan(op.action) \in Seq(DriverSteps)
      BY <3>1, PlanSteps
    <3> QED BY <1>1, <2>1, <3>1, <3>2
  <2>2. CASE n' = 1 /\ \E a \in Action, t \in Target : op' = [action |-> a, target |-> t]
    <3>1. op' \in [action : Action, target : Target]
      BY <2>2
    <3>2. \A a \in Action : 1 \in DOMAIN Plan(a)
      BY DEF Plan, Action, ApplySteps, ResourceSteps, DeleteSteps, ReconcileSteps
    <3> QED BY <2>2, <3>1, <3>2
  <2> QED BY <2>1, <2>2 DEF Begin
<1>3. call' = [step |-> Plan(op'.action)[n'], target |-> op'.target]
  BY DEF Begin
<1>4. call' \in DC!Call /\ call'.step \in DriverSteps
  <2>1. Plan(op'.action)[n'] \in DC!Step
    BY <1>2, SamePlanner DEF DC!Step
  <2> QED BY <1>2, <1>3, <2>1, SameTypes, CallSteps DEF DC!Call
<1>5. /\ at' = First(call'.step) /\ before' = Here /\ answer' = "running" /\ Here' = Here
      /\ sys' = sys /\ nth' = nth /\ fresh' = fresh
  BY DEF Begin, Here, locals
<1>6. Here \in HostState
  BY <1>1, HostTyped DEF Here, Sound
<1>7. at' \in Commands(call'.step) /\ at' # "idle"
  BY <1>4, <1>5, FirstCommand
<1>8. Typed'
  BY <1>1, <1>2, <1>4, <1>5, <1>6, <1>7 DEF Typed
<1>9. Here' \in Reach(at', target', before')
  BY <1>4, <1>5, FirstCommand DEF Reach
<1>10. Knows'
  BY <1>4, <1>5, FirstCommand DEF Knows
<1>11. DC!Begin
  BY <1>1, <1>4, <1>5 DEF DC!Begin, Here
<1>12. Underway'
  BY <1>4, <1>7, <1>9, <1>10 DEF Underway
<1>13. Sound(sys')
  BY <1>1, <1>5
<1> QED BY <1>8, <1>11, <1>12, <1>13 DEF Inv, DC!Next

LEMMA DisturbKeeps ==
    ASSUME Inv, Disturb
    PROVE  Inv' /\ DC!Next
<1>1. at = "idle" /\ answer # "running" /\ Sound(sys) /\ Typed
  BY DEF Disturb, Inv, Typed
<1>2. Sound(sys')
  <2>1. sys.running \in BOOLEAN /\ sys.up \in SUBSET (1..Services)
    BY <1>1 DEF Sound, Machine
  <2>2. CASE \E r \in {"none", "other"} : sys' = [sys EXCEPT !.raw = r]
    <3>1. \A r \in {"none", "image", "other"} : Sound([sys EXCEPT !.raw = r])
      BY <1>1, FieldSound
    <3> QED BY <2>2, <3>1
  <2>3. CASE sys' = [sys EXCEPT !.marker = FALSE]
    BY <1>1, <2>3, FieldSound
  <2>4. CASE sys' = [sys EXCEPT !.running = ~@]
    BY <1>1, <2>1, <2>4, FieldSound
  <2>5. CASE sys' = NoDirectory(sys)
    BY <1>1, <2>5 DEF NoDirectory, Sound, Machine
  <2>6. CASE sys' = NoVolume(sys)
    BY <1>1, <2>6 DEF NoVolume, Sound, Machine
  <2>7. CASE sys' = [sys EXCEPT !.seal = None]
    BY <1>1, <2>7, FieldSound
  <2>8. CASE sys' = [sys EXCEPT !.rules = None]
    BY <1>1, <2>8, FieldSound
  <2>9. CASE \E i \in Identities, r \in {"none", "other"} : sys' = [sys EXCEPT !.res[i] = r]
    <3>1. \A i \in Identities, r \in {"none", "other", "match"} : Sound([sys EXCEPT !.res[i] = r])
      BY <1>1, FieldSound
    <3> QED BY <2>9, <3>1
  <2>10. CASE \E k \in sys.up : sys' = [sys EXCEPT !.up = @ \ {k}]
    <3>1. \A u \in SUBSET (1..Services) : Sound([sys EXCEPT !.up = u])
      BY <1>1, FieldSound
    <3>2. \A k : sys.up \ {k} \in SUBSET (1..Services)
      BY <2>1
    <3> QED BY <2>10, <3>1, <3>2
  <2> QED BY <2>2, <2>3, <2>4, <2>5, <2>6, <2>7, <2>8, <2>9, <2>10 DEF Disturb
<1>3. /\ call' = None /\ answer' = "killed" /\ at' = "idle"
      /\ UNCHANGED <<op, n, nth, fresh, before>>
  BY <1>1 DEF Disturb, locals
<1>4. Typed'
  BY <1>1, <1>3 DEF Typed, DC!Outcomes
<1>5. Here' \in HostState
  BY <1>2, HostTyped DEF Here, Sound
<1>6. DC!Disturb
  BY <1>1, <1>3, <1>5, SameTypes DEF DC!Disturb, Here
<1> QED BY <1>2, <1>3, <1>4, <1>6 DEF Inv, Underway, DC!Next

(***************************************************************************)
(* The theorems.                                                           *)
(***************************************************************************)
LEMMA InitKeeps == Init => Inv /\ DC!Init
<1> SUFFICES ASSUME Init PROVE Inv /\ DC!Init
  OBVIOUS
<1>1. Sound(EmptyMachine)
  BY DEF Sound, Machine, EmptyMachine
<1>2. HostOf(EmptyMachine) = EmptyHost /\ HostOf(EmptyMachine) \in HostState
  <2>1. \A i \in Identities : EmptyMachine.res[i] = "none"
    BY DEF EmptyMachine
  <2>2. {i \in Identities : EmptyMachine.res[i] # "none"} = {}
    BY <2>1
  <2>3. HostOf(EmptyMachine) = EmptyHost
    BY <2>2 DEF HostOf, EmptyMachine, EmptyHost
  <2> QED BY <1>1, <2>3, HostTyped DEF Sound
<1>3. Typed
  <2>1. 1 \in 1..Services
    BY DriversAssumption
  <2>2. answer \in DC!Outcomes /\ answer # "running"
    BY DEF Init, DC!Outcomes
  <2>3. nth \in 1..Services /\ fresh \in BOOLEAN /\ n \in Nat \ {0}
    <3>1. nth = 1 /\ fresh = FALSE /\ n = 1
      BY DEF Init
    <3>2. n \in Nat \ {0}
      BY <3>1
    <3>3. nth \in 1..Services
      BY <2>1, <3>1
    <3>4. fresh \in BOOLEAN
      BY <3>1
    <3> QED BY <3>2, <3>3, <3>4
  <2>4. before \in HostState
    BY <1>2 DEF Init
  <2> QED BY <2>2, <2>3, <2>4 DEF Init, Typed
<1>4. DC!Init
  BY <1>2, SameTypes DEF Init, DC!Init
<1> QED BY <1>1, <1>3, <1>4 DEF Init, Inv, Underway

(* Every step keeps the invariant, and is a step of DriverCall or none.    *)
LEMMA StepKeeps == Inv /\ [Next]_vars => Inv' /\ [DC!Next]_DC!vars
<1> SUFFICES ASSUME Inv, [Next]_vars PROVE Inv' /\ [DC!Next]_DC!vars
  OBVIOUS
<1>1. CASE Next
  BY <1>1, BeginKeeps, CommandKeeps, InterruptKeeps, RefuseKeeps, DisturbKeeps DEF Next
<1>2. CASE UNCHANGED vars
  <2>1. UNCHANGED <<sys, op, n, call, at, fresh, nth, before, answer>>
    BY <1>2 DEF vars
  <2>2. UNCHANGED DC!vars
    BY <2>1 DEF DC!vars
  <2>3. Typed' /\ Sound(sys')
    BY <2>1 DEF Inv, Typed
  <2>4. Underway'
    BY <2>1 DEF Inv, Underway, Here, Knows, target, manifest, identity
  <2> QED BY <2>2, <2>3, <2>4 DEF Inv
<1> QED BY <1>1, <1>2

(* After any number of faults and of changes by others, the machine is     *)
(* sound, and a running call has left a host that its commands can leave   *)
(* and knows of it only what is so.                                        *)
THEOREM DriversInvariant == Spec => []Inv
BY InitKeeps, StepKeeps, PTL DEF Spec

(* Whatever interrupted ensureStorage, for any disk size and number of     *)
(* faults: a zvol that carries the image identity holds the whole image.   *)
THEOREM StampTrusted == Spec => []StampMeansImage
<1>1. Inv => StampMeansImage
  BY DEF Inv, Sound, StampMeansImage
<1> QED BY <1>1, DriversInvariant, PTL

(* The drivers, command by command and cut off anywhere, implement the one *)
(* step that module Execution takes a driver call for.                     *)
THEOREM DriversFollowCall == Spec => FollowsCall
BY InitKeeps, StepKeeps, DriversInvariant, PTL DEF Spec, FollowsCall, DC!Spec

(* A step of a call leaves the host torn at most, and of the same call.    *)
LEMMA CallLeaves ==
    ASSUME Inv, Command \/ Interrupt \/ Refuse
    PROVE  /\ at # "idle" /\ UNCHANGED <<call, before>> /\ sys' \in Ends
           /\ Here' \in Torn(call.step, target, before)
<1>1. at # "idle"
  BY DEF Command, Interrupt, Refuse, Inv, Typed
<1>2. UNCHANGED <<call, before>>
  <2>1. CASE Command
    BY <2>1 DEF Command, EnsureServices, DriveImage, DriveStorage, DriveStorageAbsent, DriveSeed, DriveSeedAbsent,
                DriveGuest, DrivePower, DriveVMAbsent, DriveKea, DriveKeaAbsent, DrivePF, Observe,
                Then, Last, To, Return
  <2>2. CASE Interrupt \/ Refuse
    BY <2>2 DEF Interrupt, Refuse, Return
  <2> QED BY <2>1, <2>2
<1>3. sys' \in Ends
  <2>1. CASE Command
    BY <2>1 DEF Command, EnsureServices, DriveImage, DriveStorage, DriveStorageAbsent, DriveSeed, DriveSeedAbsent,
                DriveGuest, DrivePower, DriveVMAbsent, DriveKea, DriveKeaAbsent, DrivePF, Observe,
                Then, Last, Runs, Ends
  <2>2. CASE Interrupt \/ Refuse
    BY <2>2 DEF Interrupt, Refuse, Ends
  <2> QED BY <2>1, <2>2
<1> QED BY <1>1, <1>2, <1>3, CommandEnds DEF Here

LEMMA RepairKeeps == Inv /\ RetryRepairs /\ [Next]_vars => RetryRepairs'
<1> SUFFICES ASSUME Inv, RetryRepairs, [Next]_vars PROVE RetryRepairs'
  OBVIOUS
<1>1. CASE Command \/ Interrupt \/ Refuse
  <2>1. at # "idle" /\ UNCHANGED <<call, before>> /\ Here' \in Torn(call.step, target, before)
    BY <1>1, CallLeaves
  <2>2. before \in HostState /\ target \in Target
    BY <2>1, UnderwayCall
  <2>3. Repaired(call.step, target, before, Here')
    BY <2>1, <2>2, TornRepaired
  <2> QED BY <2>1, <2>3, SameEnsured DEF RetryRepairs, DC!RetryRepairs, Repaired, Here, target
<1>2. CASE Begin
  BY <1>2 DEF Begin, RetryRepairs, DC!RetryRepairs
<1>3. CASE Disturb
  BY <1>3 DEF Disturb, RetryRepairs, DC!RetryRepairs
<1>4. CASE UNCHANGED vars
  BY <1>4 DEF vars, RetryRepairs, DC!RetryRepairs, HostOf
<1> QED BY <1>1, <1>2, <1>3, <1>4 DEF Next

(* For every host, manifest and number of faults: making an interrupted    *)
(* call again repairs what its commands have left, but for the two         *)
(* exceptions named in module DriverCall.                                  *)
THEOREM DriversRepair == Spec => []RetryRepairs
<1>1. Init => RetryRepairs
  BY DEF Init, RetryRepairs, DC!RetryRepairs
<1> QED BY <1>1, RepairKeeps, DriversInvariant, PTL DEF Spec

(***************************************************************************)
(* What a call that answers "done" has delivered.                          *)
(***************************************************************************)

(* What the commands so far have done that the host does not show.         *)
Progress ==
    /\ at = "idle" => nth = 1
    /\ at \in {"service status", "service start", "service check"} => \A k \in 1..Services : k < nth => k \in sys.up
    /\ at = "mark seed" => sys.iso = manifest
    /\ at = "rm marker" => sys.iso = None

ProgressInv == Progress /\ DoneHolds

(* A step that leaves the call without success.                            *)
LEMMA NotDone ==
    ASSUME NEW outcome, Return(outcome), outcome # "done"
    PROVE  ProgressInv'
BY DEF Return, ProgressInv, Progress, DoneHolds

(* A step that goes on, where the next command needs no knowledge.         *)
LEMMA GoesOn ==
    ASSUME Inv, at # "idle", NEW label, To(label), label # "idle",
           label \notin {"service status", "service start", "service check", "mark seed", "rm marker"}
    PROVE  ProgressInv'
<1>1. answer' = "running" /\ at' = label
  BY UnderwayCall DEF To
<1> QED BY <1>1 DEF ProgressInv, Progress, DoneHolds

(* A step that ends the call with success.                                 *)
LEMMA IsDone ==
    ASSUME Return("done"), Delivered(call.step)'
    PROVE  ProgressInv'
BY DEF Return, ProgressInv, Progress, DoneHolds

LEMMA DeliveredOf ==
    /\ call'.step = "service/ensure-ready" => (Delivered(call.step)' <=> sys'.up = 1..Services)
    /\ call'.step = "image/ensure-verified" => (Delivered(call.step)' <=> sys'.raw = "image" /\ sys'.marker)
    /\ call'.step = "zfs/ensure-storage" =>
          (Delivered(call.step)' <=> sys'.zvol = manifest'.disk /\ sys'.content = "image" /\ sys'.stamp)
    /\ call'.step = "zfs/ensure-absent" => (Delivered(call.step)' <=> ~sys'.dataset /\ sys'.zvol = 0)
    /\ call'.step = "cloudinit/ensure-seed" => (Delivered(call.step)' <=> sys'.iso = manifest' /\ sys'.seal = manifest')
    /\ call'.step = "cloudinit/ensure-absent" => (Delivered(call.step)' <=> sys'.iso = None /\ sys'.seal = None)
    /\ call'.step = "vmbhyve/ensure-definition" => Delivered(call.step)'
    /\ call'.step = "vmbhyve/ensure-config" => (Delivered(call.step)' <=> sys'.config = target')
    /\ call'.step = "vmbhyve/ensure-power-state" =>
          (Delivered(call.step)' <=> sys'.running = (manifest'.power = "running"))
    /\ call'.step = "vmbhyve/ensure-stopped" => (Delivered(call.step)' <=> ~sys'.running)
    /\ call'.step = "vmbhyve/ensure-absent" => (Delivered(call.step)' <=> sys'.config = None)
    /\ call'.step = "kea/ensure-reservation" => (Delivered(call.step)' <=> sys'.res[identity'] = "match")
    /\ call'.step = "kea/ensure-absent" => (Delivered(call.step)' <=> sys'.res[identity'] = "none")
    /\ call'.step = "pf/ensure-rules" => (Delivered(call.step)' <=> sys'.rules = identity')
    /\ call'.step = "pf/ensure-absent" => (Delivered(call.step)' <=> sys'.rules = None)
    /\ call'.step \in ObserverStep => Delivered(call.step)'
BY DEF Delivered, ObserverStep

(* The call, and what is being ensured, stay the same while it runs.       *)
LEMMA SameCall ==
    ASSUME UNCHANGED call
    PROVE  target' = target /\ manifest' = manifest /\ identity' = identity
BY DEF target, manifest, identity

LEMMA ServicesProgress ==
    ASSUME Inv, ProgressInv, at # "idle", EnsureServices
    PROVE  ProgressInv'
<1>1. at \in {"service status", "service start", "service check"} /\ sys' \in {sys, Effect(at, sys)}
  BY DEF EnsureServices, Then, Last, Runs
<1>2. call.step = "service/ensure-ready" /\ answer = "running" /\ sys \in Machine
  BY <1>1, StepAt, UnderwayCall
<1>3. nth \in 1..Services /\ \A k \in 1..Services : k < nth => k \in sys.up
  BY <1>1 DEF Inv, Typed, ProgressInv, Progress
<1>4. sys.up \subseteq sys'.up
  <2>1. CASE sys' = sys
    BY <2>1
  <2>2. CASE at = "service start" /\ sys' = Effect(at, sys)
    <3>1. sys' = [sys EXCEPT !.up = @ \cup {nth}]
      BY <2>2 DEF Effect
    <3> QED BY <1>2, <3>1 DEF Machine
  <2>3. CASE at # "service start" /\ sys' = Effect(at, sys)
    BY <1>1, <2>3, Reads DEF Changing
  <2> QED BY <1>1, <2>1, <2>2, <2>3
<1>5. ASSUME NEW label \in {"service status", "service start", "service check"}, To(label), nth' = nth
      PROVE  ProgressInv'
  BY <1>2, <1>3, <1>4, <1>5 DEF To, ProgressInv, Progress, DoneHolds
<1>6. ASSUME nth \in sys.up, To("service status"), nth' = nth + 1
      PROVE  ProgressInv'
  <2>1. \A k \in 1..Services : k < nth' => k \in sys'.up
    <3> SUFFICES ASSUME NEW k \in 1..Services, k < nth + 1 PROVE k \in sys.up
      BY <1>4, <1>6
    <3>1. k < nth \/ k = nth
      BY <1>3
    <3> QED BY <1>3, <1>6, <3>1
  <2> QED BY <1>2, <1>6, <2>1 DEF To, ProgressInv, Progress, DoneHolds
<1>7. ASSUME nth \in sys.up, ~MoreServices, Last("service check", "done")
      PROVE  ProgressInv'
  <2>1. sys' = sys /\ Return("done") /\ call' = call
    BY <1>7, Reads DEF Last, Changing, Return
  <2>2. \A k \in 1..Services : k \in sys.up
    <3>1. nth \in 1..Services /\ ~(nth < Services) /\ Services \in Nat
      BY <1>3, <1>7, DriversAssumption DEF MoreServices
    <3>2. \A k \in 1..Services : k < nth \/ k = nth
      BY <3>1
    <3> QED BY <1>3, <1>7, <3>2
  <2>3. sys'.up = 1..Services
    BY <1>2, <2>1, <2>2 DEF Machine
  <2>4. Delivered(call.step)'
    BY <1>2, <2>1, <2>3, DeliveredOf
  <2> QED BY <2>1, <2>4, IsDone
<1>8. ASSUME Return("drift") PROVE ProgressInv'
  BY <1>8, NotDone
<1> QED BY <1>5, <1>6, <1>7, <1>8 DEF EnsureServices, Then, Last, locals

LEMMA ImageProgress ==
    ASSUME Inv, at # "idle", DriveImage
    PROVE  ProgressInv'
<1>1. CASE Then("read image", "download") \/ Then("download", "rename image") \/ Then("rename image", "mark image")
  BY <1>1, GoesOn DEF Then
<1>2. ASSUME NEW c \in {"read image", "mark image"}, Last(c, "done"), c = "read image" => HostOf(sys).image
      PROVE  ProgressInv'
  <2>1. at = c /\ sys' = Effect(c, sys) /\ Return("done") /\ call' = call
    BY <1>2 DEF Last, Runs, Checked, Return
  <2>2. call.step = "image/ensure-verified" /\ sys \in Machine /\ Knows
    BY <2>1, StepAt, UnderwayCall DEF Inv, Underway
  <2>3. sys'.raw = "image" /\ sys'.marker
    <3>1. CASE c = "read image"
      <4>1. sys' = sys
        BY <2>1, <3>1, Reads DEF Changing
      <4> QED BY <1>2, <3>1, <4>1 DEF HostOf
    <3>2. CASE c = "mark image"
      <4>1. sys' = [sys EXCEPT !.marker = TRUE]
        BY <2>1, <3>2 DEF Effect
      <4> QED BY <2>1, <2>2, <3>2, <4>1 DEF Machine, Knows
    <3> QED BY <3>1, <3>2
  <2>4. Delivered(call.step)'
    BY <2>1, <2>2, <2>3, DeliveredOf
  <2> QED BY <2>1, <2>4, IsDone
<1> QED BY <1>1, <1>2 DEF DriveImage

LEMMA StorageProgress ==
    ASSUME Inv, at # "idle", DriveStorage
    PROVE  ProgressInv'
<1>1. ASSUME NEW outcome \in {"blocked", "failed"}, Return(outcome) PROVE ProgressInv'
  BY <1>1, NotDone
<1>2. ASSUME NEW label \in {"verify storage", "dd", "zfs set", "read identity"}, To(label) PROVE ProgressInv'
  BY <1>2, GoesOn
<1>3. ASSUME sys.stamp, Last("read identity", "done") PROVE ProgressInv'
  <2>1. at = "read identity" /\ sys' = sys /\ Return("done") /\ call' = call
    BY <1>3, Reads DEF Last, Runs, Changing, Return
  <2>2. call.step = "zfs/ensure-storage" /\ Sound(sys) /\ Knows /\ Here \in Reach(at, target, before)
    BY <2>1, StepAt, UnderwayCall DEF Inv, Underway
  <2>3. /\ before \in HostState /\ manifest = target.manifest /\ Here.disk = sys.zvol
        /\ before.disk \in {0, manifest.disk} /\ Here = EnsureStorage(target, before)
    BY <2>1, <2>2, UnderwayCall, HereFields DEF Knows, Reach
  <2>4. sys.zvol = manifest.disk
    BY <2>3 DEF EnsureStorage, HostState
  <2>5. sys.content = "image"
    BY <1>3, <2>2 DEF Sound
  <2>6. manifest' = manifest
    BY <2>1, SameCall
  <2>7. Delivered(call.step)'
    BY <1>3, <2>1, <2>2, <2>4, <2>5, <2>6, DeliveredOf
  <2> QED BY <2>1, <2>7, IsDone
<1>4. Written[1] = "dd" /\ Written[1 + 1] = "zfs set" /\ Written[2 + 1] = "read identity"
  BY DEF Written
<1>5. Last("read identity", IdentityRead) =>
          (sys.stamp /\ Last("read identity", "done")) \/ Return("blocked")
  BY DEF IdentityRead, Last
<1>6. (\E k \in {1, 2} : Then(Written[k], Written[k + 1])) => To("zfs set") \/ To("read identity")
  BY <1>4 DEF Then
<1>7. Then("verify storage", IF fresh THEN Written[1] ELSE "read identity") => To("dd") \/ To("read identity")
  BY <1>4 DEF Then
<1>8. \/ \E outcome \in {"blocked", "failed"} : Return(outcome)
      \/ \E label \in {"verify storage", "dd", "zfs set", "read identity"} : To(label)
      \/ sys.stamp /\ Last("read identity", "done")
  BY <1>5, <1>6, <1>7 DEF DriveStorage, Last
<1> QED BY <1>1, <1>2, <1>3, <1>8

LEMMA StorageAbsentProgress ==
    ASSUME Inv, at # "idle", DriveStorageAbsent
    PROVE  ProgressInv'
<1>1. CASE Then("zfs destroy", "zfs list")
  BY <1>1, GoesOn DEF Then
<1>2. CASE sys.dataset /\ Last("zfs list", "drift")
  BY <1>2, NotDone DEF Last
<1>3. CASE ~sys.dataset /\ Last("zfs list", "done")
  <2>1. at = "zfs list" /\ sys' = sys /\ Return("done") /\ call' = call
    BY <1>3, Reads DEF Last, Runs, Changing, Return
  <2>2. call.step = "zfs/ensure-absent" /\ Sound(sys)
    BY <2>1, StepAt, UnderwayCall
  <2>3. sys.zvol = 0
    BY <1>3, <2>2 DEF Sound
  <2>4. Delivered(call.step)'
    BY <1>3, <2>1, <2>2, <2>3, DeliveredOf
  <2> QED BY <2>1, <2>4, IsDone
<1> QED BY <1>1, <1>2, <1>3 DEF DriveStorageAbsent

LEMMA SeedProgress ==
    ASSUME Inv, ProgressInv, at # "idle", DriveSeed
    PROVE  ProgressInv'
<1>1. ASSUME NEW c \in {"read seed", "mark seed"}, Last(c, "done"), c = "read seed" => Sealed
      PROVE  ProgressInv'
  <2>1. at = c /\ sys' = Effect(c, sys) /\ Return("done") /\ call' = call
    BY <1>1 DEF Last, Runs, Checked, Return
  <2>2. call.step = "cloudinit/ensure-seed" /\ sys \in Machine /\ manifest' = manifest
    BY <2>1, StepAt, UnderwayCall, SameCall
  <2>3. sys'.iso = manifest /\ sys'.seal = manifest
    <3>1. CASE c = "read seed"
      <4>1. sys' = sys
        BY <2>1, <3>1, Reads DEF Changing
      <4> QED BY <1>1, <3>1, <4>1 DEF Sealed
    <3>2. CASE c = "mark seed"
      <4>1. sys' = [sys EXCEPT !.seal = manifest]
        BY <2>1, <3>2 DEF Effect
      <4>2. sys.iso = manifest
        BY <2>1, <3>2 DEF ProgressInv, Progress
      <4> QED BY <2>2, <4>1, <4>2 DEF Machine
    <3> QED BY <3>1, <3>2
  <2>4. Delivered(call.step)'
    BY <2>1, <2>2, <2>3, DeliveredOf
  <2> QED BY <2>1, <2>4, IsDone
<1>2. CASE Then("read seed", "rename seed")
  BY <1>2, GoesOn DEF Then
<1>3. CASE Then("rename seed", "mark seed")
  <2>1. at = "rename seed" /\ sys' = Effect(at, sys) /\ To("mark seed") /\ answer = "running"
    BY <1>3, UnderwayCall DEF Then, Runs, Checked
  <2>2. sys' = [sys EXCEPT !.iso = manifest] /\ sys \in Machine
    BY <2>1, UnderwayCall DEF Effect
  <2>3. manifest' = manifest
    BY <2>1, SameCall DEF To
  <2>4. sys'.iso = manifest'
    BY <2>2, <2>3 DEF Machine
  <2> QED BY <2>1, <2>4 DEF To, ProgressInv, Progress, DoneHolds
<1> QED BY <1>1, <1>2, <1>3 DEF DriveSeed

LEMMA SeedAbsentProgress ==
    ASSUME Inv, ProgressInv, at # "idle", DriveSeedAbsent
    PROVE  ProgressInv'
<1>1. CASE Then("rm seed.iso", "rm marker")
  <2>1. at = "rm seed.iso" /\ sys' = Effect(at, sys) /\ To("rm marker") /\ answer = "running" /\ sys \in Machine
    BY <1>1, UnderwayCall DEF Then, Runs, Checked
  <2>2. sys' = [sys EXCEPT !.iso = None]
    BY <2>1 DEF Effect
  <2>3. sys'.iso = None
    BY <2>1, <2>2 DEF Machine
  <2> QED BY <2>1, <2>3 DEF To, ProgressInv, Progress, DoneHolds
<1>2. CASE Last("rm marker", "done")
  <2>1. at = "rm marker" /\ sys' = Effect(at, sys) /\ Return("done") /\ call' = call
    BY <1>2 DEF Last, Runs, Checked, Return
  <2>2. call.step = "cloudinit/ensure-absent" /\ sys \in Machine /\ sys.iso = None
    BY <2>1, StepAt, UnderwayCall DEF ProgressInv, Progress
  <2>3. sys' = [sys EXCEPT !.seal = None]
    BY <2>1 DEF Effect
  <2>4. sys'.iso = None /\ sys'.seal = None
    BY <2>2, <2>3 DEF Machine
  <2>5. Delivered(call.step)'
    BY <2>1, <2>2, <2>4, DeliveredOf
  <2> QED BY <2>1, <2>5, IsDone
<1> QED BY <1>1, <1>2 DEF DriveSeedAbsent

LEMMA GuestProgress ==
    ASSUME Inv, at # "idle", DriveGuest
    PROVE  ProgressInv'
<1>1. /\ at \in {"mkdir", "write config"} /\ Return("done") /\ call' = call
      /\ sys' = Effect(at, sys) /\ sys \in Machine
  BY UnderwayCall DEF DriveGuest, Last, Runs, Checked, Return
<1>2. CASE at = "mkdir"
  <2>1. call.step = "vmbhyve/ensure-definition"
    BY <1>2, StepAt
  <2>2. Delivered(call.step)'
    BY <1>1, <2>1, DeliveredOf
  <2> QED BY <1>1, <2>2, IsDone
<1>3. CASE at = "write config"
  <2>1. call.step = "vmbhyve/ensure-config"
    BY <1>3, StepAt
  <2>2. sys' = [sys EXCEPT !.config = target] /\ target' = target
    BY <1>1, <1>3, SameCall DEF Effect
  <2>3. sys'.config = target'
    BY <1>1, <2>2 DEF Machine
  <2>4. Delivered(call.step)'
    BY <1>1, <2>1, <2>3, DeliveredOf
  <2> QED BY <1>1, <2>4, IsDone
<1> QED BY <1>1, <1>2, <1>3

LEMMA PowerProgress ==
    ASSUME Inv, at # "idle", DrivePower
    PROVE  ProgressInv'
<1>1. CASE Then("vm list", "vm start or stop")
  BY <1>1, GoesOn DEF Then
<1>2. CASE Last("vm list", "blocked")
  BY <1>2, NotDone DEF Last
<1>3. ASSUME NEW c \in {"vm list", "vm start or stop"}, Last(c, "done"),
             c = "vm list" => sys.running = (Power = "running")
      PROVE  ProgressInv'
  <2>1. at = c /\ sys' = Effect(c, sys) /\ Return("done") /\ call' = call
    BY <1>3 DEF Last, Runs, Checked, Return
  <2>2. call.step \in PowerSteps /\ sys \in Machine /\ manifest' = manifest
    BY <2>1, StepAt, UnderwayCall, SameCall
  <2>3. sys'.running = (Power = "running")
    <3>1. CASE c = "vm list"
      <4>1. sys' = sys
        BY <2>1, <3>1, Reads DEF Changing
      <4> QED BY <1>3, <3>1, <4>1
    <3>2. CASE c = "vm start or stop"
      <4>1. sys' = [sys EXCEPT !.running = (Power = "running")]
        BY <2>1, <3>2 DEF Effect
      <4> QED BY <2>2, <4>1 DEF Machine
    <3> QED BY <3>1, <3>2
  <2>4. Delivered(call.step)'
    <3>1. CASE call.step = "vmbhyve/ensure-stopped"
      BY <2>1, <2>3, <3>1, DeliveredOf DEF Power
    <3>2. CASE call.step = "vmbhyve/ensure-power-state"
      BY <2>1, <2>2, <2>3, <3>2, DeliveredOf DEF Power
    <3> QED BY <2>2, <3>1, <3>2 DEF PowerSteps
  <2> QED BY <2>1, <2>4, IsDone
<1> QED BY <1>1, <1>2, <1>3 DEF DrivePower

LEMMA VMAbsentProgress ==
    ASSUME Inv, at # "idle", DriveVMAbsent
    PROVE  ProgressInv'
<1>0. Removal[1] = "vm stop" /\ Removal[2] = "vm destroy"
  BY DEF Removal
<1>1. ASSUME NEW label \in {"vm destroy", "rm files"}, To(label) PROVE ProgressInv'
  BY <1>1, GoesOn
<1>2. ASSUME NEW c \in {"vm stop", "vm destroy", "rm files"}, Last(c, "done"),
             c = "vm stop" => sys.config = None
      PROVE  ProgressInv'
  <2>1. at = c /\ sys' = Effect(c, sys) /\ Return("done") /\ call' = call
    BY <1>2 DEF Last, Runs, Checked, Return
  <2>2. call.step = "vmbhyve/ensure-absent" /\ sys \in Machine
    BY <2>1, StepAt, UnderwayCall
  <2>3. sys'.config = None
    <3>1. CASE c = "vm stop"
      BY <1>2, <2>1, <3>1 DEF Effect
    <3>2. CASE c \in {"vm destroy", "rm files"}
      <4>1. sys' = NoDirectory(sys)
        BY <2>1, <3>2 DEF Effect
      <4> QED BY <2>2, <4>1 DEF NoDirectory, Machine
    <3> QED BY <3>1, <3>2
  <2>4. Delivered(call.step)'
    BY <2>1, <2>2, <2>3, DeliveredOf
  <2> QED BY <2>1, <2>4, IsDone
<1> QED BY <1>0, <1>1, <1>2 DEF DriveVMAbsent, Then

LEMMA KeaProgress ==
    ASSUME Inv, at # "idle", DriveKea
    PROVE  ProgressInv'
<1>1. ASSUME NEW label \in {"reservation-add", "reservation-update", "reservation-check", "reservation-del"}, To(label)
      PROVE  ProgressInv'
  BY <1>1, GoesOn
<1>2. CASE sys.res[identity] # "match" /\ Last("reservation-check", "drift")
  BY <1>2, NotDone DEF Last
<1>3. CASE sys.res[identity] = "match" /\ Last("reservation-check", "done")
  <2>1. at = "reservation-check" /\ sys' = sys /\ Return("done") /\ call' = call
    BY <1>3, Reads DEF Last, Runs, Changing, Return
  <2>2. call.step = "kea/ensure-reservation" /\ identity' = identity
    BY <2>1, StepAt, SameCall
  <2>3. Delivered(call.step)'
    BY <1>3, <2>1, <2>2, DeliveredOf
  <2> QED BY <2>1, <2>3, IsDone
<1>4. sys.res[identity] \in {"none", "other", "match"}
  BY UnderwayCall DEF Machine
<1>5. QED
  <2>1. Then("reservation-get", CASE sys.res[identity] = "none"  -> "reservation-add"
                                  [] sys.res[identity] = "other" -> "reservation-update"
                                  [] sys.res[identity] = "match" -> "reservation-check")
          => \E label \in {"reservation-add", "reservation-update", "reservation-check"} : To(label)
    BY <1>4 DEF Then
  <2> QED BY <1>1, <1>2, <1>3, <2>1 DEF DriveKea, Then

LEMMA KeaAbsentProgress ==
    ASSUME Inv, at # "idle", DriveKeaAbsent
    PROVE  ProgressInv'
<1>1. CASE Then("reservation-drop", "reservation-gone")
  BY <1>1, GoesOn DEF Then
<1>2. CASE sys.res[identity] # "none" /\ Last("reservation-gone", "drift")
  BY <1>2, NotDone DEF Last
<1>3. CASE sys.res[identity] = "none" /\ Last("reservation-gone", "done")
  <2>1. at = "reservation-gone" /\ sys' = sys /\ Return("done") /\ call' = call
    BY <1>3, Reads DEF Last, Runs, Changing, Return
  <2>2. call.step = "kea/ensure-absent" /\ identity' = identity
    BY <2>1, StepAt, SameCall
  <2>3. Delivered(call.step)'
    BY <1>3, <2>1, <2>2, DeliveredOf
  <2> QED BY <2>1, <2>3, IsDone
<1> QED BY <1>1, <1>2, <1>3 DEF DriveKeaAbsent

LEMMA PFProgress ==
    ASSUME Inv, at # "idle", DrivePF
    PROVE  ProgressInv'
<1>1. CASE Then("pfctl load", "pfctl check") \/ Then("pfctl flush", "pfctl gone")
  BY <1>1, GoesOn DEF Then
<1>2. ASSUME NEW outcome \in {"skipped", "drift"}, Return(outcome) PROVE ProgressInv'
  BY <1>2, NotDone
<1>3. ASSUME NEW c \in {"pfctl check", "pfctl gone"}, Last(c, "done"),
             sys.rules = IF c = "pfctl check" THEN identity ELSE None
      PROVE  ProgressInv'
  <2>1. at = c /\ sys' = sys /\ Return("done") /\ call' = call
    BY <1>3, Reads DEF Last, Runs, Changing, Return
  <2>2. call.step = (IF c = "pfctl check" THEN "pf/ensure-rules" ELSE "pf/ensure-absent") /\ identity' = identity
    BY <1>3, <2>1, StepAt, SameCall
  <2>3. Delivered(call.step)'
    BY <1>3, <2>1, <2>2, DeliveredOf
  <2> QED BY <2>1, <2>3, IsDone
<1> QED BY <1>1, <1>2, <1>3 DEF DrivePF, Last

LEMMA ObserveProgress ==
    ASSUME Inv, at # "idle", Observe
    PROVE  ProgressInv'
<1>1. at = "observe" /\ call' = call
  BY DEF Observe, Last, Runs, Return
<1>2. call.step \in ObserverStep
  BY <1>1, StepAt
<1>3. Delivered(call.step)'
  BY <1>1, <1>2, DeliveredOf
<1> QED BY <1>3, IsDone, NotDone DEF Observe, Last

LEMMA ProgressKeeps == Inv /\ ProgressInv /\ [Next]_vars => ProgressInv'
<1> SUFFICES ASSUME Inv, ProgressInv, [Next]_vars PROVE ProgressInv'
  OBVIOUS
<1>1. CASE Command
  <2>1. at # "idle"
    BY <1>1 DEF Command, Inv, Typed
  <2> QED BY <1>1, <2>1, ServicesProgress, ImageProgress, StorageProgress, StorageAbsentProgress, SeedProgress,
             SeedAbsentProgress, GuestProgress, PowerProgress, VMAbsentProgress, KeaProgress, KeaAbsentProgress,
             PFProgress, ObserveProgress DEF Command
<1>2. CASE Interrupt \/ Refuse
  BY <1>2, NotDone DEF Interrupt, Refuse
<1>3. CASE Begin
  <2>1. call'.step \in DriverSteps /\ at' = First(call'.step)
    <3>1. Inv' /\ answer' = "running" /\ at' = First(call'.step)
      BY <1>3, BeginKeeps DEF Begin
    <3>2. call' \in DC!Call
      BY <3>1 DEF Inv, Typed, Underway
    <3> QED BY <3>1, <3>2, CallSteps DEF DC!Call
  <2>2. at' \notin {"mark seed", "rm marker", "idle"}
    BY <2>1, FirstCommand
  <2>3. nth' = 1 /\ answer' = "running"
    BY <1>3 DEF Begin, ProgressInv, Progress, locals
  <2>4. \A k \in 1..Services : ~(k < nth')
    BY <2>3, DriversAssumption
  <2> QED BY <2>2, <2>3, <2>4 DEF ProgressInv, Progress, DoneHolds
<1>4. CASE Disturb
  BY <1>4 DEF Disturb, ProgressInv, Progress, DoneHolds, locals
<1>5. CASE UNCHANGED vars
  BY <1>5 DEF vars, ProgressInv, Progress, DoneHolds, Delivered, target, manifest, identity
<1> QED BY <1>1, <1>2, <1>3, <1>4, <1>5 DEF Next

(* A call that reports success has left on the machine all that its step   *)
(* is for, for every manifest, number of services and number of faults.    *)
THEOREM DoneDelivers == Spec => []DoneHolds
<1>1. Init => ProgressInv
  BY DEF Init, ProgressInv, Progress, DoneHolds
<1>2. ProgressInv => DoneHolds
  BY DEF ProgressInv
<1> QED BY <1>1, <1>2, ProgressKeeps, DriversInvariant, PTL DEF Spec

(***************************************************************************)
(* Plans: what was ensured before the step that runs.                      *)
(***************************************************************************)
LEMMA ApplyPlan ==
    /\ Len(ApplySteps) = IF ManageServices THEN 10 ELSE 9
    /\ ManageServices => \A i \in 1..10 : ApplySteps[i] = "zfs/ensure-storage" <=> i = 3
    /\ ManageServices => \A i \in 1..10 : ApplySteps[i] = "vmbhyve/ensure-power-state" <=> i = 9
    /\ ~ManageServices => \A i \in 1..9 : ApplySteps[i] = "zfs/ensure-storage" <=> i = 2
    /\ ~ManageServices => \A i \in 1..9 : ApplySteps[i] = "vmbhyve/ensure-power-state" <=> i = 8
<1>1. Len(ApplySteps) = IF ManageServices THEN 10 ELSE 9
  BY DEF ApplySteps, ResourceSteps
<1>2. ManageServices => \A i \in 1..10 : ApplySteps[i] = "zfs/ensure-storage" <=> i = 3
  BY DEF ApplySteps, ResourceSteps
<1>3. ManageServices => \A i \in 1..10 : ApplySteps[i] = "vmbhyve/ensure-power-state" <=> i = 9
  BY DEF ApplySteps, ResourceSteps
<1>4. ~ManageServices => \A i \in 1..9 : ApplySteps[i] = "zfs/ensure-storage" <=> i = 2
  BY DEF ApplySteps, ResourceSteps
<1>5. ~ManageServices => \A i \in 1..9 : ApplySteps[i] = "vmbhyve/ensure-power-state" <=> i = 8
  BY DEF ApplySteps, ResourceSteps
<1> QED BY <1>1, <1>2, <1>3, <1>4, <1>5

LEMMA StorageBeforePower ==
    ASSUME NEW a \in Action
    PROVE  /\ Len(Plan(a)) \in 1..10
           /\ \A i \in 1..Len(Plan(a)) : Plan(a)[i] = "vmbhyve/ensure-power-state" =>
                  \E j \in 1..(i - 1) : Plan(a)[j] = "zfs/ensure-storage"
           /\ \A i \in 1..Len(Plan(a)), j \in 1..Len(Plan(a)) :
                  Plan(a)[i] = "zfs/ensure-storage" /\ Plan(a)[j] = "zfs/ensure-storage" => i = j
<1>1. CASE a = "apply" /\ ManageServices
  <2>1. Len(Plan(a)) = 10
    BY <1>1, ApplyPlan DEF Plan
  <2>2. \A i \in 1..10 : (Plan(a)[i] = "zfs/ensure-storage" <=> i = 3)
                         /\ (Plan(a)[i] = "vmbhyve/ensure-power-state" <=> i = 9)
    BY <1>1, ApplyPlan DEF Plan
  <2> QED BY <2>1, <2>2
<1>2. CASE a = "apply" /\ ~ManageServices
  <2>1. Len(Plan(a)) = 9
    BY <1>2, ApplyPlan DEF Plan
  <2>2. \A i \in 1..9 : (Plan(a)[i] = "zfs/ensure-storage" <=> i = 2)
                        /\ (Plan(a)[i] = "vmbhyve/ensure-power-state" <=> i = 8)
    BY <1>2, ApplyPlan DEF Plan
  <2> QED BY <2>1, <2>2
<1>3. CASE a = "delete"
  <2>1. Len(Plan(a)) = 7
    BY <1>3 DEF Plan, DeleteSteps
  <2>2. \A i \in 1..7 : Plan(a)[i] \notin {"zfs/ensure-storage", "vmbhyve/ensure-power-state"}
    BY <1>3 DEF Plan, DeleteSteps
  <2> QED BY <2>1, <2>2
<1>4. CASE a = "reconcile"
  <2>1. Len(Plan(a)) = 1
    BY <1>4 DEF Plan, ReconcileSteps
  <2>2. \A i \in 1..1 : Plan(a)[i] \notin {"zfs/ensure-storage", "vmbhyve/ensure-power-state"}
    BY <1>4 DEF Plan, ReconcileSteps
  <2> QED BY <2>1, <2>2
<1> QED BY <1>1, <1>2, <1>3, <1>4, PlannerAssumption DEF Action

(* Only a dd that is cut off leaves a part of the image.                   *)
LEMMA EndsContent ==
    ASSUME sys \in Machine, NEW r \in Ends, r.content = "part"
    PROVE  sys.content = "part" \/ at = "dd"
<1>1. CASE r = Effect(at, sys)
  <2>1. CASE at \in {"zfs create", "zfs destroy"}
    BY <1>1, <2>1 DEF Effect, CreateVolume, NoVolume, Machine
  <2>2. CASE at = "dd"
    BY <2>2
  <2>3. CASE at \in {"vm destroy", "rm files"}
    BY <1>1, <2>3 DEF Effect, NoDirectory, Machine
  <2>4. CASE at \in {"service start", "rename image", "mark image", "zfs set", "rename seed", "mark seed",
                     "rm seed.iso", "rm marker", "write config", "vm start or stop", "vm stop"}
    BY <1>1, <2>4 DEF Effect, Machine
  <2>5. CASE at \in {"reservation-add", "reservation-update", "reservation-del", "reservation-drop",
                     "pfctl load", "pfctl flush"}
    BY <1>1, <2>5 DEF Effect, Machine
  <2>6. CASE at \notin Changing
    BY <1>1, <2>6, Reads
  <2> QED BY <2>1, <2>2, <2>3, <2>4, <2>5, <2>6 DEF Changing
<1>2. CASE r \in Partly(at, sys)
  BY <1>2 DEF Partly, NoVolume, Machine
<1> QED BY <1>1, <1>2 DEF Ends

(* The call is the one the plan has next; once a plan's storage is ensured *)
(* the disk is not one that was written in part.                           *)
Stored == \E i \in 1..(n - 1) : Plan(op.action)[i] = "zfs/ensure-storage"

OnPlan ==
    /\ TypeOK
    /\ at # "idle" => /\ op \in [action : Action, target : Target] /\ n <= Len(Plan(op.action))
                      /\ call = [step |-> Plan(op.action)[n], target |-> op.target]
    /\ op \in [action : Action, target : Target] /\ Stored => sys.content # "part"

LEMMA PlanBegins ==
    ASSUME Inv, OnPlan, Begin
    PROVE  OnPlan'
<1>1. /\ op' \in [action : Action, target : Target] /\ n' \in 1..11 /\ n' <= Len(Plan(op'.action))
      /\ (n' = n /\ op' = op) \/ n' = 1
  <2>1. CASE op # None /\ n <= Len(Plan(op.action)) /\ UNCHANGED <<op, n>>
    BY <2>1 DEF OnPlan, TypeOK
  <2>2. CASE n' = 1 /\ \E a \in Action, t \in Target : op' = [action |-> a, target |-> t]
    <3>1. op' \in [action : Action, target : Target]
      BY <2>2
    <3>2. Len(Plan(op'.action)) \in 1..10
      BY <3>1, StorageBeforePower
    <3>3. n' = 1 /\ n' \in 1..11
      BY <2>2
    <3>4. n' <= Len(Plan(op'.action))
      <4>1. \A m \in 1..10 : 1 <= m
        OBVIOUS
      <4> QED BY <3>2, <3>3, <4>1
    <3> QED BY <3>1, <3>3, <3>4
  <2> QED BY <2>1, <2>2 DEF Begin
<1>2. sys' = sys /\ faults' = faults /\ disturbances' = disturbances /\ nth' = nth /\ fresh' = fresh
      /\ call' = [step |-> Plan(op'.action)[n'], target |-> op'.target]
  BY DEF Begin, locals, bounds
<1>3. answer' = "running" /\ at' # "idle" /\ before' \in HostState
  BY BeginKeeps DEF Begin, Inv, Typed
<1>4. TypeOK'
  BY <1>1, <1>2, <1>3 DEF OnPlan, TypeOK
<1>5. Stored' => Stored /\ n' = n /\ op' = op
  <2>1. CASE n' = n /\ op' = op
    BY <2>1 DEF Stored
  <2>2. CASE n' = 1
    <3>1. 1..(n' - 1) = {}
      BY <2>2
    <3> QED BY <3>1 DEF Stored
  <2> QED BY <1>1, <2>1, <2>2
<1> QED BY <1>1, <1>2, <1>4, <1>5 DEF OnPlan

(* The steps of a call.                                                    *)
LEMMA PlanRuns ==
    ASSUME Inv, Inv', DoneHolds', DC!Next, OnPlan, Command \/ Interrupt \/ Refuse
    PROVE  OnPlan'
<1>1. /\ at # "idle" /\ UNCHANGED <<call, before>> /\ sys' \in Ends /\ sys \in Machine
      /\ op \in [action : Action, target : Target] /\ n \in 1..Len(Plan(op.action))
      /\ call = [step |-> Plan(op.action)[n], target |-> op.target] /\ answer = "running"
  BY CallLeaves, UnderwayCall DEF OnPlan, TypeOK
<1>2. UNCHANGED op /\ ((To(at') /\ n' = n) \/ \E outcome \in DC!Outcomes : Return(outcome))
  <2>1. CASE Command
    <3>1. \A label : To(label) => UNCHANGED op /\ To(at') /\ n' = n
      BY DEF To
    <3>2. \A outcome : Return(outcome) => UNCHANGED op
      BY DEF Return
    <3>3. {"done", "skipped", "blocked", "drift", "failed"} \subseteq DC!Outcomes
      BY DEF DC!Outcomes
    <3>4. \A c, label : Then(c, label) => To(label)
      BY DEF Then
    <3>5. \A c : \A outcome \in DC!Outcomes : Last(c, outcome) => \E o \in DC!Outcomes : Return(o)
      BY DEF Last
    <3> HIDE DEF DC!Outcomes
    <3>6. (\E label : To(label)) \/ (\E outcome \in DC!Outcomes : Return(outcome))
      <4>1. EnsureServices \/ DriveImage \/ DriveSeed \/ DriveSeedAbsent \/ DriveGuest \/ DrivePower \/ DriveVMAbsent
              => (\E label : To(label)) \/ (\E outcome \in DC!Outcomes : Return(outcome))
        BY <3>3, <3>4, <3>5 DEF EnsureServices, DriveImage, DriveSeed, DriveSeedAbsent, DriveGuest, DrivePower, DriveVMAbsent
      <4>2. DriveStorageAbsent \/ DriveKea \/ DriveKeaAbsent \/ DrivePF \/ Observe
              => (\E label : To(label)) \/ (\E outcome \in DC!Outcomes : Return(outcome))
        BY <3>3, <3>4, <3>5 DEF DriveStorageAbsent, DriveKea, DriveKeaAbsent, DrivePF, Observe
      <4>3. DriveStorage => (\E label : To(label)) \/ (\E outcome \in DC!Outcomes : Return(outcome))
        BY <3>3, <3>4, <3>5 DEF DriveStorage, IdentityRead
      <4> QED BY <2>1, <4>1, <4>2, <4>3 DEF Command
    <3> QED BY <3>1, <3>2, <3>6
  <2>2. CASE Interrupt \/ Refuse
    BY <2>2 DEF Interrupt, Refuse, Return, DC!Outcomes
  <2> QED BY <2>1, <2>2
<1>3. UNCHANGED bounds \/ Fault
  <2>1. CASE Command
    <3>1. \A c : Runs(c) => UNCHANGED bounds \/ Fault
      BY DEF Runs
    <3>2. \A c, label : Then(c, label) => UNCHANGED bounds \/ Fault
      BY <3>1 DEF Then
    <3>3. \A c, outcome : Last(c, outcome) => UNCHANGED bounds \/ Fault
      BY <3>1 DEF Last
    <3>4. EnsureServices \/ DriveImage \/ DriveSeed \/ DriveSeedAbsent \/ DriveGuest \/ DrivePower \/ DriveVMAbsent
            => UNCHANGED bounds \/ Fault
      BY <3>1, <3>2, <3>3 DEF EnsureServices, DriveImage, DriveSeed, DriveSeedAbsent, DriveGuest, DrivePower, DriveVMAbsent
    <3>5. DriveStorageAbsent \/ DriveKea \/ DriveKeaAbsent \/ DrivePF \/ Observe \/ DriveStorage
            => UNCHANGED bounds \/ Fault
      BY <3>1, <3>2, <3>3 DEF DriveStorageAbsent, DriveKea, DriveKeaAbsent, DrivePF, Observe, DriveStorage, bounds
    <3> QED BY <2>1, <3>4, <3>5 DEF Command
  <2>2. CASE Interrupt \/ Refuse
    BY <2>2 DEF Interrupt, Refuse
  <2> QED BY <2>1, <2>2
<1>4. faults' \in 0..MaxFaults /\ disturbances' \in 0..MaxDisturbances
  BY <1>3, DriversAssumption DEF bounds, Fault, OnPlan, TypeOK
<1>5. /\ n' = n \/ (n' = n + 1 /\ at' = "idle" /\ answer' \in {"done", "skipped"})
      /\ n' \in 1..11
  <2>1. Len(Plan(op.action)) \in 1..10
    BY <1>1, StorageBeforePower
  <2>2. n' = n \/ (n' = n + 1 /\ at' = "idle" /\ answer' \in {"done", "skipped"})
    BY <1>2 DEF Return
  <2>3. \A l \in 1..10 : \A m \in 1..l : m \in 1..11 /\ m + 1 \in 1..11
    OBVIOUS
  <2> QED BY <1>1, <2>1, <2>2, <2>3
<1>6. TypeOK'
  BY <1>1, <1>2, <1>4, <1>5 DEF Inv, Typed, Sound, TypeOK, DC!Outcomes
<1>7. at' # "idle" => n' = n
  BY <1>5
<1>8. Stored' => sys'.content # "part"
  <2> SUFFICES ASSUME Stored', sys'.content = "part" PROVE FALSE
    OBVIOUS
  <2>1. PICK i \in 1..(n' - 1) : Plan(op.action)[i] = "zfs/ensure-storage"
    BY <1>2 DEF Stored
  <2>2. CASE i \in 1..(n - 1)
    <3>1. sys.content # "part"
      BY <1>1, <2>1, <2>2 DEF OnPlan, Stored
    <3>2. at = "dd"
      BY <1>1, <3>1, EndsContent
    <3>3. Plan(op.action)[n] = "zfs/ensure-storage"
      BY <1>1, <3>2, StepAt
    <3>4. i \in 1..Len(Plan(op.action)) /\ i # n
      BY <1>1, <2>2, PlanSteps
    <3> QED BY <1>1, <2>1, <3>3, <3>4, StorageBeforePower
  <2>3. CASE i \notin 1..(n - 1)
    <3>0. n \in Nat
      BY <1>1, PlanSteps
    <3>1. i = n /\ n' = n + 1 /\ answer' \in {"done", "skipped"}
      <4>1. n' # n
        BY <2>1, <2>3
      <4>2. n' = n + 1 /\ answer' \in {"done", "skipped"}
        BY <1>5, <4>1
      <4>3. i \in 1..n /\ ~(i \in 1..(n - 1))
        BY <2>1, <2>3, <3>0, <4>2
      <4> QED BY <3>0, <4>2, <4>3
    <3>2. call.step = "zfs/ensure-storage" /\ call' = call
      BY <1>1, <2>1, <3>1
    <3>3. CASE answer' = "done"
      BY <3>2, <3>3, DeliveredOf DEF DoneHolds
    <3>4. CASE answer' = "skipped"
      <4>1. Skips(call.step)
        BY <1>1, <3>4, SameAnswers DEF DC!Next, DC!Begin, DC!Work, DC!Return, DC!Answers, DC!Errs, DC!Killed, DC!Disturb
      <4> QED BY <3>2, <4>1 DEF Skips
    <3> QED BY <3>1, <3>3, <3>4
  <2> QED BY <2>2, <2>3
<1> QED BY <1>1, <1>2, <1>6, <1>7, <1>8 DEF OnPlan

LEMMA PlanDisturbed ==
    ASSUME Inv', OnPlan, Disturb
    PROVE  OnPlan'
<1>1. /\ at' = "idle" /\ answer' = "killed" /\ UNCHANGED <<op, n, nth, fresh, before, faults>>
      /\ disturbances < MaxDisturbances /\ disturbances' = disturbances + 1
  BY DEF Disturb, locals
<1>2. disturbances' \in 0..MaxDisturbances
  BY <1>1, DriversAssumption DEF OnPlan, TypeOK
<1>3. TypeOK'
  BY <1>1, <1>2 DEF Inv, Typed, Sound, OnPlan, TypeOK
<1>4. sys'.content = "part" => sys.content = "part"
  BY DEF Disturb, NoDirectory, NoVolume, OnPlan, TypeOK, Machine
<1>5. Stored' => Stored
  BY <1>1 DEF Stored
<1> QED BY <1>1, <1>3, <1>4, <1>5 DEF OnPlan

LEMMA PlanKeeps == Inv /\ ProgressInv /\ OnPlan /\ [Next]_vars => OnPlan'
<1> SUFFICES ASSUME Inv, ProgressInv, OnPlan, [Next]_vars PROVE OnPlan'
  OBVIOUS
<1>1. Inv' /\ DoneHolds'
  BY StepKeeps, ProgressKeeps DEF ProgressInv
<1>2. CASE Begin
  BY <1>2, PlanBegins
<1>3. CASE Command \/ Interrupt \/ Refuse
  BY <1>1, <1>3, CommandKeeps, InterruptKeeps, RefuseKeeps, PlanRuns
<1>4. CASE Disturb
  BY <1>1, <1>4, PlanDisturbed
<1>5. CASE UNCHANGED vars
  BY <1>5 DEF vars, OnPlan, TypeOK, Stored
<1> QED BY <1>2, <1>3, <1>4, <1>5 DEF Next

LEMMA PlanInit == Init => OnPlan
<1> SUFFICES ASSUME Init PROVE OnPlan
  OBVIOUS
<1>1. Inv
  BY InitKeeps
<1>2. faults \in 0..MaxFaults /\ disturbances \in 0..MaxDisturbances
  BY DriversAssumption DEF Init
<1>3. n \in 1..11 /\ answer = "killed" /\ at = "idle"
  BY DEF Init
<1>4. TypeOK
  BY <1>1, <1>2, <1>3 DEF Inv, Typed, Sound, TypeOK
<1>5. ~Stored
  <2>1. 1..(n - 1) = {}
    BY DEF Init
  <2> QED BY <2>1 DEF Stored
<1> QED BY <1>3, <1>4, <1>5 DEF OnPlan

(* The guest of any manifest is never powered on by the control plane on a *)
(* disk that a cut off dd has written in part, through any number of       *)
(* faults, retries, deletes and further applies.                           *)
THEOREM WholeDisksStart == Spec => StartsWholeDisk
<1>1. Inv /\ OnPlan /\ [Next]_vars =>
          [answer = "running" /\ DrivePower /\ ~sys.running /\ sys'.running => sys.content # "part"]_vars
  <2> SUFFICES ASSUME Inv, OnPlan, answer = "running", DrivePower, ~sys.running, sys'.running
               PROVE  sys.content # "part"
    OBVIOUS
  <2>1. at # "idle" /\ sys \in Machine
    BY UnderwayCall DEF Inv, Typed
  <2>2. at = "vm start or stop" /\ sys' = Effect(at, sys)
    <3>1. sys' # sys
      OBVIOUS
    <3>2. \A outcome : Last("vm list", outcome) => sys' = sys
      BY Reads DEF Last, Changing
    <3>3. Then("vm list", "vm start or stop") => sys' = sys
      BY Reads DEF Then, Changing
    <3>4. Last("vm start or stop", "done")
      BY <3>1, <3>2, <3>3 DEF DrivePower
    <3> QED BY <3>4 DEF Last, Runs, Checked
  <2>3. Power = "running"
    <3>1. sys' = [sys EXCEPT !.running = (Power = "running")]
      BY <2>2 DEF Effect
    <3> QED BY <2>1, <3>1 DEF Machine
  <2>4. call.step = "vmbhyve/ensure-power-state"
    BY <2>1, <2>2, <2>3, StepAt DEF Power, PowerSteps
  <2>5. /\ op \in [action : Action, target : Target] /\ n \in 1..Len(Plan(op.action))
        /\ Plan(op.action)[n] = "vmbhyve/ensure-power-state"
    BY <2>1, <2>4 DEF OnPlan, TypeOK
  <2>6. Stored
    BY <2>5, StorageBeforePower DEF Stored
  <2> QED BY <2>5, <2>6 DEF OnPlan
<1>2. Init => ProgressInv
  BY DEF Init, ProgressInv, Progress, DoneHolds
<1> QED BY <1>1, <1>2, ProgressKeeps, PlanInit, PlanKeeps, DriversInvariant, PTL DEF Spec, StartsWholeDisk

(* Type correctness, the bounds included.                                  *)
THEOREM DriversTyped == Spec => []TypeOK
<1>1. Init => ProgressInv
  BY DEF Init, ProgressInv, Progress, DoneHolds
<1>2. OnPlan => TypeOK
  BY DEF OnPlan
<1> QED BY <1>1, <1>2, ProgressKeeps, PlanInit, PlanKeeps, DriversInvariant, PTL DEF Spec
================================================================================
