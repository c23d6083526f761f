------------------------------- MODULE Drivers -------------------------------
(***************************************************************************)
(* SystemDriver and RuntimeDriver, command by command.  An executor works  *)
(* through plans, one driver call at a time; every command of a call may   *)
(* err, do part of its work, or be killed together with the process, and   *)
(* between two calls anyone may change the machine.  sys is the machine:   *)
(*                                                                         *)
(*   raw, marker          the cached raw image and its verified.json       *)
(*   dataset, zvol        the guest's dataset, and the size of its zvol    *)
(*   content, stamp       what the zvol holds, and bkcp:image-sha256       *)
(*   iso, seal            the manifests seed.iso and its marker speak of   *)
(*   config, running      the guest's .conf and power                      *)
(*   res                  what Kea has for each identity's MAC             *)
(*   rules                the identity the PF anchor's rules are for       *)
(*   up                   the managed services that run                    *)
(***************************************************************************)
EXTENDS Host

CONSTANTS
    Services,          \* number of site.services.names
    MaxFaults,         \* bound: commands that err, are killed or do nothing
    MaxDisturbances    \* bound: changes by anyone else

VARIABLES
    sys,           \* the machine
    op,            \* the [action, target] being executed, or None
    n,             \* the step of its plan that is next
    call,          \* the [step, target] of the call that runs or ran last
    at,            \* the command the call is at, or "idle"
    fresh,         \* ensureStorage: zvolCreated
    nth,           \* ensureServices: the service it is at
    before,        \* the host when the call began
    answer,        \* as in module DriverCall
    faults, disturbances

vars == <<sys, op, n, call, at, fresh, nth, before, answer, faults, disturbances>>
locals == <<fresh, nth>>
bounds == <<faults, disturbances>>

ASSUME DriversAssumption ==
    Services \in Nat \ {0} /\ MaxFaults \in Nat /\ MaxDisturbances \in Nat

Machine ==
    [ raw : {"none", "image", "other"}, marker : BOOLEAN,
      dataset : BOOLEAN, zvol : Nat, content : {"none", "part", "image"}, stamp : BOOLEAN,
      iso : Manifests \cup {None}, seal : Manifests \cup {None},
      config : Target \cup {None}, running : BOOLEAN,
      res : [Identities -> {"none", "other", "match"}], rules : Identities \cup {None},
      up : SUBSET (1..Services) ]

EmptyMachine ==
    [ raw |-> "none", marker |-> FALSE,
      dataset |-> FALSE, zvol |-> 0, content |-> "none", stamp |-> FALSE,
      iso |-> None, seal |-> None, config |-> None, running |-> FALSE,
      res |-> [i \in Identities |-> "none"], rules |-> None, up |-> {} ]

(***************************************************************************)
(* What the observer, and module Host, see of a machine.                   *)
(***************************************************************************)
HostOf(s) ==
    [ image |-> s.raw = "image" /\ s.marker, disk |-> s.zvol, imaged |-> s.stamp,
      running |-> s.running, seed |-> s.iso, config |-> s.config,
      kea |-> {i \in Identities : s.res[i] # "none"}, pf |-> s.rules ]

Init ==
    /\ sys = EmptyMachine /\ before = HostOf(EmptyMachine)
    /\ op = None /\ n = 1 /\ call = None
    /\ at = "idle" /\ answer = "killed"
    /\ fresh = FALSE /\ nth = 1
    /\ faults = 0 /\ disturbances = 0
--------------------------------------------------------------------------------
(***************************************************************************)
(* The executor's side: calls follow a plan, a call without success is     *)
(* made again, and another operation may take over between two calls.      *)
(***************************************************************************)
DestroyFirst == <<"vm destroy", "vm stop">>   \* a mutant of Removal: the order is swapped
Removal == <<"vm stop", "vm destroy">>

First(step) ==
    CASE step = "service/ensure-ready"       -> "service status"
      [] step = "image/ensure-verified"      -> "read image"
      [] step = "zfs/ensure-storage"         -> "zfs create"
      [] step = "zfs/ensure-absent"          -> "zfs destroy"
      [] step = "cloudinit/ensure-seed"      -> "read seed"
      [] step = "cloudinit/ensure-absent"    -> "rm seed.iso"
      [] step = "vmbhyve/ensure-definition"  -> "mkdir"
      [] step = "vmbhyve/ensure-config"      -> "write config"
      [] step \in {"vmbhyve/ensure-power-state", "vmbhyve/ensure-stopped"} -> "vm list"
      [] step = "vmbhyve/ensure-absent"      -> Removal[1]
      [] step = "kea/ensure-reservation"     -> "reservation-get"
      [] step = "kea/ensure-absent"          -> "reservation-drop"
      [] step = "pf/ensure-rules"            -> IF ManageAnchor THEN "pfctl load" ELSE "skip"
      [] step = "pf/ensure-absent"           -> IF ManageAnchor THEN "pfctl flush" ELSE "skip"
      [] step \in ObserverStep               -> "observe"

Begin ==
    /\ at = "idle"
    /\ \/ op # None /\ n <= Len(Plan(op.action)) /\ UNCHANGED <<op, n>>
       \/ n' = 1 /\ \E a \in Action, t \in Target : op' = [action |-> a, target |-> t]
    /\ call' = [step |-> Plan(op'.action)[n'], target |-> op'.target]
    /\ at' = First(call'.step)
    /\ before' = HostOf(sys) /\ answer' = "running"
    /\ UNCHANGED <<sys, locals, bounds>>

To(label) ==
    /\ at' = label
    /\ UNCHANGED <<op, n, call, before, answer>>

Return(outcome) ==
    /\ at' = "idle" /\ answer' = outcome
    /\ n' = IF outcome \in {"done", "skipped"} THEN n + 1 ELSE n
    /\ fresh' = FALSE /\ nth' = 1
    /\ UNCHANGED <<op, call, before>>

--------------------------------------------------------------------------------
(***************************************************************************)
(* What each command does to the machine, when it does all of it.          *)
(***************************************************************************)
target == call.target
manifest == target.manifest
identity == target.identity

Power == IF call.step = "vmbhyve/ensure-stopped" THEN "stopped" ELSE manifest.power

CreateVolume(s) ==
    IF s.zvol # 0 THEN [s EXCEPT !.dataset = TRUE]
    ELSE [s EXCEPT !.dataset = TRUE, !.zvol = manifest.disk, !.content = "none", !.stamp = FALSE]

NoVolume(s) == [s EXCEPT !.dataset = FALSE, !.zvol = 0, !.content = "none", !.stamp = FALSE]

ConfigOnly(s) == [s EXCEPT !.config = None]   \* a mutant of NoDirectory: the seed stays
NoDirectory(s) == [s EXCEPT !.config = None, !.iso = None, !.seal = None]

Effect(command, s) ==
    CASE command = "service start"     -> [s EXCEPT !.up = @ \cup {nth}]
      [] command = "rename image"      -> [s EXCEPT !.raw = "image"]
      [] command = "mark image"        -> [s EXCEPT !.marker = TRUE]
      [] command = "zfs create"        -> CreateVolume(s)
      [] command = "dd"                -> [s EXCEPT !.content = "image"]
      [] command = "zfs set"           -> [s EXCEPT !.stamp = TRUE]
      [] command = "zfs destroy"       -> NoVolume(s)
      [] command = "rename seed"       -> [s EXCEPT !.iso = manifest]
      [] command = "mark seed"         -> [s EXCEPT !.seal = manifest]
      [] command = "rm seed.iso"       -> [s EXCEPT !.iso = None]
      [] command = "rm marker"         -> [s EXCEPT !.seal = None]
      [] command = "write config"      -> [s EXCEPT !.config = target]
      [] command = "vm start or stop"  -> [s EXCEPT !.running = (Power = "running")]
      [] command = "vm stop"           -> IF s.config = None THEN s ELSE [s EXCEPT !.running = FALSE]
      [] command \in {"vm destroy", "rm files"} -> NoDirectory(s)
      [] command \in {"reservation-add", "reservation-update"} -> [s EXCEPT !.res[identity] = "match"]
      [] command \in {"reservation-del", "reservation-drop"}   -> [s EXCEPT !.res[identity] = "none"]
      [] command = "pfctl load"        -> [s EXCEPT !.rules = identity]
      [] command = "pfctl flush"       -> [s EXCEPT !.rules = None]
      [] OTHER -> s   \* it only reads, or makes a directory

(* What an interrupted command may leave instead of nothing or everything. *)
Partly(command, s) ==
    CASE command = "zfs create"  -> {[s EXCEPT !.dataset = TRUE]}
      [] command = "dd"          -> {[s EXCEPT !.content = "part"]}
      [] command = "zfs destroy" -> {[NoVolume(s) EXCEPT !.dataset = s.dataset]}
      [] command \in {"vm destroy", "rm files"} ->
             {[s EXCEPT !.config = None], [s EXCEPT !.iso = None], [s EXCEPT !.seal = None]}
      [] OTHER -> {}

(* The commands whose effect the driver reads back before it is done.      *)
Checked ==
    { "service start", "zfs destroy", "reservation-add", "reservation-update",
      "reservation-drop", "pfctl load", "pfctl flush" }

Fault == faults < MaxFaults /\ faults' = faults + 1 /\ UNCHANGED disturbances

(* A command that answers; one of Checked may have done nothing.           *)
Runs(command) ==
    /\ at = command
    /\ \/ sys' = Effect(command, sys) /\ UNCHANGED bounds
       \/ command \in Checked /\ sys' = sys /\ Fault

Then(command, next) == Runs(command) /\ To(next) /\ UNCHANGED locals
Last(command, outcome) == Runs(command) /\ Return(outcome)
--------------------------------------------------------------------------------
(***************************************************************************)
(* The drivers: which command follows which.                               *)
(***************************************************************************)
OneTooMany == nth <= Services   \* a mutant of MoreServices: off by one
MoreServices == nth < Services

EnsureServices ==
    \/ Then("service status", IF nth \in sys.up THEN "service check" ELSE "service start")
    \/ /\ at = "service status" /\ Fault   \* an error is taken for "not running"
       /\ To("service start") /\ UNCHANGED <<sys, locals>>
    \/ Then("service start", "service check")
    \/ nth \notin sys.up /\ Last("service check", "drift")
    \/ nth \in sys.up /\ ~MoreServices /\ Last("service check", "done")
    \/ /\ nth \in sys.up /\ MoreServices
       /\ Runs("service check") /\ To("service status")
       /\ nth' = nth + 1 /\ UNCHANGED fresh

DriveImage ==
    \/ HostOf(sys).image /\ Last("read image", "done")
    \/ ~HostOf(sys).image /\ Then("read image", "download")
    \/ Then("download", "rename image")
    \/ Then("rename image", "mark image")
    \/ Last("mark image", "done")

StampFirst == <<"zfs set", "dd", "read identity">>   \* a mutant of Written: the identity before the image
Written == <<"dd", "zfs set", "read identity">>

TrustVolume == "done"   \* a mutant of IdentityRead: a zvol of the right size is taken as it is
IdentityRead == IF sys.stamp THEN "done" ELSE "blocked"

DriveStorage ==
    \/ Runs("zfs create") /\ To("verify storage") /\ fresh' = (sys.zvol = 0) /\ UNCHANGED nth
    \/ sys.zvol # manifest.disk /\ Last("verify storage", "blocked")
    \/ /\ sys.zvol = manifest.disk /\ (~sys.marker \/ sys.raw = "none")
       /\ Last("verify storage", "failed")
    \/ /\ sys.zvol = manifest.disk /\ sys.marker /\ sys.raw = "other"
       /\ Last("verify storage", "blocked")
    \/ /\ sys.zvol = manifest.disk /\ HostOf(sys).image
       /\ Then("verify storage", IF fresh THEN Written[1] ELSE "read identity")
    \/ \E k \in {1, 2} : Then(Written[k], Written[k + 1])
    \/ Last("read identity", IdentityRead)

DriveStorageAbsent ==
    \/ Then("zfs destroy", "zfs list")
    \/ Last("zfs list", IF sys.dataset THEN "drift" ELSE "done")

MarkerOnly == sys.seal = manifest   \* a mutant of Sealed: the ISO is not read
Sealed == sys.seal = manifest /\ sys.iso = manifest

DriveSeed ==
    \/ Sealed /\ Last("read seed", "done")
    \/ ~Sealed /\ Then("read seed", "rename seed")
    \/ Then("rename seed", "mark seed")
    \/ Last("mark seed", "done")

DriveSeedAbsent == Then("rm seed.iso", "rm marker") \/ Last("rm marker", "done")

DriveGuest ==
    \/ Last("mkdir", "done")
    \/ Last("write config", "done")

DrivePower ==
    \/ sys.config = None /\ Last("vm list", "blocked")
    \/ sys.config # None /\ sys.running = (Power = "running") /\ Last("vm list", "done")
    \/ sys.config # None /\ sys.running # (Power = "running") /\ Then("vm list", "vm start or stop")
    \/ Last("vm start or stop", "done")

(* A vm destroy that errs is followed by the removal of the files, and     *)
(* that decides.                                                           *)
DriveVMAbsent ==
    \/ sys.config = None /\ Last(Removal[1], "done")
    \/ sys.config # None /\ Then(Removal[1], Removal[2])
    \/ Last(Removal[2], "done")
    \/ /\ at = "vm destroy" /\ Fault
       /\ sys' \in {sys, Effect(at, sys)} \cup Partly(at, sys)
       /\ To("rm files") /\ UNCHANGED locals
    \/ Last("rm files", "done")

DriveKea ==
    \/ Then("reservation-get", CASE sys.res[identity] = "none"  -> "reservation-add"
                                 [] sys.res[identity] = "other" -> "reservation-update"
                                 [] sys.res[identity] = "match" -> "reservation-check")
    \/ Then("reservation-add", "reservation-check")
    \/ Then("reservation-update", "reservation-check")
    \/ at = "reservation-update" /\ To("reservation-del") /\ UNCHANGED <<sys, locals, bounds>>
    \/ Then("reservation-del", "reservation-add")
    \/ Last("reservation-check", IF sys.res[identity] = "match" THEN "done" ELSE "drift")

DriveKeaAbsent ==
    \/ Then("reservation-drop", "reservation-gone")
    \/ Last("reservation-gone", IF sys.res[identity] = "none" THEN "done" ELSE "drift")

DrivePF ==
    \/ Last("skip", "skipped")
    \/ Then("pfctl load", "pfctl check")
    \/ Last("pfctl check", IF sys.rules = identity THEN "done" ELSE "drift")
    \/ Then("pfctl flush", "pfctl gone")
    \/ Last("pfctl gone", IF sys.rules = None THEN "done" ELSE "drift")

Observe ==
    Last("observe", IF Drifted(call.step, target, HostOf(sys)) THEN "drift" ELSE "done")
--------------------------------------------------------------------------------
(***************************************************************************)
(* Faults.                                                                 *)
(***************************************************************************)

(* A command errs and so does the call, or the whole process is killed.    *)
Interrupt ==
    /\ at # "idle"
    /\ Fault
    /\ sys' \in {sys, Effect(at, sys)} \cup Partly(at, sys)
    /\ \/ at \notin {"skip", "service status", "service check", "vm destroy"} /\ Return("failed")
       \/ at = "service check" /\ Return("drift")
       \/ Return("killed")

(* The download has another digest, or the SSH key is not Ed25519.         *)
Refuse ==
    /\ at \in {"download", "read seed"}
    /\ Fault
    /\ Return("blocked")
    /\ UNCHANGED sys

(* Anyone else changes the machine.                                        *)
Disturb ==
    /\ at = "idle"
    /\ disturbances < MaxDisturbances /\ disturbances' = disturbances + 1
    /\ \/ \E r \in {"none", "other"} : sys' = [sys EXCEPT !.raw = r]
       \/ sys' = [sys EXCEPT !.marker = FALSE]
       \/ sys.config # None /\ sys' = [sys EXCEPT !.running = ~@]
       \/ ~sys.running /\ sys' = NoDirectory(sys)
       \/ ~sys.running /\ sys' = NoVolume(sys)
       \/ sys' = [sys EXCEPT !.seal = None]
       \/ sys' = [sys EXCEPT !.rules = None]
       \/ \E i \in Identities, r \in {"none", "other"} : sys' = [sys EXCEPT !.res[i] = r]
       \/ \E k \in sys.up : sys' = [sys EXCEPT !.up = @ \ {k}]
    /\ call' = None /\ answer' = "killed"
    /\ UNCHANGED <<op, n, at, locals, before, faults>>

Command ==
    /\ answer = "running"
    /\ \/ EnsureServices \/ DriveImage \/ DriveStorage \/ DriveStorageAbsent
       \/ DriveSeed \/ DriveSeedAbsent \/ DriveGuest \/ DrivePower \/ DriveVMAbsent
       \/ DriveKea \/ DriveKeaAbsent \/ DrivePF \/ Observe

Next == Begin \/ Command \/ Interrupt \/ Refuse \/ Disturb

Spec == Init /\ [][Next]_vars
--------------------------------------------------------------------------------
(***************************************************************************)
(* Properties.                                                             *)
(***************************************************************************)

(* The machine, the program counters and the bounds have their types.      *)
TypeOK ==
    /\ sys \in Machine /\ before \in HostState
    /\ op \in [action : Action, target : Target] \cup {None}
    /\ n \in 1..11 /\ nth \in 1..Services /\ fresh \in BOOLEAN
    /\ answer \in {"done", "skipped", "blocked", "drift", "failed", "killed", "running"}
    /\ at = "idle" <=> answer # "running"
    /\ faults \in 0..MaxFaults /\ disturbances \in 0..MaxDisturbances

(* A driver call, however its commands fail or are cut off, is one of the  *)
(* steps module Execution takes it for: the host it leaves is in Torn, and *)
(* the outcome it answers is the one the host it began with calls for.     *)
DC == INSTANCE DriverCall WITH host <- HostOf(sys)
FollowsCall == DC!Spec

(* A zvol that carries the image identity holds the whole image, whatever  *)
(* interrupted ensureStorage: the identity is what a retry trusts.         *)
StampMeansImage == sys.stamp => sys.content = "image" /\ sys.zvol # 0

(* A guest is never powered on by the control plane on a disk whose image  *)
(* was written in part, across retries, deletes and further applies.       *)
StartsWholeDisk ==
    [][answer = "running" /\ DrivePower /\ ~sys.running /\ sys'.running => sys.content # "part"]_vars

(* A call that reports success has left on the machine all that the step   *)
(* is for, in whatever state it found it: the reservation is the allocated *)
(* identity, the seed and its marker agree, nothing is left of what is to  *)
(* be absent.                                                              *)
Delivered(step) ==
    CASE step = "service/ensure-ready"       -> sys.up = 1..Services
      [] step = "image/ensure-verified"      -> sys.raw = "image" /\ sys.marker
      [] step = "zfs/ensure-storage"         -> sys.zvol = manifest.disk /\ sys.content = "image" /\ sys.stamp
      [] step = "zfs/ensure-absent"          -> ~sys.dataset /\ sys.zvol = 0
      [] step = "cloudinit/ensure-seed"      -> sys.iso = manifest /\ sys.seal = manifest
      [] step = "cloudinit/ensure-absent"    -> sys.iso = None /\ sys.seal = None
      [] step = "vmbhyve/ensure-config"      -> sys.config = target
      [] step = "vmbhyve/ensure-power-state" -> sys.running = (manifest.power = "running")
      [] step = "vmbhyve/ensure-stopped"     -> ~sys.running
      [] step = "vmbhyve/ensure-absent"      -> sys.config = None
      [] step = "kea/ensure-reservation"     -> sys.res[identity] = "match"
      [] step = "kea/ensure-absent"          -> sys.res[identity] = "none"
      [] step = "pf/ensure-rules"            -> sys.rules = identity
      [] step = "pf/ensure-absent"           -> sys.rules = None
      [] OTHER                               -> TRUE
DoneHolds == answer = "done" => Delivered(call.step)

(* Ensuring again what was interrupted brings the host where the call      *)
(* would have brought it; the two exceptions are named in DriverCall.      *)
RetryRepairs == DC!RetryRepairs
==============================================================================
