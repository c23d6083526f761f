------------------------------ MODULE DriverCall ------------------------------
(***************************************************************************)
(* What the executor takes a driver call to be: something that happens to  *)
(* the host between a beginning and an answer.  While the call runs, and   *)
(* when it is killed, the host is somewhere in Torn; a call that answers   *)
(* has brought the host where its answer says, from where it was before.   *)
(* Module Execution takes each call in one step of this kind.              *)
(***************************************************************************)
EXTENDS Host

VARIABLES
    host,      \* the host, as in module Host
    call,      \* the [step, target] ensured last, or None
    before,    \* the host when that call began
    answer     \* its outcome, "killed" when it never came, "running" until then

vars == <<host, call, before, answer>>

Step == UNION {{Plan(a)[i] : i \in DOMAIN Plan(a)} : a \in Action}
Call == [step : Step, target : Target]

Outcomes == {"done", "skipped", "blocked", "drift", "failed", "killed"}

TypeOK ==
    /\ host \in HostState /\ before \in HostState
    /\ call \in Call \cup {None}
    /\ answer \in Outcomes \cup {"running"}

Init ==
    /\ host = EmptyHost /\ before = EmptyHost
    /\ call = None /\ answer = "killed"

Begin ==
    /\ answer # "running" /\ answer' = "running"
    /\ \E c \in Call : call' = c
    /\ before' = host
    /\ UNCHANGED host

(* One command of the call.                                                *)
Work ==
    /\ answer = "running"
    /\ host' \in Torn(call.step, call.target, before)
    /\ UNCHANGED <<call, before, answer>>

(* The call answers and its commands did what they said.                   *)
Answers(step, t) ==
    \/ /\ answer' = "blocked" /\ Blocked(step, t, before)
       /\ host' = before
    \/ /\ answer' \in {"failed", "blocked"} /\ MarkerMissing(step, t, before)
       /\ host' = HalfStored(t, before)
    \/ /\ answer' = "drift" /\ Drifted(step, t, before)
       /\ host' = before
    \/ /\ answer' = IF Skips(step) THEN "skipped" ELSE "done"
       /\ ~Blocked(step, t, before) /\ ~MarkerMissing(step, t, before) /\ ~Drifted(step, t, before)
       /\ host' = Ensured(step, t, before)

(* A command of it failed, had no effect, or met what it must refuse.      *)
Errs(step, t) ==
    /\ ~Skips(step)
    /\ \/ /\ answer' \in {"failed"} \cup (IF step \in ReadsBack THEN {"drift"} ELSE {})
          /\ host' \in Torn(step, t, before)
       \/ /\ answer' = "blocked" /\ Refusable(step, before)
          /\ host' = before

Return ==
    /\ answer = "running"
    /\ Answers(call.step, call.target) \/ Errs(call.step, call.target)
    /\ UNCHANGED <<call, before>>

Killed ==
    /\ answer = "running" /\ answer' = "killed"
    /\ host' \in Torn(call.step, call.target, before)
    /\ UNCHANGED <<call, before>>

(* Anyone else, between two calls.                                         *)
Disturb ==
    /\ answer # "running" /\ answer' = "killed"
    /\ call' = None
    /\ host' \in HostState
    /\ UNCHANGED before

Next == Begin \/ Work \/ Return \/ Killed \/ Disturb
Spec == Init /\ [][Next]_vars

(***************************************************************************)
(* Ensuring again what an error or a kill interrupted brings the host      *)
(* where the undisturbed call would have brought it, whatever the call had *)
(* done by then.  Two calls are different: a zvol whose image identity was *)
(* not written stays refused, and once vm destroy has removed the guest's  *)
(* config a retry leaves the seed, which a later step of the plan removes. *)
(***************************************************************************)
RetryRepairs ==
    answer \in {"failed", "drift", "killed"} /\ call # None =>
        LET again == Ensured(call.step, call.target, host)
            once  == Ensured(call.step, call.target, before)
        IN  CASE call.step = "zfs/ensure-storage"    -> again = once \/ (host.disk # 0 /\ ~host.imaged)
              [] call.step = "vmbhyve/ensure-absent" -> [again EXCEPT !.seed = None] = [once EXCEPT !.seed = None]
              [] OTHER                               -> again = once
================================================================================
