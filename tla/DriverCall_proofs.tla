--------------------------- MODULE DriverCall_proofs ---------------------------
(***************************************************************************)
(* For every host, manifest and identity: the types of a driver call, and  *)
(* that a retry repairs what an interrupted call has left.                 *)
(***************************************************************************)
EXTENDS DriverCall, Host_proofs, TLAPS

(* What a call that runs may have done by now.                             *)
Underway ==
    answer = "running" => call \in Call /\ host \in Torn(call.step, call.target, before)

Inv == TypeOK /\ Underway /\ RetryRepairs

(* Nothing was done to the host yet.                                       *)
LEMMA InitKeeps == Init => Inv
BY DEF Init, Inv, TypeOK, Underway, RetryRepairs, EmptyHost, HostState, Outcomes

(* Every step of the specification keeps the invariant.                    *)
LEMMA NextKeeps == Inv /\ [Next]_vars => Inv'
<1> SUFFICES ASSUME Inv, [Next]_vars PROVE Inv'
  OBVIOUS
<1> USE DEF Inv
<1>1. ASSUME answer = "running"
      PROVE  /\ call \in Call /\ call.target \in Target
             /\ \A g \in Torn(call.step, call.target, before) : g \in HostState
             /\ \A g \in Torn(call.step, call.target, before) :
                    Repaired(call.step, call.target, before, g)
  <2>1. call \in Call /\ call.target \in Target /\ before \in HostState
    BY <1>1 DEF Underway, Call, TypeOK
  <2> QED BY <2>1, TornType, TornRepaired
<1>2. ASSUME answer = "running", answer' # "running", UNCHANGED <<call, before>>,
             host' \in Torn(call.step, call.target, before), answer' \in Outcomes
      PROVE  Inv'
  <2>1. TypeOK' /\ Underway'
    BY <1>1, <1>2 DEF TypeOK, Underway
  <2>2. Repaired(call.step, call.target, before, host')
    BY <1>1, <1>2
  <2>3. RetryRepairs'
    BY <1>2, <2>2 DEF RetryRepairs, Repaired
  <2> QED BY <2>1, <2>3
<1>3. CASE Begin
  <2>1. TypeOK' /\ call' \in Call
    BY <1>3 DEF Begin, TypeOK
  <2>2. Underway' /\ RetryRepairs'
    BY <1>3, <2>1 DEF Begin, Underway, RetryRepairs, Torn
  <2> QED BY <2>1, <2>2
<1>4. CASE Work
  <2>1. TypeOK' /\ Underway'
    BY <1>1, <1>4 DEF Work, TypeOK, Underway
  <2>2. RetryRepairs'
    BY <1>4 DEF Work, RetryRepairs
  <2> QED BY <2>1, <2>2
<1>5. CASE Return
  <2> USE <1>5 DEF Return
  <2>1. answer = "running" /\ UNCHANGED <<call, before>>
    OBVIOUS
  <2>2. CASE Answers(call.step, call.target)
    <3>1. answer' \in Outcomes
      BY <2>2 DEF Answers, Outcomes
    <3>2. before \in HostState /\ call.target \in Target
      BY <1>1, <2>1 DEF TypeOK
    <3>3. host' \in Torn(call.step, call.target, before)
      <4>1. CASE host' = before
        BY <4>1 DEF Torn
      <4>2. CASE MarkerMissing(call.step, call.target, before) /\ host' = HalfStored(call.target, before)
        BY <3>2, <4>2, HalfStoredTorn
      <4>3. CASE /\ ~Blocked(call.step, call.target, before)
                 /\ ~MarkerMissing(call.step, call.target, before)
                 /\ host' = Ensured(call.step, call.target, before)
        BY <4>3 DEF Torn
      <4> QED BY <2>2, <4>1, <4>2, <4>3 DEF Answers
    <3> QED BY <1>2, <2>1, <3>1, <3>3 DEF Outcomes
  <2>3. CASE Errs(call.step, call.target)
    <3>1. answer' \in Outcomes
      BY <2>3 DEF Errs, Outcomes
    <3>2. host' \in Torn(call.step, call.target, before)
      BY <2>3 DEF Errs, Torn
    <3> QED BY <1>2, <2>1, <3>1, <3>2 DEF Outcomes
  <2> QED BY <2>2, <2>3
<1>6. CASE Killed
  BY <1>2, <1>6 DEF Killed, Outcomes
<1>7. CASE Disturb
  BY <1>7 DEF Disturb, TypeOK, Underway, RetryRepairs, Outcomes
<1>8. CASE UNCHANGED vars
  BY <1>8 DEF vars, TypeOK, Underway, RetryRepairs
<1> QED BY <1>3, <1>4, <1>5, <1>6, <1>7, <1>8 DEF Next

(* Whatever a driver call was doing when it failed or was killed, making   *)
(* it again repairs the host, but for the two exceptions of RetryRepairs.  *)
THEOREM InterruptionIsRepaired == Spec => []RetryRepairs
<1>1. Inv => RetryRepairs
  BY DEF Inv
<1> QED BY InitKeeps, NextKeeps, <1>1, PTL DEF Spec
================================================================================
