----------------------------- MODULE Migrate_proofs -----------------------------
(***************************************************************************)
(* Migrate, for any number of runners, releases and migrations.            *)
(*                                                                         *)
(* Inv says what the advisory lock gives: only its holder has SQL or rows  *)
(* of its own (LockedWork), and what it has planned, executed and logged   *)
(* continues the committed history (PlanIsCurrent).  Nobody else commits   *)
(* in between, so its plan stays true until its own COMMIT.                *)
(***************************************************************************)
EXTENDS Migrate, TLAPS

(* The lock is held from the plan to the end of the transaction, and the   *)
(* transaction of everybody else is empty.                                 *)
LockedWork ==
    \A r \in Runner :
        /\ pc[r] # "idle" => release[r] \in Release
        /\ pc[r] \in Locked <=> lock = r
        /\ pc[r] \notin {"applying", "recording"} => effects[r] = {} /\ logged[r] = {}

(* The contents a runner would apply.                                      *)
Own(r) == {Item(r, v) : v \in DOMAIN Content(r)}

(* What the holder has planned, executed and logged.                       *)
PlanIsCurrent ==
    \A r \in Runner : pc[r] \in {"applying", "recording"} =>
        /\ pending[r] \subseteq DOMAIN Content(r)
        /\ \A v \in DOMAIN Content(r) \ pending[r] : Item(r, v) \in schema \cup logged[r]
        /\ \A m \in schema \cup logged[r] : m[1] \notin pending[r]
        /\ logged[r] \subseteq Own(r)
        /\ \A m \in schema, n \in logged[r] : m[1] # n[1]

(* Executed is logged, but for the migration between its two statements.   *)
EffectsLogged ==
    \A r \in Runner :
        /\ pc[r] = "applying" => effects[r] = logged[r]
        /\ pc[r] = "recording" =>
              \E v \in Current(r) : effects[r] = logged[r] \cup {Item(r, v)}

Inv == /\ TypeOK /\ LockedWork /\ PlanIsCurrent /\ EffectsLogged
       /\ SchemaIsHistory /\ NeverCollide /\ NothingLeftOut
--------------------------------------------------------------------------------
LEMMA ContentType ==
    ASSUME TypeOK, NEW r \in Runner, release[r] \in Release
    PROVE  /\ DOMAIN Content(r) \subseteq Nat \ {0}
           /\ DOMAIN Content(r) \subseteq Version
           /\ \A v \in DOMAIN Content(r) : /\ 1..v \subseteq DOMAIN Content(r)
                                           /\ Item(r, v) \in Migration
                                           /\ Item(r, v)[1] = v
BY EmbeddedAssumption DEF Content, Version, Checksum, Migration, Item

LEMMA InitInv == Init => Inv
<1> SUFFICES ASSUME Init PROVE Inv OBVIOUS
<1>1. TypeOK BY DEF Init, TypeOK
<1>2. LockedWork BY NoneAssumption DEF Init, LockedWork, Locked
<1>3. PlanIsCurrent /\ EffectsLogged BY DEF Init, PlanIsCurrent, EffectsLogged
<1>4. SchemaIsHistory BY DEF Init, SchemaIsHistory, Versions
<1>5. NeverCollide /\ NothingLeftOut BY DEF Init, NeverCollide, NothingLeftOut
<1> QED BY <1>1, <1>2, <1>3, <1>4, <1>5 DEF Inv

(* A step of a runner that has no transaction of its own, or gives its     *)
(* transaction up, changes nothing for the others.                         *)
LEMMA RollbackInv ==
    ASSUME Inv, NEW r \in Runner, NEW answer \in Finished \ {"ok", "planned", "error"},
           pc[r] # "idle", Rollback(r, answer), UNCHANGED readers
    PROVE  Inv'
<1> USE DEF Rollback, End, Unlock, Go, database, local
<1>1. TypeOK' BY DEF Inv, TypeOK, Finished
<1>2. LockedWork' BY NoneAssumption DEF Inv, TypeOK, LockedWork, Locked, Finished
<1>3. \A q \in Runner : pc'[q] \in {"applying", "recording"} =>
          /\ q # r /\ pc'[q] = pc[q] /\ effects'[q] = effects[q] /\ logged'[q] = logged[q]
      BY DEF Inv, TypeOK, Finished
<1>4. PlanIsCurrent' BY <1>3 DEF Inv, PlanIsCurrent, Content, Item, Own
<1>5. EffectsLogged' BY <1>3 DEF Inv, EffectsLogged, Current, Content, Item
<1>6. SchemaIsHistory' BY DEF Inv, SchemaIsHistory
<1>7. NeverCollide' BY DEF Inv, NeverCollide, TypeOK, Finished
<1>8. NothingLeftOut' BY DEF Inv, NothingLeftOut, TypeOK, Finished, Content
<1> QED BY <1>1, <1>2, <1>4, <1>5, <1>6, <1>7, <1>8 DEF Inv
(* A step of a runner outside the lock: its label, release and plan.       *)
LEMMA OutsideInv ==
    ASSUME Inv, NEW r \in Runner, NEW label \in {"waiting"} \cup Running \cup Finished,
           pc[r] \notin Locked, label \notin Locked \cup {"error", "ok"},
           Go(r, label), TypeOK', release'[r] \in Release,
           \A q \in Runner \ {r} : release'[q] = release[q] /\ pending'[q] = pending[q],
           label = "planned" =>
               \A v \in DOMAIN Content(r)' \ pending'[r] : <<v, Content(r)'[v]>> \in recorded,
           UNCHANGED <<database, lock, effects, logged>>
    PROVE  Inv'
<1> USE DEF Go, database, Locked
<1>2. LockedWork' BY DEF Inv, TypeOK, LockedWork
<1>3. \A q \in Runner : pc'[q] \in {"applying", "recording"} =>
          /\ pc'[q] = pc[q] /\ effects'[q] = effects[q] /\ logged'[q] = logged[q]
          /\ release'[q] = release[q] /\ pending'[q] = pending[q]
      BY DEF Inv, TypeOK
<1>4. PlanIsCurrent' BY <1>3 DEF Inv, PlanIsCurrent, Content, Item, Own
<1>5. EffectsLogged' BY <1>3 DEF Inv, EffectsLogged, Current, Content, Item
<1>6. SchemaIsHistory' BY DEF Inv, SchemaIsHistory
<1>7. NeverCollide' BY DEF Inv, NeverCollide, TypeOK
<1>8. NothingLeftOut'
  <2> SUFFICES ASSUME NEW q \in Runner, pc'[q] \in {"ok", "planned"}
               PROVE  \A v \in DOMAIN Content(q)' \ pending'[q] :
                          <<v, Content(q)'[v]>> \in recorded'
      BY DEF NothingLeftOut
  <2>1. CASE q = r BY <2>1 DEF Inv, TypeOK
  <2>2. CASE q # r BY <2>2 DEF Inv, TypeOK, NothingLeftOut, Content
  <2> QED BY <2>1, <2>2
<1> QED BY <1>2, <1>4, <1>5, <1>6, <1>7, <1>8 DEF Inv

(* A row whose version the release embeds, with its checksum, is its own.  *)
LEMMA MatchingRow ==
    ASSUME TypeOK, NEW r \in Runner, release[r] \in Release, ~Mismatch(r, recorded),
           NEW v \in DOMAIN Content(r) \ Missing(r, recorded)
    PROVE  Item(r, v) \in recorded
<1>1. PICK m \in recorded : m[1] = v BY DEF Missing, Versions
<1>2. m[2] = Content(r)[v] BY <1>1 DEF Mismatch
<1>3. m = <<m[1], m[2]>> BY DEF TypeOK, Migration
<1> QED BY <1>1, <1>2, <1>3 DEF Item

LEMMA StartInv ==
    ASSUME Inv, NEW r \in Runner, NEW b \in Release, Start(r, b) \/ StartDryRun(r, b),
           UNCHANGED readers
    PROVE  Inv'
<1> DEFINE label == IF Start(r, b) THEN "waiting" ELSE "inspecting"
<1>1. pc[r] \notin Locked BY DEF Start, StartDryRun, Locked, Finished
<1>2. Go(r, "waiting") \/ Go(r, "inspecting") BY DEF Start, StartDryRun
<1>3. TypeOK' BY <1>2 DEF Inv, TypeOK, Start, StartDryRun, Go, database, Running
<1>4. /\ release'[r] \in Release
      /\ \A q \in Runner \ {r} : release'[q] = release[q] /\ pending'[q] = pending[q]
      /\ UNCHANGED <<database, lock, effects, logged>>
      BY DEF Inv, TypeOK, Start, StartDryRun
<1>5. CASE Go(r, "waiting") BY <1>1, <1>3, <1>4, <1>5, OutsideInv DEF Locked
<1>6. CASE Go(r, "inspecting") BY <1>1, <1>3, <1>4, <1>6, OutsideInv DEF Locked, Running
<1> QED BY <1>2, <1>5, <1>6

LEMMA InspectInv ==
    ASSUME Inv, NEW r \in Runner, InspectTable(r), UNCHANGED readers
    PROVE  Inv'
<1>1. pc[r] \notin Locked /\ release[r] \in Release
      BY DEF InspectTable, Locked, Inv, LockedWork
<1>2. UNCHANGED <<database, lock, release, effects, logged>> BY DEF InspectTable
<1>3. CASE created
  <2>1. Go(r, "reading") /\ UNCHANGED pending BY <1>3 DEF InspectTable
  <2>2. TypeOK' BY <1>2, <2>1 DEF Inv, TypeOK, Go, database, Running
  <2> QED BY <1>1, <1>2, <2>1, <2>2, OutsideInv DEF Locked, Running
<1>4. CASE ~created
  <2>1. Go(r, "planned") /\ pending' = [pending EXCEPT ![r] = Missing(r, {})]
        BY <1>4 DEF InspectTable
  <2>2. Missing(r, {}) = DOMAIN Content(r) BY DEF Missing, Versions
  <2>3. TypeOK' BY <1>1, <1>2, <2>1, <2>2, ContentType DEF Inv, TypeOK, Go, database, Finished
  <2>4. pending'[r] = DOMAIN Content(r)' BY <1>2, <2>1, <2>2 DEF Inv, TypeOK, Content
  <2>5. \A q \in Runner \ {r} : pending'[q] = pending[q] BY <2>1 DEF Inv, TypeOK
  <2> QED BY <1>1, <1>2, <2>1, <2>3, <2>4, <2>5, OutsideInv DEF Locked, Finished
<1> QED BY <1>3, <1>4

LEMMA ReadInv ==
    ASSUME Inv, NEW r \in Runner, ReadApplied(r), UNCHANGED readers
    PROVE  Inv'
<1>1. pc[r] \notin Locked /\ release[r] \in Release
      BY DEF ReadApplied, Locked, Inv, LockedWork
<1>2. UNCHANGED <<database, lock, release, effects, logged>> BY DEF ReadApplied
<1>3. CASE (Go(r, "blocked") \/ Go(r, "unknown")) /\ UNCHANGED pending
  <2>1. TypeOK' BY <1>2, <1>3 DEF Inv, TypeOK, Go, database, Finished
  <2> QED BY <1>1, <1>2, <1>3, <2>1, OutsideInv DEF Locked, Finished
<1>4. CASE /\ ~Mismatch(r, recorded) /\ Go(r, "planned")
           /\ pending' = [pending EXCEPT ![r] = Missing(r, recorded)]
  <2>1. Missing(r, recorded) \subseteq DOMAIN Content(r) BY DEF Missing
  <2>2. TypeOK' BY <1>1, <1>2, <1>4, <2>1, ContentType DEF Inv, TypeOK, Go, database, Finished
  <2>3. \A v \in DOMAIN Content(r)' \ pending'[r] : <<v, Content(r)'[v]>> \in recorded
        BY <1>1, <1>2, <1>4, MatchingRow DEF Inv, TypeOK, Content, Item
  <2>4. \A q \in Runner \ {r} : pending'[q] = pending[q] BY <1>4 DEF Inv, TypeOK
  <2> QED BY <1>1, <1>2, <1>4, <2>2, <2>3, <2>4, OutsideInv DEF Locked, Finished
<1> QED BY <1>3, <1>4 DEF ReadApplied
--------------------------------------------------------------------------------
(***************************************************************************)
(* Inside the transaction.                                                 *)
(***************************************************************************)
(* While one runner holds the lock nobody else has planned anything.       *)
LEMMA OnlyHolder ==
    ASSUME Inv, NEW r \in Runner, pc[r] \in Locked
    PROVE  \A q \in Runner \ {r} : pc[q] \notin Locked
BY DEF Inv, LockedWork

LEMMA TakeLockInv ==
    ASSUME Inv, NEW r \in Runner, TakeLock(r), UNCHANGED readers
    PROVE  Inv'
<1> USE DEF TakeLock, Go, database, local
<1>1. TypeOK' BY DEF Inv, TypeOK, Running, Locked
<1>2. LockedWork' BY NoneAssumption DEF Inv, TypeOK, LockedWork, Locked
<1>3. \A q \in Runner : pc'[q] \in {"applying", "recording"} => pc'[q] = pc[q]
      BY DEF Inv, TypeOK
<1>4. PlanIsCurrent' BY <1>3 DEF Inv, PlanIsCurrent, Content, Item, Own
<1>5. EffectsLogged' BY <1>3 DEF Inv, EffectsLogged, Current, Content, Item
<1>6. SchemaIsHistory' BY DEF Inv, SchemaIsHistory
<1>7. NeverCollide' BY DEF Inv, NeverCollide, TypeOK
<1>8. NothingLeftOut' BY DEF Inv, NothingLeftOut, TypeOK, Content
<1> QED BY <1>1, <1>2, <1>4, <1>5, <1>6, <1>7, <1>8 DEF Inv

LEMMA PlanTxInv ==
    ASSUME Inv, NEW r \in Runner, PlanTx(r), UNCHANGED readers
    PROVE  Inv'
<1>1. pc[r] = "planning" /\ release[r] \in Release BY DEF PlanTx, Inv, LockedWork
<1>2. CASE Mismatch(r, recorded)
      BY <1>1, <1>2, RollbackInv DEF PlanTx, Finished
<1>3. CASE ~Mismatch(r, recorded)
  <2> USE DEF Go, database
  <2>1. /\ pending' = [pending EXCEPT ![r] = Missing(r, recorded)]
        /\ Go(r, "applying")
        /\ UNCHANGED <<database, lock, release, effects, logged, readers>>
        BY <1>3 DEF PlanTx
  <2>2. Missing(r, recorded) \subseteq DOMAIN Content(r) BY DEF Missing
  <2>3. effects[r] = {} /\ logged[r] = {} BY <1>1 DEF Inv, LockedWork
  <2>4. TypeOK' BY <1>1, <2>1, <2>2, ContentType DEF Inv, TypeOK, Running, Locked
  <2>5. LockedWork' BY <1>1, <2>1 DEF Inv, TypeOK, LockedWork, Locked
  <2>6. \A q \in Runner \ {r} : pc'[q] \notin {"applying", "recording"}
        BY <1>1, <2>1, OnlyHolder DEF Inv, TypeOK, Locked
  <2>7. PlanIsCurrent'
    <3>1. pending'[r] = Missing(r, recorded) BY <2>1 DEF Inv, TypeOK
    <3>2. \A m \in schema : m[1] \notin Missing(r, recorded)
          BY DEF Inv, SchemaIsHistory, Missing, Versions
    <3>3. \A v \in DOMAIN Content(r) \ Missing(r, recorded) : Item(r, v) \in schema
          BY <1>1, <1>3, MatchingRow DEF Inv, SchemaIsHistory
    <3> QED BY <2>1, <2>2, <2>3, <2>6, <3>1, <3>2, <3>3 DEF PlanIsCurrent, Content, Item, Own
  <2>8. EffectsLogged' BY <2>1, <2>3, <2>6 DEF EffectsLogged, Inv, TypeOK
  <2>9. SchemaIsHistory' BY <2>1 DEF Inv, SchemaIsHistory
  <2>10. NeverCollide' BY <2>1 DEF Inv, NeverCollide, TypeOK
  <2>11. NothingLeftOut' BY <1>1, <2>1 DEF Inv, NothingLeftOut, TypeOK, Content
  <2> QED BY <2>4, <2>5, <2>7, <2>8, <2>9, <2>10, <2>11 DEF Inv
<1> QED BY <1>2, <1>3

(* The SQL of the lowest pending migration never fails on what exists or   *)
(* is missing: the plan has been made under the lock.                      *)
LEMMA AlwaysApplicable ==
    ASSUME Inv, NEW r \in Runner, pc[r] = "applying", NEW v \in Current(r)
    PROVE  Applicable(r, v)
<1>1. release[r] \in Release BY DEF Inv, LockedWork
<1>2. v \in pending[r] /\ v \in DOMAIN Content(r) BY DEF Current, Inv, PlanIsCurrent
<1>3. effects[r] = logged[r] BY DEF Inv, EffectsLogged
<1>4. v \notin Versions(schema \cup effects[r])
      BY <1>2, <1>3 DEF Versions, Inv, PlanIsCurrent
<1>5. ASSUME NEW u \in 1..(v - 1) PROVE u \in Versions(schema \cup effects[r])
  <2>1. v \in Nat \ {0} BY <1>1, <1>2, ContentType DEF Inv
  <2>2. u \in 1..v /\ u < v BY <2>1
  <2>3. u \in DOMAIN Content(r) BY <1>1, <1>2, <2>2, ContentType DEF Inv
  <2>4. u \notin pending[r] BY <2>1, <2>2 DEF Current
  <2>5. Item(r, u) \in schema \cup logged[r] BY <2>3, <2>4 DEF Inv, PlanIsCurrent
  <2> QED BY <1>1, <1>3, <2>3, <2>5, ContentType DEF Versions, Inv
<1> QED BY <1>4, <1>5 DEF Applicable

LEMMA ApplyInv ==
    ASSUME Inv, NEW r \in Runner, ApplySQL(r), UNCHANGED readers
    PROVE  Inv'
<1> USE DEF Go, database, local
<1>1. pc[r] = "applying" /\ release[r] \in Release BY DEF ApplySQL, Inv, LockedWork
<1>2. PICK v \in Current(r) :
          /\ effects' = [effects EXCEPT ![r] = @ \cup {Item(r, v)}]
          /\ Go(r, "recording")
          /\ UNCHANGED <<database, lock, local, logged, readers>>
      BY <1>1, AlwaysApplicable DEF ApplySQL
<1>3. v \in DOMAIN Content(r) /\ Item(r, v) \in Migration
      BY <1>1, ContentType DEF Current, Inv, PlanIsCurrent
<1>4. TypeOK' BY <1>2, <1>3 DEF Inv, TypeOK, Running, Locked
<1>5. LockedWork' BY <1>1, <1>2 DEF Inv, TypeOK, LockedWork, Locked
<1>6. \A q \in Runner \ {r} : pc'[q] \notin {"applying", "recording"}
      BY <1>1, <1>2, OnlyHolder DEF Inv, TypeOK, Locked
<1>7. PlanIsCurrent' BY <1>1, <1>2, <1>6 DEF Inv, PlanIsCurrent, Content, Item, Own
<1>8. EffectsLogged'
  <2>1. pc'[r] = "recording" BY <1>2 DEF Inv, TypeOK
  <2>2. effects'[r] = logged'[r] \cup {Item(r, v)'}
        BY <1>1, <1>2 DEF Inv, TypeOK, EffectsLogged, Item, Content
  <2>3. v \in Current(r)' BY <1>2 DEF Current
  <2> QED BY <1>6, <2>1, <2>2, <2>3 DEF EffectsLogged
<1>9. SchemaIsHistory' BY <1>2 DEF Inv, SchemaIsHistory
<1>10. NeverCollide' BY <1>2 DEF Inv, NeverCollide, TypeOK
<1>11. NothingLeftOut' BY <1>2 DEF Inv, NothingLeftOut, TypeOK, Content
<1> QED BY <1>4, <1>5, <1>7, <1>8, <1>9, <1>10, <1>11 DEF Inv

LEMMA RecordInv ==
    ASSUME Inv, NEW r \in Runner, Record(r), UNCHANGED readers
    PROVE  Inv'
<1> USE DEF Go, database
<1>1. pc[r] = "recording" /\ release[r] \in Release BY DEF Record, Inv, LockedWork
<1>2. \A v \in Current(r) : v \notin Versions(recorded \cup logged[r])
      BY <1>1 DEF Current, Versions, Inv, PlanIsCurrent, SchemaIsHistory
<1>3. PICK v \in Current(r) :
          /\ logged' = [logged EXCEPT ![r] = @ \cup {Item(r, v)}]
          /\ pending' = [pending EXCEPT ![r] = @ \ {v}]
          /\ Go(r, "applying")
          /\ UNCHANGED <<database, lock, release, effects, readers>>
      BY <1>1, <1>2 DEF Record
<1>4. /\ v \in pending[r] /\ v \in DOMAIN Content(r)
      /\ Item(r, v) \in Migration /\ Item(r, v)[1] = v
      BY <1>1, ContentType DEF Current, Inv, PlanIsCurrent
<1>5. TypeOK' BY <1>3, <1>4 DEF Inv, TypeOK, Running, Locked
<1>6. LockedWork' BY <1>1, <1>3 DEF Inv, TypeOK, LockedWork, Locked
<1>7. \A q \in Runner \ {r} : pc'[q] \notin {"applying", "recording"}
      BY <1>1, <1>3, OnlyHolder DEF Inv, TypeOK, Locked
<1>8. /\ logged'[r] = logged[r] \cup {Item(r, v)} /\ pending'[r] = pending[r] \ {v}
      /\ effects'[r] = effects[r] /\ schema' = schema
      /\ Content(r)' = Content(r)
      BY <1>3 DEF Inv, TypeOK, Content
<1>9. PlanIsCurrent'
  <2>1. pending'[r] \subseteq DOMAIN Content(r)' BY <1>1, <1>8 DEF Inv, PlanIsCurrent
  <2>2. \A u \in DOMAIN Content(r)' \ pending'[r] : Item(r, u)' \in schema' \cup logged'[r]
        BY <1>1, <1>8 DEF Inv, PlanIsCurrent, Item
  <2>3. \A m \in schema' \cup logged'[r] : m[1] \notin pending'[r]
        BY <1>1, <1>4, <1>8 DEF Inv, PlanIsCurrent
  <2>4. logged'[r] \subseteq Own(r)' BY <1>1, <1>4, <1>8 DEF Inv, PlanIsCurrent, Own, Item
  <2>5. \A m \in schema', n \in logged'[r] : m[1] # n[1]
        BY <1>1, <1>4, <1>8 DEF Inv, PlanIsCurrent
  <2> QED BY <1>7, <2>1, <2>2, <2>3, <2>4, <2>5 DEF PlanIsCurrent
<1>10. EffectsLogged'
  <2>1. PICK u \in Current(r) : effects[r] = logged[r] \cup {Item(r, u)}
        BY <1>1 DEF Inv, EffectsLogged
  <2>2. u = v BY <1>1, <1>4, <2>1, ContentType DEF Current, Inv, PlanIsCurrent
  <2> QED BY <1>3, <1>7, <1>8, <2>1, <2>2 DEF EffectsLogged, Inv, TypeOK
<1>11. SchemaIsHistory' BY <1>3 DEF Inv, SchemaIsHistory
<1>12. NeverCollide' BY <1>3 DEF Inv, NeverCollide, TypeOK
<1>13. NothingLeftOut' BY <1>1, <1>3 DEF Inv, NothingLeftOut, TypeOK, Content
<1> QED BY <1>5, <1>6, <1>9, <1>10, <1>11, <1>12, <1>13 DEF Inv

(* The COMMIT continues the history and leaves out nothing.                *)
LEMMA CommitGrows ==
    ASSUME Inv, NEW r \in Runner, Commit(r)
    PROVE  /\ schema' = schema \cup logged[r] /\ recorded' = recorded \cup logged[r]
           /\ \A v \in DOMAIN Content(r) : Item(r, v) \in recorded'
           /\ \A m \in logged[r] : m[1] \notin Versions(recorded)
           /\ SchemaIsHistory'
<1>1. pc[r] = "applying" /\ pending[r] = {} /\ release[r] \in Release
      BY DEF Commit, Inv, LockedWork
<1>2. schema' = schema \cup logged[r] /\ recorded' = recorded \cup logged[r]
      BY <1>1 DEF Commit, Inv, EffectsLogged
<1>3. schema = recorded BY DEF Inv, SchemaIsHistory
<1>4. \A v \in DOMAIN Content(r) : Item(r, v) \in recorded'
      BY <1>1, <1>2, <1>3 DEF Inv, PlanIsCurrent
<1>5. \A m \in logged[r] : m[1] \notin Versions(recorded)
      BY <1>1, <1>3 DEF Inv, PlanIsCurrent, Versions
<1>6. \A m \in logged[r] : m[1] \in DOMAIN Content(r) /\ m = Item(r, m[1])
      BY <1>1, ContentType DEF Inv, PlanIsCurrent, Own
<1>7. \A m, n \in schema' : m[1] = n[1] => m = n
      BY <1>1, <1>2, <1>6 DEF Inv, SchemaIsHistory, PlanIsCurrent
<1>8. ASSUME NEW v \in Versions(schema') PROVE 1..v \subseteq Versions(schema')
  <2>1. CASE v \in Versions(schema)
        BY <1>2, <2>1 DEF Inv, SchemaIsHistory, Versions
  <2>2. CASE v \notin Versions(schema)
    <3>1. v \in DOMAIN Content(r) BY <1>2, <1>6, <2>2 DEF Versions
    <3>2. 1..v \subseteq DOMAIN Content(r) BY <1>1, <3>1, ContentType DEF Inv
    <3>3. \A u \in DOMAIN Content(r) : Item(r, u) \in schema' /\ Item(r, u)[1] = u
          BY <1>1, <1>2, <1>3, <1>4, ContentType DEF Inv
    <3> QED BY <3>2, <3>3 DEF Versions
  <2> QED BY <2>1, <2>2
<1>9. SchemaIsHistory' BY <1>2, <1>3, <1>7, <1>8 DEF SchemaIsHistory, Versions
<1> QED BY <1>2, <1>4, <1>5, <1>9

LEMMA CommitInv ==
    ASSUME Inv, NEW r \in Runner, Commit(r), UNCHANGED readers
    PROVE  Inv'
<1> USE DEF Commit, Go, End, Unlock, local
<1>1. pc[r] = "applying" /\ pending[r] = {} BY DEF Inv
<1>2. TypeOK' BY DEF Inv, TypeOK, Finished
<1>3. LockedWork' BY <1>1, NoneAssumption DEF Inv, TypeOK, LockedWork, Locked
<1>4. \A q \in Runner : pc'[q] \notin {"applying", "recording"}
      BY <1>1, OnlyHolder DEF Inv, TypeOK, Locked
<1>5. PlanIsCurrent' /\ EffectsLogged' BY <1>4 DEF PlanIsCurrent, EffectsLogged
<1>6. SchemaIsHistory' BY CommitGrows
<1>7. NeverCollide' BY DEF Inv, NeverCollide, TypeOK
<1>8. NothingLeftOut'
  <2> SUFFICES ASSUME NEW q \in Runner, pc'[q] \in {"ok", "planned"},
                      NEW v \in DOMAIN Content(q)' \ pending'[q]
               PROVE  <<v, Content(q)'[v]>> \in recorded'
      BY DEF NothingLeftOut
  <2>1. Content(q)' = Content(q) /\ pending'[q] = pending[q] BY DEF Content
  <2>2. recorded \subseteq recorded' BY CommitGrows
  <2>3. CASE q = r BY <2>1, <2>3, CommitGrows DEF Item
  <2>4. CASE q # r BY <2>1, <2>2, <2>4 DEF Inv, NothingLeftOut, TypeOK
  <2> QED BY <2>3, <2>4
<1> QED BY <1>2, <1>3, <1>5, <1>6, <1>7, <1>8 DEF Inv

LEMMA LoseInv ==
    ASSUME Inv, NEW r \in Runner, Lose(r), UNCHANGED readers
    PROVE  Inv'
<1>1. pc[r] # "idle" /\ Rollback(r, "lost") BY DEF Lose, Running, Locked
<1> QED BY <1>1, RollbackInv DEF Finished

LEMMA OthersInv ==
    ASSUME Inv, UNCHANGED <<database, lock, pc, local, effects, logged>>, readers' \subseteq Reader
    PROVE  Inv'
<1> USE DEF database, local
<1>1. TypeOK' BY DEF Inv, TypeOK
<1>2. LockedWork' BY DEF Inv, LockedWork
<1>3. PlanIsCurrent' BY DEF Inv, PlanIsCurrent, Content, Item, Own
<1>4. EffectsLogged' BY DEF Inv, EffectsLogged, Current, Content, Item
<1>5. SchemaIsHistory' BY DEF Inv, SchemaIsHistory
<1>6. NeverCollide' /\ NothingLeftOut' BY DEF Inv, NeverCollide, NothingLeftOut, Content
<1> QED BY <1>1, <1>2, <1>3, <1>4, <1>5, <1>6 DEF Inv
--------------------------------------------------------------------------------
LEMMA NextInv == Inv /\ [Next]_vars => Inv'
<1> SUFFICES ASSUME Inv, [Next]_vars PROVE Inv' OBVIOUS
<1>1. CASE UNCHANGED vars BY <1>1, OthersInv DEF vars, Inv, TypeOK
<1>2. CASE Sessions BY <1>2, OthersInv DEF Sessions
<1>3. CASE Migrating
  <2>1. PICK r \in Runner : \/ Step(r) \/ Lose(r)
                            \/ \E b \in Release : Start(r, b) \/ StartDryRun(r, b)
        BY <1>3 DEF Migrating
  <2>2. UNCHANGED readers BY <1>3 DEF Migrating
  <2>3. CASE \E b \in Release : Start(r, b) \/ StartDryRun(r, b) BY <2>2, <2>3, StartInv
  <2>4. CASE Lose(r) BY <2>2, <2>4, LoseInv
  <2>5. CASE TakeLock(r) BY <2>2, <2>5, TakeLockInv
  <2>6. CASE PlanTx(r) BY <2>2, <2>6, PlanTxInv
  <2>7. CASE ApplySQL(r) BY <2>2, <2>7, ApplyInv
  <2>8. CASE Record(r) BY <2>2, <2>8, RecordInv
  <2>9. CASE Commit(r) BY <2>2, <2>9, CommitInv
  <2>10. CASE InspectTable(r) BY <2>2, <2>10, InspectInv
  <2>11. CASE ReadApplied(r) BY <2>2, <2>11, ReadInv
  <2> QED BY <2>1, <2>3, <2>4, <2>5, <2>6, <2>7, <2>8, <2>9, <2>10, <2>11 DEF Step
<1> QED BY <1>1, <1>2, <1>3 DEF Next

(* What is committed is one history, no runner ever collides with another, *)
(* and what it reports is in the database: for any number of runners.      *)
THEOREM Invariance == Spec => []Inv
BY InitInv, NextInv, PTL DEF Spec

(* Rows, locks and labels have their types.                                *)
THEOREM TypeCorrect == Spec => []TypeOK
<1>1. Inv => TypeOK BY DEF Inv
<1> QED BY <1>1, Invariance, PTL

(* The advisory lock is never left behind: who waits for it waits for a    *)
(* runner that is inside its transaction.                                  *)
THEOREM LockHasOwner == Spec => [](lock # None => lock \in Runner /\ pc[lock] \in Locked)
<1>1. Inv => (lock # None => lock \in Runner /\ pc[lock] \in Locked)
      BY DEF Inv, TypeOK, LockedWork
<1> QED BY <1>1, Invariance, PTL

(* The rows of schema_migrations and the schema agree after any crash.     *)
THEOREM SchemaMatchesRows == Spec => []SchemaIsHistory
<1>1. Inv => SchemaIsHistory BY DEF Inv
<1> QED BY <1>1, Invariance, PTL

(* Concurrent migrations never fail on each other's objects or rows.       *)
THEOREM NoCollision == Spec => []NeverCollide
<1>1. Inv => NeverCollide BY DEF Inv
<1> QED BY <1>1, Invariance, PTL

(* What is reported done, or left out of a dry run, is in the database.    *)
THEOREM ReportsAreTrue == Spec => []NothingLeftOut
<1>1. Inv => NothingLeftOut BY DEF Inv
<1> QED BY <1>1, Invariance, PTL

(* A step never removes or rewrites a row of schema_migrations.            *)
THEOREM HistoryIsImmutable == Spec => HistoryOnlyGrows
<1> DEFINE Grows == /\ recorded \subseteq recorded'
                    /\ \A m \in recorded' \ recorded : m[1] \notin Versions(recorded)
<1>1. Inv /\ [Next]_vars => [Grows]_vars
  <2> SUFFICES ASSUME Inv, Next PROVE Grows BY DEF vars
  <2>1. CASE \E r \in Runner : Commit(r) BY <2>1, CommitGrows
  <2>2. CASE ~\E r \in Runner : Commit(r)
    <3>1. recorded' = recorded
          BY <2>2 DEF Next, Sessions, Migrating, Step, Lose, Start, StartDryRun, TakeLock,
                      PlanTx, ApplySQL, Record, InspectTable, ReadApplied, Rollback, database
    <3> QED BY <3>1
  <2> QED BY <2>1, <2>2
<1> QED BY <1>1, Invariance, PTL DEF Spec, HistoryOnlyGrows
================================================================================
