--------------------------- MODULE Allocation_proofs ---------------------------
(***************************************************************************)
(* Proofs about module Allocation for any processes, resources, pools      *)
(* (overlapping or not), MAC candidates (colliding or not) and any number  *)
(* of lost sessions.                                                       *)
(***************************************************************************)
EXTENDS Allocation, TLAPS

(***************************************************************************)
(* What a process works on, by the place where it is.                      *)
(***************************************************************************)
WorkOK ==
    \A p \in Proc :
        /\ pc[p] \in Applying => res[p] \in Resource /\ want[p] \in Declarations
        /\ pc[p] \in {"deleting"} \cup Completing => res[p] \in Resource /\ rows[res[p]] # None
        /\ pc[p] \in {"mac", "write"} => ip[p] \in Address
        /\ pc[p] = "write" => mac[p] \in Mac
        /\ written[p] => pc[p] = "persist" /\ ip[p] \in Address /\ mac[p] \in Mac

(* No lock has two holders.                                                *)
Exclusive == \A p, q \in Proc : p # q => held[p] \cap held[q] = {}

(* The pool lock is held from the first look to the commit; an uncommitted *)
(* row's keys are held and collide with no committed row.                  *)
Guarded ==
    \A p \in Proc :
        /\ pc[p] \in {"address", "mac", "write"} => PoolLock(want[p].pool) \in held[p]
        /\ written[p] => /\ PoolLock(want[p].pool) \in held[p]
                         /\ Keys(Chosen(p)) \subseteq held[p]
                         /\ ~Conflicts(p)

(* The unique keys of vm_allocations, released rows included.              *)
KeysUnique ==
    \A r, s \in Resource :
        r # s /\ rows[r] # None /\ rows[s] # None
          => rows[r].ip # rows[s].ip /\ rows[r].mac # rows[s].mac

IInv == TypeOK /\ WorkOK /\ Exclusive /\ Guarded /\ KeysUnique /\ ChoiceHolds
--------------------------------------------------------------------------------
(* Declarations name a pool and an image.                                  *)
LEMMA DeclarationTyped == ASSUME NEW d \in Declarations PROVE d.pool \in Pool /\ d.image \in Image
  BY AllocationAssumption

(* Candidates of a pool are addresses, those of a resource are MACs.       *)
LEMMA CandidateTyped ==
  /\ \A k \in Pool : \A i \in DOMAIN Pools[k] : Pools[k][i] \in Address
  /\ \A r \in Resource : \A i \in DOMAIN Candidates[r] : Candidates[r][i] \in Mac
  BY DEF Address, Mac

(* What the next statement of a process waits for are locks.               *)
LEMMA NeedsTyped ==
  ASSUME TypeOK, WorkOK, NEW p \in Proc
  PROVE  Needs(p) \subseteq Lock
<1> USE DEF Lock
<1>1. CASE pc[p] = "write"
  <2>1. res[p] \in Resource /\ ip[p] \in Address /\ mac[p] \in Mac
    BY <1>1 DEF WorkOK, Applying
  <2>2. rows[res[p]] = None \/ rows[res[p]] \in Row
    BY <2>1 DEF TypeOK
  <2>3. Keys(Chosen(p)) \subseteq Lock
    BY <2>1 DEF Keys, Chosen
  <2>4. rows[res[p]] \in Row => Keys(rows[res[p]]) \subseteq Lock
    BY DEF Keys, Row
  <2> QED
    BY <1>1, <2>1, <2>2, <2>3, <2>4 DEF Needs, Touched
<1>2. CASE pc[p] = "release"
  <2>1. res[p] \in Resource /\ rows[res[p]] \in Row
    BY <1>2 DEF WorkOK, Completing, TypeOK
  <2>2. Keys(rows[res[p]]) \subseteq Lock
    BY <2>1 DEF Keys, Row
  <2> QED
    BY <1>2, <2>1, <2>2 DEF Needs
<1>3. CASE pc[p] = "pool"
  BY <1>3, DeclarationTyped DEF Needs, WorkOK, Applying
<1>4. CASE pc[p] \in {"declare", "persist", "effective", "archive"}
  BY <1>4 DEF Needs, WorkOK, Applying, Completing
<1>5. CASE pc[p] \in {"idle", "deleting", "address", "mac"}
  BY <1>5 DEF Needs
<1> QED
  BY <1>1, <1>2, <1>3, <1>4, <1>5 DEF TypeOK, Applying, Completing
--------------------------------------------------------------------------------
(***************************************************************************)
(* TypeOK and WorkOK.                                                      *)
(***************************************************************************)
LEMMA InitOK == Init => IInv
<1> SUFFICES ASSUME Init PROVE IInv
  OBVIOUS
<1> USE DEF Init
<1>1. TypeOK
  BY AllocationAssumption DEF TypeOK
<1>2. WorkOK
  BY DEF WorkOK, Applying, Completing
<1>3. Exclusive /\ Guarded /\ KeysUnique /\ ChoiceHolds
  BY DEF Exclusive, Guarded, KeysUnique, ChoiceHolds
<1> QED
  BY <1>1, <1>2, <1>3 DEF IInv

(* COMMIT, ROLLBACK and the end of a command.                              *)
LEMMA EndTyped ==
  ASSUME TypeOK, WorkOK, NEW p \in Proc, NEW a \in Answer \cup {None}, End(p, a),
         rows' \in [Resource -> Row \cup {None}],
         \A r \in Resource : rows[r] # None => rows'[r] # None,
         losses' = losses
  PROVE  TypeOK' /\ WorkOK'
<1>1. TypeOK'
  BY DEF TypeOK, End, Goto
<1>2. WorkOK'
  BY DEF TypeOK, WorkOK, End, Goto, Applying, Completing
<1> QED
  BY <1>1, <1>2

LEMMA TypeStep == TypeOK /\ WorkOK /\ [Next]_vars => TypeOK' /\ WorkOK'
<1> SUFFICES ASSUME TypeOK, WorkOK, [Next]_vars PROVE TypeOK' /\ WorkOK'
  OBVIOUS
<1> USE DEF Goto, Take, work
<1>1. ASSUME NEW p \in Proc, BeginApply(p) PROVE TypeOK' /\ WorkOK'
  <2>1. CASE End(p, "busy") /\ UNCHANGED <<rows, losses>>
    BY <2>1, EndTyped DEF Answer, TypeOK
  <2>2. CASE ~ End(p, "busy")
    <3>1. TypeOK'
      BY <1>1, <2>2 DEF BeginApply, TypeOK, Lock, Applying
    <3>2. WorkOK'
      BY <1>1, <2>2 DEF BeginApply, TypeOK, WorkOK, Applying, Completing
    <3> QED
      BY <3>1, <3>2
  <2> QED
    BY <1>1, <2>1, <2>2 DEF BeginApply
<1>2. ASSUME NEW p \in Proc, BeginDelete(p) PROVE TypeOK' /\ WorkOK'
  <2>1. TypeOK'
    BY <1>2 DEF BeginDelete, TypeOK, Lock
  <2>2. WorkOK'
    BY <1>2 DEF BeginDelete, TypeOK, WorkOK, Live, Applying, Completing
  <2> QED
    BY <2>1, <2>2
<1>3. ASSUME NEW p \in Proc, Declare(p) PROVE TypeOK' /\ WorkOK'
  <2>1. CASE End(p, "replacement")
    BY <1>3, <2>1, EndTyped DEF Declare, Answer, TypeOK
  <2>2. CASE ~ End(p, "replacement")
    <3>1. TypeOK'
      BY <1>3, <2>2, NeedsTyped DEF Declare, TypeOK, Applying
    <3>2. WorkOK'
      BY <1>3, <2>2 DEF Declare, TypeOK, WorkOK, Applying, Completing
    <3> QED
      BY <3>1, <3>2
  <2> QED
    BY <2>1, <2>2
<1>4. ASSUME NEW p \in Proc, LockPool(p) PROVE TypeOK' /\ WorkOK'
  <2>1. TypeOK'
    BY <1>4, NeedsTyped DEF LockPool, TypeOK, Applying
  <2>2. WorkOK'
    BY <1>4 DEF LockPool, TypeOK, WorkOK, Applying, Completing
  <2> QED
    BY <2>1, <2>2
<1>5. ASSUME NEW p \in Proc, ScanAddress(p) PROVE TypeOK' /\ WorkOK'
  <2>1. CASE End(p, "exhausted")
    BY <1>5, <2>1, EndTyped DEF ScanAddress, Answer, TypeOK
  <2>2. CASE ~ End(p, "exhausted")
    <3>1. want[p].pool \in Pool
      BY <1>5, DeclarationTyped DEF ScanAddress, WorkOK, Applying
    <3>2. \A i \in DOMAIN Pools[want[p].pool] : Pools[want[p].pool][i] \in Address
      BY <3>1, CandidateTyped
    <3>3. TypeOK'
      BY <1>5, <2>2, <3>2 DEF ScanAddress, TypeOK, Applying
    <3>4. WorkOK'
      BY <1>5, <2>2, <3>2 DEF ScanAddress, TypeOK, WorkOK, Applying, Completing
    <3> QED
      BY <3>3, <3>4
  <2> QED
    BY <2>1, <2>2
<1>6. ASSUME NEW p \in Proc, ScanMac(p) PROVE TypeOK' /\ WorkOK'
  <2>1. CASE End(p, "exhausted")
    BY <1>6, <2>1, EndTyped DEF ScanMac, Answer, TypeOK
  <2>2. CASE ~ End(p, "exhausted")
    <3>1. res[p] \in Resource
      BY <1>6 DEF ScanMac, WorkOK, Applying
    <3>2. \A i \in DOMAIN Candidates[res[p]] : Candidates[res[p]][i] \in Mac
      BY <3>1, CandidateTyped
    <3>3. TypeOK'
      BY <1>6, <2>2, <3>2 DEF ScanMac, TypeOK, Applying
    <3>4. WorkOK'
      BY <1>6, <2>2, <3>2 DEF ScanMac, TypeOK, WorkOK, Applying, Completing
    <3> QED
      BY <3>3, <3>4
  <2> QED
    BY <2>1, <2>2
<1>7. ASSUME NEW p \in Proc, WriteRow(p) PROVE TypeOK' /\ WorkOK'
  <2>1. CASE End(p, "duplicate")
    BY <1>7, <2>1, EndTyped DEF WriteRow, Answer, TypeOK
  <2>2. CASE ~ End(p, "duplicate")
    <3>1. TypeOK'
      BY <1>7, <2>2, NeedsTyped DEF WriteRow, TypeOK, Applying
    <3>2. WorkOK'
      BY <1>7, <2>2 DEF WriteRow, TypeOK, WorkOK, Applying, Completing
    <3> QED
      BY <3>1, <3>2
  <2> QED
    BY <2>1, <2>2
<1>8. ASSUME NEW p \in Proc, Persist(p) PROVE TypeOK' /\ WorkOK'
  <2>1. res[p] \in Resource /\ want[p] \in Declarations
    BY <1>8 DEF Persist, WorkOK, Applying
  <2>2. written[p] => Chosen(p) \in Row
    BY <2>1, DeclarationTyped DEF WorkOK, Chosen, Row
  <2>3. /\ rows' \in [Resource -> Row \cup {None}]
        /\ \A r \in Resource : rows[r] # None => rows'[r] # None
    BY <1>8, <2>1, <2>2, RowAssumption DEF Persist, TypeOK
  <2> QED
    BY <1>8, <2>3, EndTyped DEF Persist, Answer
<1>9. ASSUME NEW p \in Proc, DriversDone(p) PROVE TypeOK' /\ WorkOK'
  BY <1>9 DEF DriversDone, TypeOK, WorkOK, Applying, Completing
<1>10. ASSUME NEW p \in Proc, MarkAbsent(p) \/ ReleaseRow(p) PROVE TypeOK' /\ WorkOK'
  <2>1. TypeOK'
    BY <1>10, NeedsTyped DEF MarkAbsent, ReleaseRow, TypeOK, Completing
  <2>2. WorkOK'
    BY <1>10 DEF MarkAbsent, ReleaseRow, TypeOK, WorkOK, Applying, Completing
  <2> QED
    BY <2>1, <2>2
<1>11. ASSUME NEW p \in Proc, Archive(p) PROVE TypeOK' /\ WorkOK'
  <2>1. res[p] \in Resource /\ rows[res[p]] \in Row
    BY <1>11 DEF Archive, WorkOK, Completing, TypeOK
  <2>2. [rows[res[p]] EXCEPT !.live = FALSE] \in Row
    BY <2>1 DEF Row
  <2>3. /\ rows' \in [Resource -> Row \cup {None}]
        /\ \A r \in Resource : rows[r] # None => rows'[r] # None
    BY <1>11, <2>1, <2>2, RowAssumption DEF Archive, TypeOK
  <2> QED
    BY <1>11, <2>3, EndTyped DEF Archive, Answer
<1>12. ASSUME NEW p \in Proc, Crash(p) \/ DetectDeadlock(p) PROVE TypeOK' /\ WorkOK'
  BY <1>12, EndTyped DEF Crash, DetectDeadlock, Answer, TypeOK
<1>13. ASSUME NEW p \in Proc, LoseSession(p) PROVE TypeOK' /\ WorkOK'
  <2>1. TypeOK'
    BY <1>13, AllocationAssumption DEF LoseSession, TypeOK
  <2>2. WorkOK'
    BY <1>13 DEF LoseSession, TypeOK, WorkOK
  <2> QED
    BY <2>1, <2>2
<1>14. CASE UNCHANGED vars
  BY <1>14 DEF vars, TypeOK, WorkOK
<1> QED
  BY <1>1, <1>2, <1>3, <1>4, <1>5, <1>6, <1>7, <1>8, <1>9, <1>10, <1>11, <1>12, <1>13, <1>14
  DEF Next, Apply, Delete
--------------------------------------------------------------------------------
(***************************************************************************)
(* Locks.                                                                  *)
(***************************************************************************)
(* Taking what is free, or freeing, keeps every lock with one holder.      *)
LEMMA TakeExclusive ==
  ASSUME TypeOK, Exclusive, NEW p \in Proc, NEW L \in SUBSET Lock, Free(p, L),
         Take(p, L) \/ (\E M : held' = [held EXCEPT ![p] = held[p] \ M])
  PROVE  Exclusive'
<1>1. CASE Take(p, L)
  <2> SUFFICES ASSUME NEW q1 \in Proc, NEW q2 \in Proc, q1 # q2, NEW l \in held'[q1] \cap held'[q2]
               PROVE  FALSE
    BY DEF Exclusive
  <2>1. \A q \in Proc : held'[q] = IF q = p THEN held[p] \cup L ELSE held[q]
    BY <1>1 DEF Take, TypeOK
  <2>2. \A q \in Proc : q # p => l \notin held[q] \/ l \notin L
    BY DEF Free, Holders
  <2> QED
    BY <2>1, <2>2 DEF Exclusive
<1>2. CASE \E M : held' = [held EXCEPT ![p] = held[p] \ M]
  <2>1. \A q \in Proc : held'[q] \subseteq held[q]
    BY <1>2 DEF TypeOK
  <2> QED
    BY <2>1 DEF Exclusive
<1> QED
  BY <1>1, <1>2

LEMMA EndExclusive ==
  ASSUME TypeOK, Exclusive, NEW p \in Proc, NEW a, End(p, a)
  PROVE  Exclusive'
  BY DEF Exclusive, End, TypeOK

LEMMA ExclusiveStep == TypeOK /\ WorkOK /\ Exclusive /\ [Next]_vars => Exclusive'
<1> SUFFICES ASSUME TypeOK, WorkOK, Exclusive, [Next]_vars PROVE Exclusive'
  OBVIOUS
<1>1. ASSUME NEW p \in Proc, BeginApply(p) \/ BeginDelete(p) PROVE Exclusive'
  <2>1. CASE End(p, "busy")
    BY <2>1, EndExclusive
  <2>2. CASE \E r \in Resource : Free(p, {ExecLock(r)}) /\ Take(p, {ExecLock(r)})
    <3>1. PICK r \in Resource : Free(p, {ExecLock(r)}) /\ Take(p, {ExecLock(r)})
      BY <2>2
    <3>2. {ExecLock(r)} \in SUBSET Lock
      BY DEF Lock
    <3> QED
      BY <3>1, <3>2, TakeExclusive
  <2> QED
    BY <1>1, <2>1, <2>2 DEF BeginApply, BeginDelete
<1>2. ASSUME NEW p \in Proc, NEW a, End(p, a) PROVE Exclusive'
  BY <1>2, EndExclusive
<1>3. ASSUME NEW p \in Proc, Free(p, Needs(p)), Take(p, Needs(p)) PROVE Exclusive'
  BY <1>3, NeedsTyped, TakeExclusive
<1>4. CASE UNCHANGED held
  BY <1>4 DEF Exclusive
<1>5. ASSUME NEW p \in Proc, LoseSession(p) PROVE Exclusive'
  <2>1. held' = [held EXCEPT ![p] = held[p] \ {ExecLock(res[p])}]
    BY <1>5 DEF LoseSession
  <2>2. Free(p, {}) /\ {} \in SUBSET Lock
    BY DEF Free
  <2> QED
    BY <2>1, <2>2, TakeExclusive
<1>6. ASSUME NEW p \in Proc, Apply(p) \/ Delete(p) PROVE Exclusive'
  BY <1>2, <1>3, <1>4, <1>6
  DEF Apply, Delete, Declare, LockPool, ScanAddress, ScanMac, WriteRow, Persist,
      DriversDone, MarkAbsent, ReleaseRow, Archive
<1>7. ASSUME NEW p \in Proc, Crash(p) \/ DetectDeadlock(p) PROVE Exclusive'
  BY <1>2, <1>7 DEF Crash, DetectDeadlock
<1>8. CASE UNCHANGED vars
  BY <1>4, <1>8 DEF vars
<1> QED
  BY <1>1, <1>5, <1>6, <1>7, <1>8 DEF Next
--------------------------------------------------------------------------------
(***************************************************************************)
(* Guarded and KeysUnique.  Only Persist gives a row new keys; the process *)
(* that does holds them, so no other uncommitted row carries them.         *)
(***************************************************************************)
(* A step that leaves every row's keys alone.                              *)
SameKeys ==
    \A r \in Resource :
        /\ (rows'[r] = None) = (rows[r] = None)
        /\ rows[r] # None => rows'[r].ip = rows[r].ip /\ rows'[r].mac = rows[r].mac

LEMMA SameKeysUnique == ASSUME KeysUnique, SameKeys PROVE KeysUnique'
  BY DEF KeysUnique, SameKeys

(* What another process has guarded stays guarded when keys stay.          *)
LEMMA OthersGuarded ==
  ASSUME TypeOK, WorkOK, Guarded, SameKeys, NEW p \in Proc, NEW q \in Proc, p # q,
         held'[q] = held[q], pc'[q] = pc[q], res'[q] = res[q], want'[q] = want[q],
         ip'[q] = ip[q], mac'[q] = mac[q], written'[q] = written[q]
  PROVE  /\ pc'[q] \in {"address", "mac", "write"} => PoolLock(want'[q].pool) \in held'[q]
         /\ written'[q] => /\ PoolLock(want'[q].pool) \in held'[q]
                           /\ Keys(Chosen(q)') \subseteq held'[q]
                           /\ ~Conflicts(q)'
<1>1. Chosen(q)' = Chosen(q)
  BY DEF Chosen
<1>2. ~Conflicts(q) => ~Conflicts(q)'
  BY DEF Conflicts, SameKeys
<1> QED
  BY <1>1, <1>2 DEF Guarded

LEMMA GuardedStep ==
  TypeOK /\ WorkOK /\ Exclusive /\ Guarded /\ KeysUnique /\ [Next]_vars
    => Guarded' /\ KeysUnique'
<1> SUFFICES ASSUME TypeOK, WorkOK, Exclusive, Guarded, KeysUnique, [Next]_vars
             PROVE  Guarded' /\ KeysUnique'
  OBVIOUS
<1> USE DEF Goto, Take, work
<1>1. ASSUME NEW p \in Proc, NEW a, End(p, a), SameKeys PROVE Guarded' /\ KeysUnique'
  <2>1. ASSUME NEW q \in Proc, q # p
        PROVE  /\ pc'[q] \in {"address", "mac", "write"} => PoolLock(want'[q].pool) \in held'[q]
               /\ written'[q] => /\ PoolLock(want'[q].pool) \in held'[q]
                                 /\ Keys(Chosen(q)') \subseteq held'[q]
                                 /\ ~Conflicts(q)'
    BY <1>1, <2>1, OthersGuarded DEF End, TypeOK
  <2>2. pc'[p] = "idle" /\ ~written'[p]
    BY <1>1 DEF End, TypeOK
  <2> QED
    BY <1>1, <2>1, <2>2, SameKeysUnique DEF Guarded
<1>2. ASSUME NEW p \in Proc, SameKeys,
             \A q \in Proc \ {p} : /\ held'[q] = held[q] /\ pc'[q] = pc[q] /\ res'[q] = res[q]
                                   /\ want'[q] = want[q] /\ ip'[q] = ip[q] /\ mac'[q] = mac[q]
                                   /\ written'[q] = written[q],
             pc'[p] \in {"address", "mac", "write"} => PoolLock(want'[p].pool) \in held'[p],
             written'[p] => /\ PoolLock(want'[p].pool) \in held'[p]
                            /\ Keys(Chosen(p)') \subseteq held'[p]
                            /\ ~Conflicts(p)'
      PROVE  Guarded' /\ KeysUnique'
  <2>1. ASSUME NEW q \in Proc, q # p
        PROVE  /\ pc'[q] \in {"address", "mac", "write"} => PoolLock(want'[q].pool) \in held'[q]
               /\ written'[q] => /\ PoolLock(want'[q].pool) \in held'[q]
                                 /\ Keys(Chosen(q)') \subseteq held'[q]
                                 /\ ~Conflicts(q)'
    BY <1>2, <2>1, OthersGuarded
  <2> QED
    BY <1>2, <2>1, SameKeysUnique DEF Guarded
<1>3. UNCHANGED rows => SameKeys
  BY DEF SameKeys
<1>4. ASSUME NEW p \in Proc, BeginApply(p) PROVE Guarded' /\ KeysUnique'
  <2>1. CASE End(p, "busy")
    BY <1>1, <1>3, <1>4, <2>1 DEF BeginApply
  <2>2. CASE ~End(p, "busy")
    <3>1. pc'[p] = "declare" /\ ~written'[p]
      BY <1>4, <2>2 DEF BeginApply, TypeOK, WorkOK
    <3> QED
      BY <1>2, <1>3, <1>4, <2>2, <3>1 DEF BeginApply, TypeOK
  <2> QED
    BY <2>1, <2>2
<1>5. ASSUME NEW p \in Proc, BeginDelete(p) PROVE Guarded' /\ KeysUnique'
  <2>1. pc'[p] = "deleting" /\ ~written'[p]
    BY <1>5 DEF BeginDelete, TypeOK, WorkOK
  <2> QED
    BY <1>2, <1>3, <1>5, <2>1 DEF BeginDelete, TypeOK
<1>6. ASSUME NEW p \in Proc, Declare(p) PROVE Guarded' /\ KeysUnique'
  <2>1. CASE End(p, "replacement")
    BY <1>1, <1>3, <1>6, <2>1 DEF Declare
  <2>2. CASE ~End(p, "replacement")
    <3>1. pc'[p] \in {"persist", "pool"} /\ ~written'[p]
      BY <1>6, <2>2 DEF Declare, TypeOK, WorkOK
    <3> QED
      BY <1>2, <1>3, <1>6, <2>2, <3>1 DEF Declare, TypeOK
  <2> QED
    BY <2>1, <2>2
<1>7. ASSUME NEW p \in Proc, LockPool(p) PROVE Guarded' /\ KeysUnique'
  <2>1. PoolLock(want'[p].pool) \in held'[p] /\ ~written'[p]
    BY <1>7 DEF LockPool, Needs, TypeOK, WorkOK
  <2> QED
    BY <1>2, <1>3, <1>7, <2>1 DEF LockPool, TypeOK
<1>8. ASSUME NEW p \in Proc, ScanAddress(p) PROVE Guarded' /\ KeysUnique'
  <2>1. CASE End(p, "exhausted")
    BY <1>1, <1>3, <1>8, <2>1 DEF ScanAddress
  <2>2. CASE ~End(p, "exhausted")
    <3>1. PoolLock(want'[p].pool) \in held'[p] /\ ~written'[p]
      BY <1>8, <2>2 DEF ScanAddress, Guarded, WorkOK
    <3> QED
      BY <1>2, <1>3, <1>8, <2>2, <3>1 DEF ScanAddress, TypeOK
  <2> QED
    BY <2>1, <2>2
<1>9. ASSUME NEW p \in Proc, ScanMac(p) PROVE Guarded' /\ KeysUnique'
  <2>1. CASE End(p, "exhausted")
    BY <1>1, <1>3, <1>9, <2>1 DEF ScanMac
  <2>2. CASE ~End(p, "exhausted")
    <3>1. PoolLock(want'[p].pool) \in held'[p] /\ ~written'[p]
      BY <1>9, <2>2 DEF ScanMac, Guarded, WorkOK
    <3> QED
      BY <1>2, <1>3, <1>9, <2>2, <3>1 DEF ScanMac, TypeOK
  <2> QED
    BY <2>1, <2>2
<1>10. ASSUME NEW p \in Proc, WriteRow(p) PROVE Guarded' /\ KeysUnique'
  <2>1. CASE End(p, "duplicate")
    BY <1>1, <1>3, <1>10, <2>1 DEF WriteRow
  <2>2. CASE ~End(p, "duplicate")
    <3>1. PoolLock(want'[p].pool) \in held'[p] /\ pc'[p] = "persist"
      BY <1>10, <2>2 DEF WriteRow, Guarded, TypeOK
    <3>2. Chosen(p)' = Chosen(p) /\ Keys(Chosen(p)) \subseteq Needs(p)
      BY <1>10, <2>2 DEF WriteRow, Chosen, Needs, Touched
    <3>3. Keys(Chosen(p)') \subseteq held'[p]
      BY <1>10, <2>2, <3>2 DEF WriteRow, TypeOK
    <3>4. ~Conflicts(p)'
      BY <1>10, <2>2 DEF WriteRow, Conflicts
    <3> QED
      BY <1>2, <1>3, <1>10, <2>2, <3>1, <3>3, <3>4 DEF WriteRow, TypeOK
  <2> QED
    BY <2>1, <2>2
<1>11. ASSUME NEW p \in Proc, Persist(p) PROVE Guarded' /\ KeysUnique'
  <2>1. CASE ~written[p]
    BY <1>1, <1>3, <1>11, <2>1 DEF Persist
  <2>2. CASE written[p]
    <3>1. res[p] \in Resource /\ rows' = [rows EXCEPT ![res[p]] = Chosen(p)]
      BY <1>11, <2>2 DEF Persist, WorkOK, Applying
    <3>2. Chosen(p).ip = ip[p] /\ Chosen(p).mac = mac[p]
      BY DEF Chosen
    <3>3. KeysUnique'
      BY <2>2, <3>1, <3>2 DEF KeysUnique, Guarded, Conflicts, TypeOK
    <3>4. ASSUME NEW q \in Proc, q # p
          PROVE  /\ pc'[q] \in {"address", "mac", "write"} => PoolLock(want'[q].pool) \in held'[q]
                 /\ written'[q] => /\ PoolLock(want'[q].pool) \in held'[q]
                                   /\ Keys(Chosen(q)') \subseteq held'[q]
                                   /\ ~Conflicts(q)'
      <4>1. /\ held'[q] = held[q] /\ pc'[q] = pc[q] /\ res'[q] = res[q] /\ want'[q] = want[q]
            /\ ip'[q] = ip[q] /\ mac'[q] = mac[q] /\ written'[q] = written[q]
        BY <1>11, <3>4 DEF Persist, End, TypeOK
      <4>2. written[q] => ip[q] # ip[p] /\ mac[q] # mac[p]
        <5>1. written[q] => IpKey(ip[q]) \in held[q] /\ MacKey(mac[q]) \in held[q]
          BY DEF Guarded, Keys, Chosen
        <5>2. IpKey(ip[p]) \in held[p] /\ MacKey(mac[p]) \in held[p]
          BY <2>2 DEF Guarded, Keys, Chosen
        <5> QED
          BY <3>4, <5>1, <5>2 DEF Exclusive
      <4>3. written'[q] => ~Conflicts(q)'
        BY <3>1, <3>2, <4>1, <4>2 DEF Conflicts, Guarded, TypeOK
      <4>4. Chosen(q)' = Chosen(q)
        BY <4>1 DEF Chosen
      <4> QED
        BY <4>1, <4>3, <4>4 DEF Guarded
    <3>5. pc'[p] = "idle" /\ ~written'[p]
      BY <1>11 DEF Persist, End, TypeOK
    <3> QED
      BY <3>3, <3>4, <3>5 DEF Guarded
  <2> QED
    BY <2>1, <2>2
<1>12. ASSUME NEW p \in Proc, DriversDone(p) \/ MarkAbsent(p) \/ ReleaseRow(p)
       PROVE  Guarded' /\ KeysUnique'
  <2>1. pc'[p] \in Completing /\ ~written'[p] /\ UNCHANGED rows
    BY <1>12 DEF DriversDone, MarkAbsent, ReleaseRow, Completing, TypeOK, WorkOK
  <2> QED
    BY <1>2, <1>3, <1>12, <2>1 DEF DriversDone, MarkAbsent, ReleaseRow, Completing, TypeOK
<1>13. ASSUME NEW p \in Proc, Archive(p) PROVE Guarded' /\ KeysUnique'
  <2>1. res[p] \in Resource /\ rows[res[p]] \in Row
    BY <1>13 DEF Archive, WorkOK, Completing, TypeOK
  <2>2. SameKeys
    BY <1>13, <2>1, RowAssumption DEF Archive, SameKeys, TypeOK, Row
  <2> QED
    BY <1>1, <1>13, <2>2 DEF Archive
<1>14. ASSUME NEW p \in Proc, Crash(p) \/ DetectDeadlock(p) PROVE Guarded' /\ KeysUnique'
  BY <1>1, <1>3, <1>14 DEF Crash, DetectDeadlock
<1>15. ASSUME NEW p \in Proc, LoseSession(p) PROVE Guarded' /\ KeysUnique'
  <2>1. pc'[p] \in {"deleting"} \cup Completing /\ ~written'[p]
    BY <1>15 DEF LoseSession, Completing, TypeOK, WorkOK
  <2> QED
    BY <1>2, <1>3, <1>15, <2>1 DEF LoseSession, Completing, TypeOK
<1>16. CASE UNCHANGED vars
  BY <1>16 DEF vars, Guarded, KeysUnique, Chosen, Conflicts
<1> QED
  BY <1>4, <1>5, <1>6, <1>7, <1>8, <1>9, <1>10, <1>11, <1>12, <1>13, <1>14, <1>15, <1>16
  DEF Next, Apply, Delete
--------------------------------------------------------------------------------
(***************************************************************************)
(* ChoiceHolds.  Only Persist makes a row live, and it holds the lock of   *)
(* the row's pool; a process between its scan and its write holds the lock *)
(* of its own.                                                             *)
(***************************************************************************)
LEMMA ChoiceStep ==
  TypeOK /\ WorkOK /\ Exclusive /\ Guarded /\ ChoiceHolds /\ [Next]_vars => ChoiceHolds'
<1> SUFFICES ASSUME TypeOK, WorkOK, Exclusive, Guarded, ChoiceHolds, [Next]_vars,
                    NEW q \in Proc, pc'[q] \in {"mac", "write"},
                    NEW s \in Resource \ {res'[q]}, Live(s)'
             PROVE  ~(rows'[s].pool = want'[q].pool /\ rows'[s].ip = ip'[q])
  BY DEF ChoiceHolds
<1> DEFINE Goal == ~(rows'[s].pool = want'[q].pool /\ rows'[s].ip = ip'[q])
<1> USE DEF Goto, Take, work
<1>1. ASSUME UNCHANGED rows, pc[q] \in {"mac", "write"},
             res'[q] = res[q], want'[q] = want[q], ip'[q] = ip[q]
      PROVE  Goal
  BY <1>1 DEF ChoiceHolds, Live
<1>2. ASSUME NEW p \in Proc, NEW a, End(p, a)
      PROVE  /\ q # p /\ pc[q] = pc'[q]
             /\ res'[q] = res[q] /\ want'[q] = want[q] /\ ip'[q] = ip[q]
  BY <1>2 DEF End, TypeOK
<1>3. ASSUME NEW p \in Proc,
             BeginApply(p) \/ BeginDelete(p) \/ Declare(p) \/ LockPool(p) \/ ScanMac(p) \/ WriteRow(p)
               \/ DriversDone(p) \/ MarkAbsent(p) \/ ReleaseRow(p) \/ LoseSession(p)
      PROVE  Goal
  <2>1. UNCHANGED rows /\ pc[q] \in {"mac", "write"} /\ res'[q] = res[q]
        /\ want'[q] = want[q] /\ ip'[q] = ip[q]
    <3>1. CASE \E a : End(p, a)
      BY <1>2, <1>3, <3>1 DEF BeginApply, BeginDelete, Declare, LockPool, ScanMac, WriteRow,
             DriversDone, MarkAbsent, ReleaseRow, LoseSession
    <3>2. CASE BeginApply(p) /\ ~ \E a : End(p, a)
      BY <3>2 DEF BeginApply, TypeOK
    <3>3. CASE (BeginDelete(p) \/ Declare(p)) /\ ~ \E a : End(p, a)
      BY <3>3 DEF BeginDelete, Declare, TypeOK
    <3>4. CASE (LockPool(p) \/ ScanMac(p)) /\ ~ \E a : End(p, a)
      BY <3>4 DEF LockPool, ScanMac, TypeOK
    <3>5. CASE WriteRow(p) /\ ~ \E a : End(p, a)
      BY <3>5 DEF WriteRow, TypeOK
    <3>6. CASE DriversDone(p) \/ MarkAbsent(p) \/ ReleaseRow(p) \/ LoseSession(p)
      BY <3>6 DEF DriversDone, MarkAbsent, ReleaseRow, LoseSession, TypeOK
    <3> QED
      BY <1>3, <3>1, <3>2, <3>3, <3>4, <3>5, <3>6
  <2> QED
    BY <1>1, <2>1
<1>4. ASSUME NEW p \in Proc, ScanAddress(p) PROVE Goal
  <2>1. CASE q # p \/ pc[p] = "mac" \/ \E a : End(p, a)
    BY <1>1, <1>2, <1>4, <2>1 DEF ScanAddress, TypeOK
  <2>2. CASE q = p /\ ~ \E a : End(p, a)
    <3>1. res'[p] = res[p] /\ want'[p] = want[p] /\ rows' = rows
      BY <1>4, <2>2 DEF ScanAddress
    <3>2. ~UsedByAnother(res[p], "ip", ip'[p])
      BY <1>4, <2>2 DEF ScanAddress, TypeOK
    <3> QED
      BY <2>2, <3>1, <3>2 DEF UsedByAnother, Live
  <2> QED
    BY <2>1, <2>2
<1>5. ASSUME NEW p \in Proc, Persist(p) PROVE Goal
  <2>1. /\ q # p /\ pc[q] \in {"mac", "write"} /\ res'[q] = res[q]
        /\ want'[q] = want[q] /\ ip'[q] = ip[q]
    BY <1>2, <1>5 DEF Persist
  <2>2. CASE ~written[p]
    BY <1>1, <1>5, <2>1, <2>2 DEF Persist
  <2>3. CASE written[p] /\ s = res[p]
    <3>1. rows'[s].pool = want[p].pool
      BY <1>5, <2>3 DEF Persist, Chosen, TypeOK
    <3>2. PoolLock(want[p].pool) \in held[p] /\ PoolLock(want[q].pool) \in held[q]
      BY <2>1, <2>3 DEF Guarded
    <3> QED
      BY <2>1, <3>1, <3>2 DEF Exclusive
  <2>4. CASE written[p] /\ s # res[p]
    <3>1. rows'[s] = rows[s]
      BY <1>5, <2>4 DEF Persist, WorkOK, TypeOK
    <3> QED
      BY <2>1, <3>1 DEF ChoiceHolds, Live
  <2> QED
    BY <2>2, <2>3, <2>4
<1>6. ASSUME NEW p \in Proc, Archive(p) PROVE Goal
  <2>1. /\ q # p /\ pc[q] \in {"mac", "write"} /\ res'[q] = res[q]
        /\ want'[q] = want[q] /\ ip'[q] = ip[q]
    BY <1>2, <1>6 DEF Archive
  <2>2. res[p] \in Resource /\ rows[res[p]] \in Row
    BY <1>6 DEF Archive, WorkOK, Completing, TypeOK
  <2>3. s # res[p] /\ rows'[s] = rows[s]
    BY <1>6, <2>2 DEF Archive, Live, TypeOK, Row
  <2> QED
    BY <2>1, <2>3 DEF ChoiceHolds, Live
<1>7. ASSUME NEW p \in Proc, Crash(p) \/ DetectDeadlock(p) PROVE Goal
  BY <1>1, <1>2, <1>7 DEF Crash, DetectDeadlock
<1>8. CASE UNCHANGED vars
  BY <1>1, <1>8 DEF vars
<1> QED
  BY <1>3, <1>4, <1>5, <1>6, <1>7, <1>8 DEF Next, Apply, Delete

THEOREM Invariance == Spec => []IInv
<1>1. IInv /\ [Next]_vars => IInv'
  BY TypeStep, ExclusiveStep, GuardedStep, ChoiceStep DEF IInv
<1> QED
  BY InitOK, <1>1, PTL DEF Spec

(* Every variable keeps its type.                                          *)
THEOREM TypeCorrect == Spec => []TypeOK
<1>1. IInv => TypeOK
  BY DEF IInv
<1> QED
  BY Invariance, <1>1, PTL

(* No two guests ever hold one address or one MAC: PostgreSQL's unique     *)
(* keys alone give it, whatever the pools and the scans.                   *)
THEOREM NoAddressShared == Spec => []OneOwner
<1>1. IInv => OneOwner
  BY DEF IInv, KeysUnique, OneOwner, Live
<1> QED
  BY Invariance, <1>1, PTL

(* The address found unused is still unused in its pool when it is written.*)
THEOREM ScanStaysValid == Spec => []ChoiceHolds
<1>1. IInv => ChoiceHolds
  BY DEF IInv
<1> QED
  BY Invariance, <1>1, PTL
--------------------------------------------------------------------------------
(***************************************************************************)
(* DeadlockNeedsLoss.  While no session was lost every command holds the   *)
(* execution lock of its resource, so nobody waits for a resource's rows;  *)
(* who waits for a pool waits for someone past it, who can only wait for a *)
(* key, whose holder waits for nobody.                                     *)
(***************************************************************************)
ExecHeld == losses = 0 => \A p \in Proc : pc[p] # "idle" => ExecLock(res[p]) \in held[p]

RowsOf(r) == {ExecLock(r), ResourceRow(r), EffectiveRow(r), AllocationRow(r)}
PoolLocks == {PoolLock(k) : k \in Pool}
KeyLocks  == {IpKey(a) : a \in Address} \cup {MacKey(m) : m \in Mac}

(* What a process can hold, by the place where it is.                      *)
HeldShape ==
    \A p \in Proc :
        /\ pc[p] = "idle" => held[p] = {}
        /\ held[p] \subseteq RowsOf(res[p]) \cup PoolLocks \cup KeyLocks
        /\ held[p] \cap PoolLocks # {} => pc[p] \in {"address", "mac", "write", "persist"}
        /\ held[p] \cap KeyLocks # {} => pc[p] \in {"persist", "archive"}

WaitInv == IInv /\ ExecHeld /\ HeldShape

(* The three kinds of lock are different locks.                            *)
LEMMA KindsDiffer ==
  /\ PoolLocks \cap KeyLocks = {}
  /\ \A r \in Resource \cup {None} : RowsOf(r) \cap PoolLocks = {} /\ RowsOf(r) \cap KeyLocks = {}
  /\ \A r, s \in Resource \cup {None} : RowsOf(r) \cap RowsOf(s) # {} => r = s
  BY DEF PoolLocks, KeyLocks, RowsOf, ExecLock, PoolLock, ResourceRow, EffectiveRow,
         AllocationRow, IpKey, MacKey

(* What the next statement waits for, by kind.                             *)
LEMMA NeedsShape ==
  ASSUME TypeOK, WorkOK, NEW p \in Proc
  PROVE  /\ pc[p] = "pool" => Needs(p) \subseteq PoolLocks
         /\ pc[p] \in {"write", "release"} => Needs(p) \subseteq RowsOf(res[p]) \cup KeyLocks
         /\ pc[p] \in {"declare", "persist", "effective", "archive"} => Needs(p) \subseteq RowsOf(res[p])
         /\ pc[p] \in {"idle", "deleting", "address", "mac"} => Needs(p) = {}
<1>1. pc[p] = "pool" => Needs(p) \subseteq PoolLocks
  BY DeclarationTyped DEF Needs, WorkOK, Applying, PoolLocks
<1>2. ASSUME NEW row \in Row PROVE Keys(row) \subseteq KeyLocks
  BY DEF Keys, Row, KeyLocks
<1>3. pc[p] = "release" => Needs(p) \subseteq RowsOf(res[p]) \cup KeyLocks
  BY <1>2 DEF Needs, WorkOK, Completing, TypeOK, RowsOf
<1>4. ASSUME pc[p] = "write" PROVE Needs(p) \subseteq RowsOf(res[p]) \cup KeyLocks
  <2>1. res[p] \in Resource /\ ip[p] \in Address /\ mac[p] \in Mac
    BY <1>4 DEF WorkOK, Applying
  <2>2. Keys(Chosen(p)) \subseteq KeyLocks
    BY <2>1 DEF Keys, Chosen, KeyLocks
  <2>3. rows[res[p]] # None => Keys(rows[res[p]]) \subseteq KeyLocks
    BY <1>2, <2>1 DEF TypeOK
  <2> QED
    BY <1>4, <2>2, <2>3 DEF Needs, Touched, RowsOf
<1>5. pc[p] \in {"declare", "persist", "effective", "archive"} => Needs(p) \subseteq RowsOf(res[p])
  BY DEF Needs, RowsOf
<1>6. pc[p] \in {"idle", "deleting", "address", "mac"} => Needs(p) = {}
  BY DEF Needs
<1> QED
  BY <1>1, <1>3, <1>4, <1>5, <1>6

LEMMA ExecStep == TypeOK /\ ExecHeld /\ [Next]_vars => ExecHeld'
<1> SUFFICES ASSUME TypeOK, ExecHeld, [Next]_vars, losses' = 0,
                    NEW q \in Proc, pc'[q] # "idle"
             PROVE  ExecLock(res'[q]) \in held'[q]
  BY DEF ExecHeld
<1> USE DEF Goto, Take, work
<1>1. ASSUME NEW p \in Proc, NEW a, End(p, a), UNCHANGED losses PROVE ExecLock(res'[q]) \in held'[q]
  BY <1>1 DEF End, ExecHeld, TypeOK
<1>2. ASSUME NEW p \in Proc, BeginApply(p) \/ BeginDelete(p) PROVE ExecLock(res'[q]) \in held'[q]
  <2>1. CASE \E a : End(p, a)
    BY <1>1, <1>2, <2>1 DEF BeginApply, BeginDelete
  <2>2. CASE ~ \E a : End(p, a)
    <3>1. PICK r \in Resource : held' = [held EXCEPT ![p] = held[p] \cup {ExecLock(r)}]
                               /\ res' = [res EXCEPT ![p] = r]
      BY <1>2, <2>2 DEF BeginApply, BeginDelete
    <3>2. losses = 0 /\ (q # p => pc'[q] = pc[q])
      BY <1>2, <2>2 DEF BeginApply, BeginDelete, TypeOK
    <3> QED
      BY <3>1, <3>2 DEF ExecHeld, TypeOK
  <2> QED
    BY <2>1, <2>2
<1>3. ASSUME NEW p \in Proc, Apply(p) PROVE ExecLock(res'[q]) \in held'[q]
  <2>1. CASE \E a : End(p, a)
    BY <1>1, <1>3, <2>1
    DEF Apply, Declare, LockPool, ScanAddress, ScanMac, WriteRow, Persist
  <2>2. CASE ~ \E a : End(p, a)
    <3>1. /\ \A x \in Proc : held[x] \subseteq held'[x] /\ res'[x] = res[x]
          /\ pc[q] # "idle" /\ losses = 0
      BY <1>3, <2>2
      DEF Apply, Declare, LockPool, ScanAddress, ScanMac, WriteRow, Persist, TypeOK
    <3> QED
      BY <3>1 DEF ExecHeld
  <2> QED
    BY <2>1, <2>2
<1>4. ASSUME NEW p \in Proc, Delete(p) PROVE ExecLock(res'[q]) \in held'[q]
  <2>1. CASE \E a : End(p, a)
    BY <1>1, <1>4, <2>1 DEF Delete, DriversDone, MarkAbsent, ReleaseRow, Archive
  <2>2. CASE ~ \E a : End(p, a)
    <3>1. /\ \A x \in Proc : held[x] \subseteq held'[x] /\ res'[x] = res[x]
          /\ pc[q] # "idle" /\ losses = 0
      BY <1>4, <2>2 DEF Delete, DriversDone, MarkAbsent, ReleaseRow, Archive, TypeOK
    <3> QED
      BY <3>1 DEF ExecHeld
  <2> QED
    BY <2>1, <2>2
<1>5. ASSUME NEW p \in Proc, Crash(p) \/ DetectDeadlock(p) PROVE ExecLock(res'[q]) \in held'[q]
  BY <1>1, <1>5 DEF Crash, DetectDeadlock
<1>6. ASSUME NEW p \in Proc, LoseSession(p) PROVE FALSE
  BY <1>6, AllocationAssumption DEF LoseSession, TypeOK
<1>7. CASE UNCHANGED vars
  BY <1>7 DEF vars, ExecHeld
<1> QED
  BY <1>2, <1>3, <1>4, <1>5, <1>6, <1>7 DEF Next

LEMMA ShapeStep == TypeOK /\ WorkOK /\ HeldShape /\ [Next]_vars => HeldShape'
<1> SUFFICES ASSUME TypeOK, WorkOK, HeldShape, [Next]_vars, NEW q \in Proc
             PROVE  /\ pc'[q] = "idle" => held'[q] = {}
                    /\ held'[q] \subseteq RowsOf(res'[q]) \cup PoolLocks \cup KeyLocks
                    /\ held'[q] \cap PoolLocks # {} => pc'[q] \in {"address", "mac", "write", "persist"}
                    /\ held'[q] \cap KeyLocks # {} => pc'[q] \in {"persist", "archive"}
  BY DEF HeldShape
<1> DEFINE Goal ==
        /\ pc'[q] = "idle" => held'[q] = {}
        /\ held'[q] \subseteq RowsOf(res'[q]) \cup PoolLocks \cup KeyLocks
        /\ held'[q] \cap PoolLocks # {} => pc'[q] \in {"address", "mac", "write", "persist"}
        /\ held'[q] \cap KeyLocks # {} => pc'[q] \in {"persist", "archive"}
<1> USE DEF Goto, Take, work
<1>1. ASSUME NEW p \in Proc, NEW a, End(p, a) PROVE Goal
  BY <1>1 DEF End, HeldShape, TypeOK
<1>2. ASSUME held'[q] \subseteq held[q], pc'[q] = pc[q], res'[q] = res[q] PROVE Goal
  BY <1>2 DEF HeldShape
<1>3. ASSUME NEW p \in Proc, BeginApply(p) \/ BeginDelete(p) PROVE Goal
  <2>1. CASE \E a : End(p, a)
    BY <1>1, <2>1
  <2>2. CASE q # p /\ ~ \E a : End(p, a)
    <3>1. PICK r \in Resource : held' = [held EXCEPT ![p] = held[p] \cup {ExecLock(r)}]
                               /\ res' = [res EXCEPT ![p] = r]
      BY <1>3, <2>2 DEF BeginApply, BeginDelete
    <3>2. pc'[q] = pc[q]
      BY <1>3, <2>2 DEF BeginApply, BeginDelete, TypeOK
    <3> QED
      BY <1>2, <2>2, <3>1, <3>2 DEF TypeOK
  <2>3. CASE q = p /\ ~ \E a : End(p, a)
    <3>1. PICK r \in Resource : held'[p] = held[p] \cup {ExecLock(r)} /\ res'[p] = r
      BY <1>3, <2>3 DEF BeginApply, BeginDelete, TypeOK
    <3>2. pc[p] = "idle" /\ pc'[p] \in {"declare", "deleting"}
      BY <1>3, <2>3 DEF BeginApply, BeginDelete, TypeOK
    <3>3. held'[p] = {ExecLock(r)}
      BY <3>1, <3>2 DEF HeldShape
    <3>4. ExecLock(r) \in RowsOf(r) /\ ExecLock(r) \notin PoolLocks \cup KeyLocks
      BY KindsDiffer DEF RowsOf
    <3> QED
      BY <2>3, <3>1, <3>2, <3>3, <3>4
  <2> QED
    BY <2>1, <2>2, <2>3
<1>4. ASSUME NEW p \in Proc, Apply(p) \/ Delete(p), q # p PROVE Goal
  <2>1. CASE \E a : End(p, a)
    BY <1>1, <2>1
  <2>2. CASE ~ \E a : End(p, a)
    <3>1. held'[q] = held[q] /\ pc'[q] = pc[q] /\ res'[q] = res[q]
      BY <1>4, <2>2
      DEF Apply, Declare, LockPool, ScanAddress, ScanMac, WriteRow, Persist,
          Delete, DriversDone, MarkAbsent, ReleaseRow, Archive, TypeOK
    <3> QED
      BY <1>2, <3>1
  <2> QED
    BY <2>1, <2>2
<1>5. ASSUME NEW L, Needs(q) = L, held'[q] = held[q] \cup L, res'[q] = res[q],
             \/ pc[q] = "declare" /\ pc'[q] \in {"persist", "pool"}
             \/ pc[q] = "pool" /\ pc'[q] = "address"
             \/ pc[q] = "write" /\ pc'[q] = "persist"
             \/ pc[q] = "effective" /\ pc'[q] = "release"
             \/ pc[q] = "release" /\ pc'[q] = "archive"
      PROVE  Goal
  <2>1. res[q] \in Resource
    BY <1>5 DEF WorkOK, Applying, Completing
  <2>2. /\ RowsOf(res[q]) \cap PoolLocks = {} /\ RowsOf(res[q]) \cap KeyLocks = {}
        /\ PoolLocks \cap KeyLocks = {}
    BY <2>1, KindsDiffer
  <2> QED
    BY <1>5, <2>2, NeedsShape DEF HeldShape
<1>6. ASSUME Declare(q) PROVE Goal
  <2>1. CASE ~ \E a : End(q, a)
    BY <1>5, <1>6, <2>1 DEF Declare, TypeOK
  <2> QED
    BY <1>1, <2>1
<1>7. ASSUME LockPool(q) PROVE Goal
  BY <1>5, <1>7 DEF LockPool, TypeOK
<1>8. ASSUME ScanAddress(q) \/ ScanMac(q) PROVE Goal
  <2>1. CASE ~ \E a : End(q, a)
    BY <1>8, <2>1 DEF ScanAddress, ScanMac, HeldShape, TypeOK
  <2> QED
    BY <1>1, <2>1
<1>9. ASSUME WriteRow(q) PROVE Goal
  <2>1. CASE ~ \E a : End(q, a)
    BY <1>5, <1>9, <2>1 DEF WriteRow, TypeOK
  <2> QED
    BY <1>1, <2>1
<1>10. ASSUME Persist(q) \/ Archive(q) PROVE Goal
  BY <1>1, <1>10 DEF Persist, Archive
<1>11. ASSUME DriversDone(q) PROVE Goal
  BY <1>11 DEF DriversDone, HeldShape, TypeOK
<1>12. ASSUME MarkAbsent(q) \/ ReleaseRow(q) PROVE Goal
  BY <1>5, <1>12 DEF MarkAbsent, ReleaseRow, TypeOK
<1>13. ASSUME NEW p \in Proc, Crash(p) \/ DetectDeadlock(p) PROVE Goal
  BY <1>1, <1>13 DEF Crash, DetectDeadlock
<1>14. ASSUME NEW p \in Proc, LoseSession(p) PROVE Goal
  BY <1>2, <1>14 DEF LoseSession, TypeOK
<1>15. CASE UNCHANGED vars
  BY <1>2, <1>15 DEF vars
<1> QED
  BY <1>3, <1>4, <1>6, <1>7, <1>8, <1>9, <1>10, <1>11, <1>12, <1>13, <1>14, <1>15
  DEF Next, Apply, Delete

(* Who waits for whom while no session was lost.                           *)
LEMMA WaitOrder ==
  ASSUME WaitInv, losses = 0, NEW p \in Proc, NEW q \in Proc, WaitsFor(p, q)
  PROVE  /\ pc[p] \in {"pool", "write", "release"}
         /\ pc[q] \in {"address", "mac", "write", "persist", "archive"}
         /\ pc[p] # "pool" => pc[q] \in {"persist", "archive"}
<1> USE DEF WaitInv, IInv
<1>1. PICK l : p # q /\ l \in Needs(p) /\ l \in held[q]
  BY DEF WaitsFor
<1>2. pc[q] # "idle" /\ res[q] \in Resource
  BY <1>1 DEF HeldShape, WorkOK, TypeOK, Applying, Completing
<1>3. l \notin RowsOf(res[p])
  <2> SUFFICES ASSUME l \in RowsOf(res[p]) PROVE FALSE
    OBVIOUS
  <2>1. pc[p] # "idle" /\ res[p] \in Resource
    BY <1>1, NeedsShape DEF WorkOK, TypeOK, Applying, Completing
  <2>2. l \in RowsOf(res[q])
    BY <1>1, <2>1, KindsDiffer DEF HeldShape
  <2>3. res[p] = res[q]
    BY <1>2, <2>1, <2>2, KindsDiffer
  <2>4. ExecLock(res[p]) \in held[p] /\ ExecLock(res[p]) \in held[q]
    BY <1>2, <2>1, <2>3 DEF ExecHeld
  <2> QED
    BY <1>1, <2>4 DEF Exclusive
<1>4. pc[p] \in {"pool", "write", "release"}
  BY <1>1, <1>3, NeedsShape DEF TypeOK, Applying, Completing
<1>5. CASE pc[p] = "pool"
  BY <1>1, <1>5, NeedsShape DEF HeldShape
<1>6. CASE pc[p] # "pool"
  <2>1. l \in KeyLocks
    BY <1>1, <1>3, <1>4, <1>6, NeedsShape
  <2> QED
    BY <1>1, <1>4, <1>6, <2>1 DEF HeldShape
<1> QED
  BY <1>4, <1>5, <1>6

(* While no session was lost no command ever waits in a circle.            *)
THEOREM NoDeadlock == Spec => []DeadlockNeedsLoss
<1>1. Init => WaitInv
  <2>1. Init => ExecHeld /\ HeldShape
    BY DEF Init, ExecHeld, HeldShape
  <2> QED
    BY <2>1, InitOK DEF WaitInv
<1>2. WaitInv /\ [Next]_vars => WaitInv'
  BY TypeStep, ExclusiveStep, GuardedStep, ChoiceStep, ExecStep, ShapeStep DEF WaitInv, IInv
<1>3. WaitInv => DeadlockNeedsLoss
  <2> SUFFICES ASSUME WaitInv, losses = 0, NEW S \in SUBSET Proc, Knot(S) PROVE FALSE
    BY DEF DeadlockNeedsLoss, Deadlocked
  <2>1. PICK x \in S : \E y \in S : WaitsFor(x, y)
    BY DEF Knot
  <2>2. PICK y \in S : WaitsFor(x, y)
    BY <2>1
  <2>3. PICK z \in S : WaitsFor(y, z)
    BY DEF Knot
  <2>4. PICK w \in S : WaitsFor(z, w)
    BY DEF Knot
  <2>5. pc[y] = "write"
    BY <2>2, <2>3, WaitOrder
  <2> QED
    BY <2>3, <2>4, <2>5, WaitOrder
<1> QED
  BY <1>1, <1>2, <1>3, PTL DEF Spec
================================================================================
