------------------------------ MODULE Allocation ------------------------------
(***************************************************************************)
(* IPAM among several resources: the allocation part of every preparation  *)
(* transaction of internal/state/postgres (ensureAllocation, its pool lock *)
(* and its scans), the transaction that releases an allocation when a      *)
(* delete completes (CompleteOperation), and what PostgreSQL does to both: *)
(* row locks, unique keys, rollbacks and the deadlock detector.            *)
(*                                                                         *)
(* A statement is one step.  Every scan statement sees what is committed   *)
(* when it runs (READ COMMITTED), so a scan is a sequence of looks at a    *)
(* database that changes between them.  What a delete does to the host     *)
(* before it completes, and the journal, are module Execution.             *)
(***************************************************************************)
EXTENDS Naturals, Sequences, FiniteSets

CONSTANTS
    Proc,            \* cpctl processes
    Resource,        \* names of managed VMs
    Pools,           \* site.pools: name |-> addresses from first_host to last_host
    Candidates,      \* MAC candidates of a resource by counter, bounded
    Declarations,    \* what manifests ask for: [pool, image]
    MaxLosses,       \* bound: execution sessions lost under a live delete
    None

Pool    == DOMAIN Pools
Image   == {d.image : d \in Declarations}
Address == UNION {{Pools[k][i] : i \in DOMAIN Pools[k]} : k \in Pool}
Mac     == UNION {{Candidates[r][i] : i \in DOMAIN Candidates[r]} : r \in Resource}

ASSUME AllocationAssumption ==
    /\ \A k \in Pool : Pools[k] \in Seq(Address)
    /\ Candidates \in [Resource -> Seq(Mac)]
    /\ Declarations \subseteq [pool : Pool, image : Image]
    /\ MaxLosses \in Nat
    /\ None \notin Resource \cup Declarations \cup Address \cup Mac

Row == [pool : Pool, image : Image, ip : Address, mac : Mac, live : BOOLEAN]

ASSUME RowAssumption == None \notin Row

(***************************************************************************)
(* What a session waits for: advisory locks, rows, and index entries of    *)
(* rows that another open transaction has written.                         *)
(***************************************************************************)
ExecLock(r)     == <<"execute", r>>
PoolLock(k)     == <<"pool", k>>
ResourceRow(r)  == <<"resources", r>>
EffectiveRow(r) == <<"vm_effective", r>>
AllocationRow(r) == <<"vm_allocations", r>>
IpKey(a)        == <<"ip_address", a>>
MacKey(m)       == <<"mac_address", m>>
Keys(row)       == {IpKey(row.ip), MacKey(row.mac)}

Lock == {ExecLock(r) : r \in Resource} \cup {PoolLock(k) : k \in Pool}
          \cup {ResourceRow(r) : r \in Resource} \cup {EffectiveRow(r) : r \in Resource}
          \cup {AllocationRow(r) : r \in Resource}
          \cup {IpKey(a) : a \in Address} \cup {MacKey(m) : m \in Mac}

VARIABLES
    rows,      \* vm_allocations, committed; a row stays when it is released
    held,      \* locks of each process's sessions
    pc,        \* where the process is
    res,       \* the resource it works on
    want,      \* the declaration it prepares
    cursor,    \* the candidate its scan looks at next
    ip, mac,   \* what its scans chose
    written,   \* its transaction has written the row
    reply,     \* the answer of a command that ended in the last step
    losses

work == <<res, want, cursor, ip, mac, written>>
vars == <<rows, held, pc, work, reply, losses>>

Applying   == {"declare", "pool", "address", "mac", "write", "persist"}
Completing == {"effective", "release", "archive"}
Answer == {"busy", "reused", "allocated", "replacement", "exhausted",
           "duplicate", "deadlock", "deleted"}

(* Locks, rows and labels are those of the schema and of the commands.     *)
TypeOK ==
    /\ rows \in [Resource -> Row \cup {None}]
    /\ held \in [Proc -> SUBSET Lock]
    /\ pc \in [Proc -> {"idle", "deleting"} \cup Applying \cup Completing]
    /\ res \in [Proc -> Resource \cup {None}]
    /\ want \in [Proc -> Declarations \cup {None}]
    /\ cursor \in [Proc -> Nat]
    /\ ip \in [Proc -> Address \cup {None}]
    /\ mac \in [Proc -> Mac \cup {None}]
    /\ written \in [Proc -> BOOLEAN]
    /\ reply \in Answer \cup {None}
    /\ losses \in 0..MaxLosses

Init ==
    /\ rows = [r \in Resource |-> None]
    /\ held = [p \in Proc |-> {}]
    /\ pc = [p \in Proc |-> "idle"]
    /\ res = [p \in Proc |-> None] /\ want = [p \in Proc |-> None]
    /\ cursor = [p \in Proc |-> 1]
    /\ ip = [p \in Proc |-> None] /\ mac = [p \in Proc |-> None]
    /\ written = [p \in Proc |-> FALSE]
    /\ reply = None /\ losses = 0
--------------------------------------------------------------------------------
(***************************************************************************)
(* Locks.                                                                  *)
(***************************************************************************)
Holders(l) == {p \in Proc : l \in held[p]}
Free(p, L) == \A l \in L : Holders(l) \subseteq {p}
Take(p, L) == held' = [held EXCEPT ![p] = @ \cup L]

Live(r)  == rows[r] # None /\ rows[r].live
Chosen(p) == [pool |-> want[p].pool, image |-> want[p].image,
              ip |-> ip[p], mac |-> mac[p], live |-> TRUE]

(* Index entries a write of the row touches: those of the version it       *)
(* replaces and those of the new one.                                      *)
Touched(p) ==
    {AllocationRow(res[p])} \cup Keys(Chosen(p))
      \cup (IF rows[res[p]] = None THEN {} ELSE Keys(rows[res[p]]))

(* The locks the process's next statement cannot run without.              *)
Needs(p) ==
    CASE pc[p] = "declare"   -> {ResourceRow(res[p])}
      [] pc[p] = "pool"      -> {PoolLock(want[p].pool)}
      [] pc[p] = "write"     -> Touched(p)
      [] pc[p] = "persist"   -> {EffectiveRow(res[p])}
      [] pc[p] = "effective" -> {EffectiveRow(res[p])}
      [] pc[p] = "release"   -> {AllocationRow(res[p])} \cup Keys(rows[res[p]])
      [] pc[p] = "archive"   -> {ResourceRow(res[p])}
      [] OTHER               -> {}

Goto(p, label) == pc' = [pc EXCEPT ![p] = label]

(* COMMIT or ROLLBACK, and the end of the command: every lock is freed.    *)
End(p, answer) ==
    /\ Goto(p, "idle")
    /\ held' = [held EXCEPT ![p] = {}]
    /\ res' = [res EXCEPT ![p] = None] /\ want' = [want EXCEPT ![p] = None]
    /\ cursor' = [cursor EXCEPT ![p] = 1]
    /\ ip' = [ip EXCEPT ![p] = None] /\ mac' = [mac EXCEPT ![p] = None]
    /\ written' = [written EXCEPT ![p] = FALSE]
    /\ reply' = answer
--------------------------------------------------------------------------------
(***************************************************************************)
(* apply: the preparation transaction.                                     *)
(***************************************************************************)
NeverBusy(p) ==   \* a mutant of BeginApply: does not try the execution lock
    /\ pc[p] = "idle"
    /\ \E r \in Resource, d \in Declarations :
          /\ Goto(p, "declare")
          /\ res' = [res EXCEPT ![p] = r] /\ want' = [want EXCEPT ![p] = d]
    /\ reply' = None
    /\ UNCHANGED <<rows, held, cursor, ip, mac, written, losses>>

(* lockExecutionPreparation tries the execution lock and never waits.  The *)
(* resource's own advisory lock is taken under it, so never contended.     *)
BeginApply(p) ==
    /\ pc[p] = "idle"
    /\ \E r \in Resource, d \in Declarations :
          \/ /\ Free(p, {ExecLock(r)})
             /\ Take(p, {ExecLock(r)})
             /\ Goto(p, "declare")
             /\ res' = [res EXCEPT ![p] = r] /\ want' = [want EXCEPT ![p] = d]
             /\ reply' = None
             /\ UNCHANGED <<cursor, ip, mac, written>>
          \/ /\ ~Free(p, {ExecLock(r)})
             /\ End(p, "busy")
    /\ UNCHANGED <<rows, losses>>

(* prepareDeclaration locks the row of resources; ensureAllocation then    *)
(* looks for an active allocation.  One is reused, or the apply refused    *)
(* when the declaration names another pool or image.                       *)
Declare(p) ==
    /\ pc[p] = "declare"
    /\ Free(p, Needs(p))
    /\ LET row == rows[res[p]]
       IN  \/ /\ Live(res[p])
              /\ row.pool = want[p].pool /\ row.image = want[p].image
              /\ Take(p, Needs(p)) /\ Goto(p, "persist")
              /\ reply' = None /\ UNCHANGED work
           \/ /\ Live(res[p])
              /\ row.pool # want[p].pool \/ row.image # want[p].image
              /\ End(p, "replacement")
           \/ /\ ~Live(res[p])
              /\ Take(p, Needs(p)) /\ Goto(p, "pool")
              /\ reply' = None /\ UNCHANGED work
    /\ UNCHANGED <<rows, losses>>

ScanUnlocked(p) ==   \* a mutant of LockPool: scans without the pool's lock
    /\ pc[p] = "pool"
    /\ Goto(p, "address") /\ reply' = None
    /\ UNCHANGED <<rows, held, work, losses>>

LockPool(p) ==
    /\ pc[p] = "pool"
    /\ Free(p, Needs(p))
    /\ Take(p, Needs(p)) /\ Goto(p, "address") /\ reply' = None
    /\ UNCHANGED <<rows, work, losses>>

(* SELECT EXISTS (... released_at IS NULL AND resource_uuid <> $2).        *)
UsedByAnother(r, field, value) ==
    \E s \in Resource \ {r} : Live(s) /\ rows[s][field] = value

WaitForAddress(p) ==   \* a mutant of ScanAddress: starts over instead of giving up
    /\ pc[p] = "address"
    /\ LET hosts == Pools[want[p].pool]
       IN  \/ /\ cursor[p] \in DOMAIN hosts
              /\ UsedByAnother(res[p], "ip", hosts[cursor[p]])
              /\ cursor' = [cursor EXCEPT ![p] = (@ % Len(hosts)) + 1]
              /\ UNCHANGED <<held, pc, res, want, ip, mac, written>>
           \/ /\ cursor[p] \in DOMAIN hosts
              /\ ~UsedByAnother(res[p], "ip", hosts[cursor[p]])
              /\ ip' = [ip EXCEPT ![p] = hosts[cursor[p]]]
              /\ cursor' = [cursor EXCEPT ![p] = 1]
              /\ Goto(p, "mac")
              /\ UNCHANGED <<held, res, want, mac, written>>
    /\ reply' = None
    /\ UNCHANGED <<rows, losses>>

(* One statement per address, in order; the first unused one is chosen.    *)
ScanAddress(p) ==
    /\ pc[p] = "address"
    /\ LET hosts == Pools[want[p].pool]
       IN  \/ /\ cursor[p] \in DOMAIN hosts
              /\ UsedByAnother(res[p], "ip", hosts[cursor[p]])
              /\ cursor' = [cursor EXCEPT ![p] = @ + 1]
              /\ reply' = None
              /\ UNCHANGED <<held, pc, res, want, ip, mac, written>>
           \/ /\ cursor[p] \in DOMAIN hosts
              /\ ~UsedByAnother(res[p], "ip", hosts[cursor[p]])
              /\ ip' = [ip EXCEPT ![p] = hosts[cursor[p]]]
              /\ cursor' = [cursor EXCEPT ![p] = 1]
              /\ Goto(p, "mac") /\ reply' = None
              /\ UNCHANGED <<held, res, want, mac, written>>
           \/ /\ cursor[p] \notin DOMAIN hosts
              /\ End(p, "exhausted")
    /\ UNCHANGED <<rows, losses>>

ScanMac(p) ==
    /\ pc[p] = "mac"
    /\ LET macs == Candidates[res[p]]
       IN  \/ /\ cursor[p] \in DOMAIN macs
              /\ UsedByAnother(res[p], "mac", macs[cursor[p]])
              /\ cursor' = [cursor EXCEPT ![p] = @ + 1]
              /\ reply' = None
              /\ UNCHANGED <<held, pc, res, want, ip, mac, written>>
           \/ /\ cursor[p] \in DOMAIN macs
              /\ ~UsedByAnother(res[p], "mac", macs[cursor[p]])
              /\ mac' = [mac EXCEPT ![p] = macs[cursor[p]]]
              /\ Goto(p, "write") /\ reply' = None
              /\ UNCHANGED <<held, res, want, cursor, ip, written>>
           \/ /\ cursor[p] \notin DOMAIN macs
              /\ End(p, "exhausted")
    /\ UNCHANGED <<rows, losses>>

UniqueAddress(p) ==   \* a mutant of Conflicts: UNIQUE (ip_address) alone
    \E s \in Resource \ {res[p]} : rows[s] # None /\ rows[s].ip = ip[p]

(* UNIQUE (ip_address), UNIQUE (mac_address): over every row, released or  *)
(* not.  Datasets and zvols carry the resource's name and never collide.   *)
Conflicts(p) ==
    \E s \in Resource \ {res[p]} :
        rows[s] # None /\ (rows[s].ip = ip[p] \/ rows[s].mac = mac[p])

(* INSERT, or UPDATE of the row of an earlier life.  It waits for a        *)
(* transaction that has written the same key, then fails on a duplicate.   *)
WriteRow(p) ==
    /\ pc[p] = "write"
    /\ Free(p, Needs(p))
    /\ \/ /\ ~Conflicts(p)
          /\ Take(p, Needs(p)) /\ Goto(p, "persist")
          /\ written' = [written EXCEPT ![p] = TRUE]
          /\ reply' = None
          /\ UNCHANGED <<res, want, cursor, ip, mac>>
       \/ /\ Conflicts(p)
          /\ End(p, "duplicate")
    /\ UNCHANGED <<rows, losses>>

(* The operation's rows are inserted, vm_effective is upserted, COMMIT.    *)
Persist(p) ==
    /\ pc[p] = "persist"
    /\ Free(p, Needs(p))
    /\ rows' = IF written[p] THEN [rows EXCEPT ![res[p]] = Chosen(p)] ELSE rows
    /\ End(p, IF written[p] THEN "allocated" ELSE "reused")
    /\ UNCHANGED losses
--------------------------------------------------------------------------------
(***************************************************************************)
(* delete: the executor holds the execution lock while its drivers run,    *)
(* then CompleteOperation updates vm_effective, vm_allocations, resources. *)
(***************************************************************************)
BeginDelete(p) ==
    /\ pc[p] = "idle"
    /\ \E r \in Resource :
          /\ Live(r)
          /\ Free(p, {ExecLock(r)})
          /\ Take(p, {ExecLock(r)})
          /\ Goto(p, "deleting")
          /\ res' = [res EXCEPT ![p] = r]
    /\ reply' = None
    /\ UNCHANGED <<rows, want, cursor, ip, mac, written, losses>>

DriversDone(p) ==
    /\ pc[p] = "deleting"
    /\ Goto(p, "effective") /\ reply' = None
    /\ UNCHANGED <<rows, held, work, losses>>

MarkAbsent(p) ==
    /\ pc[p] = "effective"
    /\ Free(p, Needs(p))
    /\ Take(p, Needs(p)) /\ Goto(p, "release") /\ reply' = None
    /\ UNCHANGED <<rows, work, losses>>

ReleaseRow(p) ==
    /\ pc[p] = "release"
    /\ Free(p, Needs(p))
    /\ Take(p, Needs(p)) /\ Goto(p, "archive") /\ reply' = None
    /\ UNCHANGED <<rows, work, losses>>

BlankAddress(p) ==   \* a mutant of Archive: clears the released row's address
    /\ pc[p] = "archive"
    /\ Free(p, Needs(p))
    /\ rows' = [rows EXCEPT ![res[p]].live = FALSE, ![res[p]].ip = None]
    /\ End(p, "deleted")
    /\ UNCHANGED losses

(* UPDATE resources SET archived_at, COMMIT.                               *)
Archive(p) ==
    /\ pc[p] = "archive"
    /\ Free(p, Needs(p))
    /\ rows' = [rows EXCEPT ![res[p]].live = FALSE]
    /\ End(p, "deleted")
    /\ UNCHANGED losses
--------------------------------------------------------------------------------
(***************************************************************************)
(* Failures.                                                               *)
(***************************************************************************)
(* The process dies, or its context ends: everything is rolled back.       *)
Crash(p) ==
    /\ pc[p] # "idle"
    /\ End(p, None)
    /\ UNCHANGED <<rows, losses>>

(* The session that holds the execution lock ends under a running delete.  *)
LoseSession(p) ==
    /\ pc[p] \in {"deleting"} \cup Completing
    /\ ExecLock(res[p]) \in held[p]
    /\ losses < MaxLosses
    /\ losses' = losses + 1
    /\ held' = [held EXCEPT ![p] = @ \ {ExecLock(res[p])}]
    /\ reply' = None
    /\ UNCHANGED <<rows, pc, work>>

WaitsFor(p, q) == p # q /\ Needs(p) \cap held[q] # {}
Knot(S)        == S # {} /\ \A p \in S : \E q \in S : WaitsFor(p, q)
Deadlocked(p)  ==
    \E S \in SUBSET Proc : p \in S /\ Knot(S) /\ \A T \in SUBSET S : Knot(T) => T = S

(* PostgreSQL ends one transaction of a cycle with error 40P01.            *)
DetectDeadlock(p) ==
    /\ Deadlocked(p)
    /\ End(p, "deadlock")
    /\ UNCHANGED <<rows, losses>>
--------------------------------------------------------------------------------
Apply(p)  == Declare(p) \/ LockPool(p) \/ ScanAddress(p) \/ ScanMac(p) \/ WriteRow(p) \/ Persist(p)
Delete(p) == DriversDone(p) \/ MarkAbsent(p) \/ ReleaseRow(p) \/ Archive(p)

Next ==
    \E p \in Proc :
        \/ BeginApply(p) \/ BeginDelete(p)
        \/ Apply(p) \/ Delete(p)
        \/ Crash(p) \/ LoseSession(p) \/ DetectDeadlock(p)

Spec == Init /\ [][Next]_vars

(* PostgreSQL grants a lock to its waiters in the order they came, and     *)
(* finds every deadlock; drivers end, by success, error or timeout.        *)
FairSpec ==
    /\ Spec
    /\ \A p \in Proc :
          /\ SF_vars(Apply(p)) /\ SF_vars(Delete(p))
          /\ WF_vars(DetectDeadlock(p))
--------------------------------------------------------------------------------
(***************************************************************************)
(* Properties.                                                             *)
(***************************************************************************)
(* No two guests hold one address or one MAC, whichever pools overlap,     *)
(* whichever MAC candidates collide and whatever the scans missed.         *)
OneOwner ==
    \A r, s \in Resource :
        r # s /\ Live(r) /\ Live(s) => rows[r].ip # rows[s].ip /\ rows[r].mac # rows[s].mac

(* The pool lock covers the scan and the write: the address an apply is    *)
(* about to write has not gone to another guest of that pool since the     *)
(* statement that found it unused.                                         *)
ChoiceHolds ==
    \A p \in Proc :
        pc[p] \in {"mac", "write"} =>
            ~ \E s \in Resource \ {res[p]} :
                  Live(s) /\ rows[s].pool = want[p].pool /\ rows[s].ip = ip[p]

(* Preparation locks resources, then vm_allocations, then vm_effective;    *)
(* completion locks them in the opposite order.  The execution lock alone  *)
(* keeps the two apart: while no session was lost nobody deadlocks.        *)
DeadlockNeedsLoss == losses = 0 => \A p \in Proc : ~Deadlocked(p)

(* Every command that begins ends, whatever it waits for.                  *)
Answered == \A p \in Proc : pc[p] # "idle" ~> pc[p] = "idle"

(* docs/STATE.md:46: exhaustion is a typed blocked condition; an apply     *)
(* that finds no address for its guest is not an unspecified failure.      *)
RefusalIsTyped == reply # "duplicate"
================================================================================
