------------------------------- MODULE Exporter -------------------------------
(***************************************************************************)
(* The metrics exporter: internal/metrics (handler.go, postgres.go) and    *)
(* the process around it, `cpctl metrics` (cli/metrics.go, runMetrics).    *)
(*                                                                         *)
(* The handler runs for several requests at once; each scrape takes a      *)
(* connection from a pool and reads, statement by statement, a database    *)
(* that others write and migrate.  What the database holds is the number   *)
(* of transactions committed to it, which is also the clock: two moments   *)
(* between the same two commits are not told apart.                        *)
(***************************************************************************)
EXTENDS Naturals, Sequences, FiniteSets

CONSTANTS
    Request,      \* HTTP requests, each served once
    Queries,      \* SELECT statements of a snapshot
    MaxConns,     \* connections of the pool
    Required,     \* migrations that create what the statements name
    MaxCommits,   \* bound: transactions committed by the control plane
    None

VARIABLES
    installed,    \* versions of the committed schema
    altering,     \* an open transaction has altered committed tables
    readers,      \* requests whose transaction has locked the tables
    commits,      \* transactions committed to the database
    process,      \* the exporter process
    code,         \* its exit code
    phase,        \* where each request is
    stamp,        \* Snapshot.CollectedAt
    reads,        \* what each statement of the snapshot has seen
    conns,        \* requests that hold a connection of the pool
    scrapes, failures

snapshots == <<stamp, reads>>
counters  == <<scrapes, failures>>
vars == <<readers, commits, process, code, phase, snapshots, conns, counters>>

Scraping == {"waiting", "begun", "reading", "collected", "failing", "failed"}
Serving  == Scraping \cup {"probing"}
Answered == {"page", "refused", "ready", "unready"}
Up       == {"serving", "draining", "closing"}

(* Requests, connections and exit codes are those of the exporter.         *)
TypeOK ==
    /\ readers \subseteq Request /\ conns \subseteq Request
    /\ commits \in 0..MaxCommits
    /\ process \in {"starting", "exited"} \cup Up
    /\ code \in {None, "ok", "unavailable", "partial"}
    /\ phase \in [Request -> {"none", "cut"} \cup Serving \cup Answered]
    /\ stamp \in [Request -> 0..MaxCommits \cup {None}]
    /\ reads \in [Request -> Seq(0..MaxCommits)]
    /\ \A q \in Request : Len(reads[q]) <= Queries
    /\ Cardinality(conns) <= MaxConns
    /\ scrapes \in Nat /\ failures \in Nat

Init ==
    /\ readers = {} /\ commits = 0
    /\ process = "starting" /\ code = None
    /\ phase = [q \in Request |-> "none"]
    /\ stamp = [q \in Request |-> None]
    /\ reads = [q \in Request |-> <<>>]
    /\ conns = {}
    /\ scrapes = 0 /\ failures = 0
--------------------------------------------------------------------------------
InFlight == {q \in Request : phase[q] \in Serving}

Goto(q, label) == phase' = [phase EXCEPT ![q] = label]
FreeConn(q)     == conns' = conns \ {q} /\ readers' = readers \ {q}
Exit(c)        == process' = "closing" /\ code' = c

(***************************************************************************)
(* The request.                                                            *)
(***************************************************************************)
(* serveMetrics counts the scrape before anything else.                    *)
Scrape(q) ==
    /\ process = "serving" /\ phase[q] = "none"
    /\ scrapes' = scrapes + 1
    /\ Goto(q, "waiting")
    /\ UNCHANGED <<readers, commits, process, code, snapshots, conns, failures>>

(* serveReady: Ping borrows a connection; without one it waits, and its    *)
(* context may expire.                                                     *)
Probe(q) ==
    /\ process = "serving" /\ phase[q] = "none"
    /\ Goto(q, "probing")
    /\ UNCHANGED <<readers, commits, process, code, snapshots, conns, counters>>

CountProbe(q) ==   \* a mutant of Ping: a ready probe that cannot reach PostgreSQL counts as a failure
    /\ phase[q] = "probing" /\ process \in Up
    /\ Goto(q, "unready") /\ failures' = failures + 1
    /\ UNCHANGED <<readers, commits, process, code, snapshots, conns, scrapes>>

Ping(q) ==
    /\ phase[q] = "probing" /\ process \in Up
    /\ \/ /\ process # "closing" /\ Cardinality(conns) < MaxConns
          /\ Goto(q, "ready")
       \/ Goto(q, "unready")
    /\ UNCHANGED <<readers, commits, process, code, snapshots, conns, counters>>

NewConnection(q) ==   \* a mutant of Begin: every scrape connects, the pool has no limit
    /\ phase[q] = "waiting" /\ process \in Up \ {"closing"}
    /\ conns' = conns \cup {q}
    /\ Goto(q, "begun")
    /\ UNCHANGED <<readers, commits, process, code, snapshots, counters>>

(* pool.BeginTx: a free connection, then BEGIN.                            *)
Begin(q) ==
    /\ phase[q] = "waiting" /\ process \in Up \ {"closing"}
    /\ Cardinality(conns) < MaxConns
    /\ conns' = conns \cup {q}
    /\ Goto(q, "begun")
    /\ UNCHANGED <<readers, commits, process, code, snapshots, counters>>

(* CollectedAt: the time after BEGIN and before the first statement.       *)
Stamp(q) ==
    /\ phase[q] = "begun" /\ process \in Up
    /\ stamp' = [stamp EXCEPT ![q] = commits]
    /\ Goto(q, "reading")
    /\ UNCHANGED <<readers, commits, process, code, reads, conns, counters>>

ReadCommitted(q) ==   \* a mutant of View: READ COMMITTED, the default isolation level
    commits

(* REPEATABLE READ: the first statement takes the snapshot of the others.  *)
View(q) == IF reads[q] = <<>> THEN commits ELSE reads[q][1]

(* A statement waits for a transaction that has altered the tables, and    *)
(* fails when a table or column is missing.  What it has read stays locked *)
(* until the transaction ends; an error aborts the transaction, and        *)
(* PostgreSQL gives up its locks at once: only the connection is kept.     *)
Query(q) ==
    /\ phase[q] = "reading" /\ Len(reads[q]) < Queries /\ process \in Up
    /\ installed # {} => ~altering
    /\ IF Required \subseteq installed
       THEN /\ reads' = [reads EXCEPT ![q] = Append(@, View(q))]
            /\ readers' = readers \cup {q}
            /\ UNCHANGED phase
       ELSE /\ Goto(q, "failing")
            /\ readers' = readers \ {q}
            /\ UNCHANGED reads
    /\ UNCHANGED <<commits, process, code, stamp, conns, counters>>

StampLast(q) ==   \* a mutant of CommitSnapshot: collectedAt is set when the snapshot is complete
    /\ phase[q] = "reading" /\ Len(reads[q]) = Queries /\ process \in Up
    /\ stamp' = [stamp EXCEPT ![q] = commits]
    /\ FreeConn(q)
    /\ Goto(q, "collected")
    /\ UNCHANGED <<commits, process, code, reads, counters>>

CommitSnapshot(q) ==
    /\ phase[q] = "reading" /\ Len(reads[q]) = Queries /\ process \in Up
    /\ FreeConn(q)
    /\ Goto(q, "collected")
    /\ UNCHANGED <<commits, process, code, snapshots, counters>>

(* The query timeout, a cancelled request, a lost or refused connection.   *)
(* An error of the server gives up the locks, one of the client does not.  *)
FailSnapshot(q) ==
    /\ process \in Up
    /\ \/ phase[q] = "waiting" /\ Goto(q, "failed") /\ UNCHANGED readers
       \/ /\ phase[q] \in {"begun", "reading"} /\ Goto(q, "failing")
          /\ readers' \in {readers, readers \ {q}}
    /\ UNCHANGED <<commits, process, code, snapshots, conns, counters>>

Leak(q) ==   \* a mutant of Rollback: an error returns without the transaction being ended
    /\ phase[q] = "failing" /\ process \in Up
    /\ Goto(q, "failed")
    /\ UNCHANGED <<readers, commits, process, code, snapshots, conns, counters>>

(* The deferred Rollback of Snapshot; a connection on which it fails is    *)
(* closed and leaves the pool as well.                                     *)
Rollback(q) ==
    /\ phase[q] = "failing" /\ process \in Up
    /\ FreeConn(q)
    /\ Goto(q, "failed")
    /\ UNCHANGED <<commits, process, code, snapshots, counters>>

(* 200 with the snapshot, or 503 with the exporter's own metrics.          *)
Render(q) ==
    /\ phase[q] = "collected" /\ process \in Up
    /\ Goto(q, "page")
    /\ UNCHANGED <<readers, commits, process, code, snapshots, conns, counters>>

Refuse(q) ==
    /\ phase[q] = "failed" /\ process \in Up
    /\ failures' = failures + 1
    /\ Goto(q, "refused")
    /\ UNCHANGED <<readers, commits, process, code, snapshots, conns, scrapes>>
--------------------------------------------------------------------------------
(***************************************************************************)
(* The process.                                                            *)
(***************************************************************************)
(* The pool answers a ping and the port is free, or runMetrics returns.    *)
Open ==
    /\ process = "starting"
    /\ \/ process' = "serving" /\ UNCHANGED code
       \/ process' = "exited" /\ code' = "unavailable"
    /\ UNCHANGED <<readers, commits, phase, snapshots, conns, counters>>

(* SIGTERM: Shutdown closes the listener and waits for the requests.       *)
Terminate ==
    /\ process = "serving" /\ process' = "draining"
    /\ UNCHANGED <<readers, commits, code, phase, snapshots, conns, counters>>

CloseNow ==   \* a mutant of Drained: the listener is closed but requests are not waited for
    /\ process = "draining"
    /\ Exit("ok")
    /\ UNCHANGED <<readers, commits, phase, snapshots, conns, counters>>

Drained ==
    /\ process = "draining" /\ InFlight = {}
    /\ Exit("ok")
    /\ UNCHANGED <<readers, commits, phase, snapshots, conns, counters>>

ShutdownTimeout ==
    /\ process = "draining" /\ InFlight # {}
    /\ Exit("partial")
    /\ UNCHANGED <<readers, commits, phase, snapshots, conns, counters>>

(* Serve returns an error: runMetrics returns without a shutdown.          *)
ServeFails ==
    /\ process = "serving"
    /\ Exit("partial")
    /\ UNCHANGED <<readers, commits, phase, snapshots, conns, counters>>

CutOff == phase' = [q \in Request |-> IF phase[q] \in Serving THEN "cut" ELSE phase[q]]

(* The deferred source.Close waits for every connection; what is still     *)
(* being served then is cut off by the end of the process.                 *)
Close ==
    /\ process = "closing" /\ conns = {}
    /\ process' = "exited"
    /\ CutOff
    /\ UNCHANGED <<readers, commits, code, snapshots, conns, counters>>

(* The process is killed; PostgreSQL ends its sessions.                    *)
Kill ==
    /\ process \in Up
    /\ process' = "exited"
    /\ CutOff
    /\ conns' = {} /\ readers' = {}
    /\ UNCHANGED <<commits, code, snapshots, counters>>

(* The control plane commits a transaction.                                *)
Write ==
    /\ commits < MaxCommits
    /\ commits' = commits + 1
    /\ UNCHANGED <<readers, process, code, phase, snapshots, conns, counters>>
--------------------------------------------------------------------------------
Handle(q) ==
    \/ Ping(q) \/ Begin(q) \/ Stamp(q) \/ Query(q) \/ CommitSnapshot(q)
    \/ Rollback(q) \/ Render(q) \/ Refuse(q)

Next ==
    \/ \E q \in Request : Scrape(q) \/ Probe(q) \/ Handle(q) \/ FailSnapshot(q)
    \/ Open \/ Terminate \/ Drained \/ ShutdownTimeout \/ ServeFails \/ Close \/ Kill
    \/ Write

(* Goroutines are scheduled, the query timeout expires, and so does the    *)
(* shutdown timeout.                                                       *)
Fairness ==
    /\ \A q \in Request : WF_vars(Handle(q)) /\ WF_vars(FailSnapshot(q))
    /\ WF_vars(Drained) /\ WF_vars(ShutdownTimeout) /\ WF_vars(Close)
--------------------------------------------------------------------------------
(* A page is one state of the database, although four statements read it   *)
(* while others write.                                                     *)
OneSnapshot ==
    \A q \in Request, i, j \in 1..Queries :
        phase[q] \in {"collected", "page"} => reads[q][i] = reads[q][j]

(* A page holds everything committed before the time it carries.           *)
NotOlderThanStamped ==
    \A q \in Request : phase[q] \in {"collected", "page"} =>
        \A i \in 1..Queries : reads[q][i] >= stamp[q]

(* The counters account for every scrape, however requests interleave:     *)
(* those that have not failed are answered, in progress, or cut off.       *)
ScrapesAccounted ==
    Cardinality({q \in Request : phase[q] \in Scraping \cup {"page"}}) + failures <= scrapes

(* Exit code 0 after SIGTERM: no request was cut off.                      *)
CleanExit == process = "exited" /\ code = "ok" => \A q \in Request : phase[q] # "cut"

(* SIGTERM ends the process: a failed scrape gives its connection back, so *)
(* closing the pool does not wait for ever.                                *)
Stops == process \in {"draining", "closing"} ~> process = "exited"
================================================================================
