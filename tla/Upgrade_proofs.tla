----------------------------- MODULE Upgrade_proofs -----------------------------
(***************************************************************************)
(* Migrations under a running exporter, for any number of runners,         *)
(* requests, statements and connections.                                   *)
(*                                                                         *)
(* A step of the exporter is a step of the sessions that Migrate leaves    *)
(* open, so all that Migrate_proofs shows holds here as well.  The other   *)
(* way round a migration changes only what a statement of a scrape finds:  *)
(* ExporterInv holds whatever is installed and whatever waits.             *)
(***************************************************************************)
EXTENDS Upgrade, Migrate_proofs, Sequences, FiniteSetTheorems

(* The phases in which Snapshot (postgres.go) has a transaction.           *)
Holding == {"begun", "reading", "failing"}

(* A connection is out of the pool exactly while a request of the living   *)
(* process is in its transaction: no way out of Snapshot keeps it, and     *)
(* nothing else keeps the tables locked.                                   *)
Connected ==
    /\ readers \subseteq conns /\ IsFiniteSet(conns)
    /\ \A q \in Request : q \in conns <=> process \in E!Up /\ phase[q] \in Holding

(* The scrapes that have neither failed nor been cut off.                  *)
Counted   == {q \in Request : phase[q] \in E!Scraping \cup {"page"}}
Accounted == IsFiniteSet(Counted) /\ Cardinality(Counted) + failures <= scrapes

(* What the statements have seen so far is one state, which is not older   *)
(* than the time that is taken before the first of them.                   *)
Snapshot ==
    \A q \in Request :
        /\ phase[q] \in {"none", "waiting", "begun"} => reads[q] = <<>>
        /\ phase[q] \in {"reading", "collected", "page"} =>
              /\ stamp[q] \in 0..commits
              /\ \A i \in 1..Len(reads[q]) :
                    reads[q][i] = reads[q][1] /\ reads[q][i] >= stamp[q]
        /\ phase[q] \in {"collected", "page"} => Len(reads[q]) = Queries

(* Requests come after the start; the exit code 0 is set when none is left *)
(* and none can come.                                                      *)
Lifetime ==
    /\ process = "starting" => \A q \in Request : phase[q] = "none"
    /\ process # "exited" => \A q \in Request : phase[q] # "cut"
    /\ code = "ok" =>
          /\ process \in {"closing", "exited"}
          /\ \A q \in Request : phase[q] \notin E!Serving \cup {"cut"}

ExporterInv == E!TypeOK /\ Connected /\ Accounted /\ Snapshot /\ Lifetime
--------------------------------------------------------------------------------
(* The operator of the instance is that of the module.                     *)
LEMMA SameCardinality == \A S : E!Cardinality(S) = Cardinality(S)
BY DEF E!Cardinality, Cardinality

(* No request and no connection before the start.                          *)
LEMMA ExporterInit == E!Init => ExporterInv
<1> SUFFICES ASSUME E!Init PROVE ExporterInv OBVIOUS
<1> USE DEF E!Init
<1>1. E!TypeOK BY ExporterAssumption, FS_EmptySet, SameCardinality
               DEF E!TypeOK, E!Up, E!Serving, E!Answered
<1>2. Connected BY FS_EmptySet DEF Connected, E!Up
<1>3. Counted = {} BY DEF Counted, E!Scraping
<1>4. Accounted BY <1>3, FS_EmptySet DEF Accounted
<1>5. Snapshot BY DEF Snapshot
<1>6. Lifetime BY ExporterAssumption DEF Lifetime
<1> QED BY <1>1, <1>2, <1>4, <1>5, <1>6 DEF ExporterInv

(* A step of a migration.                                                  *)
LEMMA ExporterUnchanged ==
    ASSUME ExporterInv, UNCHANGED E!vars PROVE ExporterInv'
<1> USE DEF E!vars, E!snapshots, E!counters, ExporterInv
<1>1. E!TypeOK' BY DEF E!TypeOK
<1>2. Connected' BY DEF Connected
<1>3. Accounted' BY DEF Accounted, Counted
<1>4. Snapshot' BY DEF Snapshot
<1>5. Lifetime' BY DEF Lifetime
<1> QED BY <1>1, <1>2, <1>3, <1>4, <1>5

(* No request comes once the process drains, and Drained sees none left.   *)
LEMMA LifetimeStep ==
    ASSUME ExporterInv, E!Next PROVE Lifetime'
<1> USE DEF ExporterInv, Lifetime, E!TypeOK, E!Up, E!Serving, E!Scraping
<1>1. ASSUME NEW q \in Request, process \in E!Up, process = "serving" \/ phase[q] \in E!Serving,
             NEW label, label # "cut", E!Goto(q, label), UNCHANGED <<process, code>>
      PROVE  Lifetime'
      BY <1>1 DEF E!Goto
<1>2. CASE \E q \in Request : E!Scrape(q) \/ E!Probe(q) \/ E!FailSnapshot(q)
      BY <1>1, <1>2 DEF E!Scrape, E!Probe, E!FailSnapshot
<1>3. CASE \E q \in Request : E!Ping(q) \/ E!Begin(q) \/ E!Stamp(q) \/ E!CommitSnapshot(q)
      BY <1>1, <1>3 DEF E!Ping, E!Begin, E!Stamp, E!CommitSnapshot
<1>4. CASE \E q \in Request : E!Rollback(q) \/ E!Render(q) \/ E!Refuse(q)
      BY <1>1, <1>4 DEF E!Rollback, E!Render, E!Refuse
<1>5. ASSUME NEW q \in Request, E!Query(q) PROVE Lifetime'
  <2>1. CASE UNCHANGED <<process, code, phase>> BY <2>1
  <2>2. CASE E!Goto(q, "failing") BY <1>1, <1>5, <2>2 DEF E!Query
  <2> QED BY <1>5, <2>1, <2>2 DEF E!Query
<1>6. CASE E!Open \/ E!Terminate \/ E!ServeFails
      BY <1>6 DEF E!Open, E!Terminate, E!ServeFails, E!Exit
<1>7. CASE E!Drained \/ E!ShutdownTimeout
      BY <1>7 DEF E!Drained, E!ShutdownTimeout, E!Exit, E!InFlight
<1>8. CASE E!Close \/ E!Kill BY <1>8 DEF E!Close, E!Kill, E!CutOff
<1>9. CASE E!Write BY <1>9 DEF E!Write
<1> QED BY <1>2, <1>3, <1>4, <1>5, <1>6, <1>7, <1>8, <1>9 DEF E!Next, E!Handle

(* The first statement takes the snapshot, after the stamp; the others see *)
(* what it has seen.                                                       *)
LEMMA SnapshotStep ==
    ASSUME ExporterInv, E!Next PROVE Snapshot'
<1> USE ExporterAssumption DEF ExporterInv, E!snapshots, E!counters, Snapshot
<1>1. ASSUME NEW q \in Request, E!Stamp(q) PROVE Snapshot'
      BY <1>1 DEF E!TypeOK, E!Stamp, E!Goto
<1>2. ASSUME NEW q \in Request, E!Query(q) PROVE Snapshot'
  <2>1. CASE Required \subseteq Versions(schema)
    <3>1. /\ phase[q] = "reading" /\ UNCHANGED <<commits, phase, stamp>>
          /\ reads' = [reads EXCEPT ![q] = Append(@, E!View(q))]
          BY <1>2, <2>1 DEF E!Query
    <3>2. E!View(q) \in 0..MaxCommits /\ E!View(q) >= stamp[q]
      <4>1. CASE reads[q] = <<>> BY <3>1, <4>1 DEF E!View, E!TypeOK
      <4>2. CASE reads[q] # <<>>
            BY <3>1, <4>2 DEF E!View, E!TypeOK
      <4> QED BY <4>1, <4>2
    <3>3. Len(reads[q]) # 0 => E!View(q) = reads[q][1]
          BY DEF E!View, E!TypeOK
    <3>4. reads'[q] = Append(reads[q], E!View(q)) BY <3>1 DEF E!TypeOK
    <3>5. reads[q] \in Seq(0..MaxCommits) BY DEF E!TypeOK
    <3>6. \A i \in 1..Len(reads'[q]) :
             reads'[q][i] = reads'[q][1] /\ reads'[q][i] >= stamp[q]
      <4> TAKE i \in 1..Len(reads'[q])
      <4>1. CASE i = Len(reads[q]) + 1 BY <3>1, <3>2, <3>3, <3>4, <3>5, <4>1
      <4>2. CASE i \in 1..Len(reads[q]) BY <3>1, <3>4, <3>5, <4>2
      <4> QED BY <3>4, <3>5, <4>1, <4>2
    <3> QED BY <3>1, <3>6 DEF E!TypeOK
  <2>2. CASE ~(Required \subseteq Versions(schema))
        BY <1>2, <2>2 DEF E!TypeOK, E!Query, E!Goto
  <2> QED BY <2>1, <2>2
<1>3. ASSUME NEW q \in Request, UNCHANGED <<commits, stamp, reads>>,
             NEW label, E!Goto(q, label),
             label \notin {"none", "reading", "collected", "page"},
             label = "begun" => phase[q] = "waiting", label = "waiting" => phase[q] = "none"
      PROVE  Snapshot'
      BY <1>3 DEF E!TypeOK, E!Goto
<1>4. CASE \E q \in Request : E!Scrape(q) \/ E!Probe(q) \/ E!FailSnapshot(q)
      BY <1>4, <1>3 DEF E!Scrape, E!Probe, E!FailSnapshot
<1>5. CASE \E q \in Request : E!Ping(q) \/ E!Begin(q) \/ E!Rollback(q) \/ E!Refuse(q)
      BY <1>5, <1>3 DEF E!Ping, E!Begin, E!Rollback, E!Refuse
<1>6. ASSUME NEW q \in Request, E!CommitSnapshot(q) \/ E!Render(q) PROVE Snapshot'
      BY <1>6 DEF E!TypeOK, E!CommitSnapshot, E!Render, E!Goto
<1>7. CASE E!Open \/ E!Terminate \/ E!Drained \/ E!ShutdownTimeout \/ E!ServeFails
      BY <1>7 DEF E!Open, E!Terminate, E!Drained, E!ShutdownTimeout, E!ServeFails
<1>8. CASE E!Close \/ E!Kill
      BY <1>8 DEF E!TypeOK, E!Close, E!Kill, E!CutOff
<1>9. CASE E!Write
  <2>1. /\ commits' = commits + 1 /\ commits \in Nat
        /\ UNCHANGED <<phase, stamp, reads>>
        BY <1>9 DEF E!Write, E!TypeOK
  <2>2. \A n \in 0..commits : n \in 0..commits' BY <2>1
  <2> QED BY <2>1, <2>2
<1> QED BY <1>1, <1>2, <1>4, <1>5, <1>6, <1>7, <1>8, <1>9 DEF E!Next, E!Handle

(* Every way out of the transaction gives the connection back.             *)
LEMMA ConnectedStep ==
    ASSUME ExporterInv, E!Next PROVE Connected'
<1> USE DEF ExporterInv, Connected, Holding, E!TypeOK, E!Up
<1>1. ASSUME NEW q \in Request, NEW label, E!Goto(q, label),
             label \in Holding <=> phase[q] \in Holding, UNCHANGED <<process, conns>>,
             readers' \subseteq readers
      PROVE  Connected'
      BY <1>1 DEF E!Goto
<1>2. CASE \E q \in Request : E!Scrape(q) \/ E!Probe(q) \/ E!FailSnapshot(q)
      BY <1>1, <1>2 DEF E!Scrape, E!Probe, E!FailSnapshot
<1>3. CASE \E q \in Request : E!Ping(q) \/ E!Stamp(q) \/ E!Render(q) \/ E!Refuse(q)
      BY <1>1, <1>3 DEF E!Ping, E!Stamp, E!Render, E!Refuse, E!snapshots
<1>4. ASSUME NEW q \in Request, E!Begin(q) PROVE Connected'
      BY <1>4, FS_AddElement DEF E!Begin, E!Goto
<1>5. ASSUME NEW q \in Request, E!Query(q) PROVE Connected'
      BY <1>5 DEF E!Query, E!Goto
<1>6. ASSUME NEW q \in Request, E!CommitSnapshot(q) \/ E!Rollback(q) PROVE Connected'
      BY <1>6, FS_RemoveElement DEF E!CommitSnapshot, E!Rollback, E!FreeConn, E!Goto
<1>7. CASE E!Open BY <1>7 DEF E!Open, Lifetime
<1>8. CASE E!Terminate \/ E!Drained \/ E!ShutdownTimeout \/ E!ServeFails
      BY <1>8 DEF E!Terminate, E!Drained, E!ShutdownTimeout, E!ServeFails, E!Exit
<1>9. CASE E!Close BY <1>9 DEF E!Close, E!CutOff
<1>10. CASE E!Kill BY <1>10, FS_EmptySet DEF E!Kill, E!CutOff
<1>11. CASE E!Write BY <1>11 DEF E!Write
<1> QED BY <1>2, <1>3, <1>4, <1>5, <1>6, <1>7, <1>8, <1>9, <1>10, <1>11 DEF E!Next, E!Handle

(* A scrape is counted as it starts; to fail is to leave the set counted.  *)
LEMMA AccountedStep ==
    ASSUME ExporterInv, E!Next PROVE Accounted'
<1> USE DEF ExporterInv, E!snapshots, E!counters, E!Up, E!Serving, E!Scraping, E!Answered
<1>1. ASSUME NEW q \in Request, E!Scrape(q) PROVE Accounted'
  <2>1. Counted' = Counted \cup {q} /\ q \notin Counted
        BY <1>1 DEF E!TypeOK, Counted, E!Scrape, E!Goto
  <2>2. IsFiniteSet(Counted') /\ Cardinality(Counted') = Cardinality(Counted) + 1
        BY <2>1, FS_AddElement DEF Accounted
  <2> QED BY <1>1, <2>2, FS_CardinalityType DEF Accounted, E!Scrape, E!TypeOK
<1>2. ASSUME NEW q \in Request, E!Refuse(q) PROVE Accounted'
  <2>1. Counted' = Counted \ {q} /\ q \in Counted
        BY <1>2 DEF E!TypeOK, Counted, E!Refuse, E!Goto
  <2>2. IsFiniteSet(Counted') /\ Cardinality(Counted') = Cardinality(Counted) - 1
        BY <2>1, FS_RemoveElement DEF Accounted
  <2> QED BY <1>2, <2>2, FS_CardinalityType DEF Accounted, E!Refuse, E!TypeOK
<1>3. ASSUME Counted' \subseteq Counted, UNCHANGED <<scrapes, failures>> PROVE Accounted'
      BY <1>3, FS_Subset, FS_CardinalityType DEF Accounted, E!TypeOK
<1>4. CASE \E q \in Request : E!Probe(q) \/ (E!Handle(q) /\ ~E!Refuse(q)) \/
           E!FailSnapshot(q)
      BY <1>4, <1>3
      DEF Counted, E!TypeOK, E!Scrape, E!Probe, E!Handle, E!FailSnapshot, E!Ping,
          E!Begin, E!Stamp, E!Query, E!CommitSnapshot, E!Rollback, E!Render, E!Refuse,
          E!Goto, E!FreeConn
<1>5. CASE E!Open \/ E!Terminate \/ E!Drained \/ E!ShutdownTimeout \/ E!ServeFails \/
           E!Close \/ E!Kill \/ E!Write
      BY <1>5, <1>3
      DEF Counted, E!TypeOK, E!InFlight, E!Exit, E!CutOff, E!Open, E!Terminate,
          E!Drained, E!ShutdownTimeout, E!ServeFails, E!Close, E!Kill, E!Write
<1> QED BY <1>1, <1>2, <1>4, <1>5 DEF E!Next, E!Handle

(* The pool hands out MaxConns connections, a snapshot has Queries reads.  *)
LEMMA TypeStep ==
    ASSUME ExporterInv, E!Next PROVE E!TypeOK'
<1> USE ExporterAssumption DEF
        ExporterInv, E!snapshots, E!counters, E!TypeOK, E!Up, E!Serving, E!Scraping,
        E!Answered
<1>1. ASSUME NEW q \in Request, UNCHANGED <<commits, process, code, reads>>,
             NEW label \in {"none", "cut"} \cup E!Serving \cup E!Answered, E!Goto(q, label),
             stamp' \in [Request -> 0..MaxCommits \cup {None}],
             readers' \subseteq readers, conns' \subseteq conns,
             scrapes' \in Nat, failures' \in Nat
      PROVE  E!TypeOK'
  <2>1. Cardinality(conns') <= MaxConns
        BY <1>1, SameCardinality, FS_Subset, FS_CardinalityType DEF Connected
  <2>2. E!Cardinality(conns') <= MaxConns BY <2>1, SameCardinality
  <2>3. phase' \in [Request -> {"none", "cut"} \cup E!Serving \cup E!Answered]
        BY <1>1 DEF E!Goto
  <2> QED BY <1>1, <2>2, <2>3
<1>2. ASSUME NEW q \in Request, readers' \subseteq readers,
             UNCHANGED <<commits, process, code, stamp, reads, conns>>,
             NEW label \in {"none", "cut"} \cup E!Serving \cup E!Answered, E!Goto(q, label),
             scrapes' \in Nat, failures' \in Nat
      PROVE  E!TypeOK'
      BY <1>1, <1>2
<1>3. CASE \E q \in Request : E!Scrape(q) \/ E!Probe(q) \/ E!FailSnapshot(q)
      BY <1>2, <1>3 DEF E!Scrape, E!Probe, E!FailSnapshot
<1>4. CASE \E q \in Request : E!Ping(q) \/ E!Render(q) \/ E!Refuse(q)
      BY <1>2, <1>4 DEF E!Ping, E!Render, E!Refuse
<1>5. CASE \E q \in Request : E!Stamp(q) \/ E!CommitSnapshot(q) \/ E!Rollback(q)
      BY <1>5, <1>1 DEF E!Stamp, E!CommitSnapshot, E!Rollback, E!FreeConn
<1>6. ASSUME NEW q \in Request, E!Begin(q) PROVE E!TypeOK'
  <2>1. conns' = conns \cup {q} /\ Cardinality(conns) < MaxConns
        BY <1>6, SameCardinality DEF E!Begin
  <2>2. Cardinality(conns') <= MaxConns
    <3>1. IsFiniteSet(conns) /\ Cardinality(conns) \in Nat
          BY FS_CardinalityType DEF Connected
    <3>2. Cardinality(conns') \in {Cardinality(conns), Cardinality(conns) + 1}
          BY <2>1, <3>1, FS_AddElement
    <3> QED BY <2>1, <3>1, <3>2
  <2>3. E!Cardinality(conns') <= MaxConns BY <2>2, SameCardinality
  <2>4. phase' \in [Request -> {"none", "cut"} \cup E!Serving \cup E!Answered]
        BY <1>6 DEF E!Begin, E!Goto
  <2> QED BY <1>6, <2>1, <2>3, <2>4 DEF E!Begin
<1>7. ASSUME NEW q \in Request, E!Query(q) PROVE E!TypeOK'
  <2>1. /\ phase[q] = "reading" /\ Len(reads[q]) < Queries
        /\ readers' \subseteq Request
        /\ UNCHANGED <<commits, process, code, stamp, conns, scrapes, failures>>
        BY <1>7 DEF E!Query
  <2>2. CASE Required \subseteq Versions(schema)
    <3>1. reads' = [reads EXCEPT ![q] = Append(@, E!View(q))] /\ phase' = phase
          BY <1>7, <2>2 DEF E!Query
    <3>2. E!View(q) \in 0..MaxCommits
      <4>1. CASE reads[q] = <<>> BY <4>1 DEF E!View
      <4>2. CASE reads[q] # <<>> BY <4>2 DEF E!View
      <4> QED BY <4>1, <4>2
    <3>3. reads'[q] \in Seq(0..MaxCommits) /\ Len(reads'[q]) <= Queries
          BY <2>1, <3>1, <3>2
    <3>4. reads' \in [Request -> Seq(0..MaxCommits)] BY <3>1, <3>3
    <3>5. \A p \in Request : Len(reads'[p]) <= Queries BY <3>1, <3>3
    <3> QED BY <2>1, <3>1, <3>4, <3>5
  <2>3. CASE ~(Required \subseteq Versions(schema))
        BY <1>7, <2>1, <2>3 DEF E!Query, E!Goto
  <2> QED BY <2>2, <2>3
<1>8. CASE E!Open \/ E!Terminate \/ E!Drained \/ E!ShutdownTimeout \/ E!ServeFails \/
           E!Write
      BY <1>8
      DEF E!Open, E!Terminate, E!Drained, E!ShutdownTimeout, E!ServeFails, E!Exit,
          E!Write
<1>9. CASE E!Close BY <1>9 DEF E!Close, E!CutOff
<1>10. CASE E!Kill
  <2>1. E!Cardinality(conns') <= MaxConns
        BY <1>10, FS_EmptySet, SameCardinality DEF E!Kill
  <2> QED BY <1>10, <2>1 DEF E!Kill, E!CutOff
<1> QED BY <1>3, <1>4, <1>5, <1>6, <1>7, <1>8, <1>9, <1>10 DEF E!Next, E!Handle

(* Every step of the exporter, whatever is installed or being altered.     *)
LEMMA ExporterStep == ExporterInv /\ [E!Next]_(E!vars) => ExporterInv'
<1> SUFFICES ASSUME ExporterInv, [E!Next]_(E!vars) PROVE ExporterInv' OBVIOUS
<1>1. CASE UNCHANGED E!vars BY <1>1, ExporterUnchanged
<1>2. CASE E!Next
      BY <1>2, TypeStep, ConnectedStep, AccountedStep, SnapshotStep, LifetimeStep
      DEF ExporterInv
<1> QED BY <1>1, <1>2
--------------------------------------------------------------------------------
(***************************************************************************)
(* The composition.                                                        *)
(***************************************************************************)
(* A migration leaves the exporter's state alone.                          *)
LEMMA ExporterSteps == [UpgradeNext]_all => [E!Next]_(E!vars)
<1> SUFFICES ASSUME [UpgradeNext]_all PROVE [E!Next]_(E!vars) OBVIOUS
<1> USE DEF exporter, E!vars, E!snapshots, E!counters
<1>1. CASE UNCHANGED all BY <1>1 DEF all, vars
<1>2. CASE Migrating /\ UNCHANGED exporter BY <1>2 DEF Migrating
<1>3. CASE Exporting BY <1>3 DEF Exporting
<1> QED BY <1>1, <1>2, <1>3 DEF UpgradeNext

(* Whatever migrates under it, the exporter keeps its invariant.           *)
THEOREM ExporterInvariance == UpgradeSpec => []ExporterInv
<1>1. UpgradeInit => ExporterInv BY ExporterInit DEF UpgradeInit
<1>2. ExporterInv /\ [UpgradeNext]_all => ExporterInv' BY ExporterSteps, ExporterStep
<1> QED BY <1>1, <1>2, PTL DEF UpgradeSpec

(* The exporter touches of Migrate's state only who reads the tables.      *)
LEMMA MigrateSteps == ExporterInv' /\ [UpgradeNext]_all => [Next]_vars
<1> SUFFICES ASSUME ExporterInv', [UpgradeNext]_all PROVE [Next]_vars OBVIOUS
<1>1. CASE UNCHANGED all BY <1>1 DEF all
<1>2. CASE Migrating BY <1>2 DEF Next
<1>3. CASE Exporting
  <2>1. readers' \subseteq Reader BY RequestsRead DEF ExporterInv, E!TypeOK
  <2>2. Sessions BY <1>3, <2>1 DEF Exporting, Sessions
  <2> QED BY <2>2 DEF Next
<1> QED BY <1>1, <1>2, <1>3 DEF UpgradeNext

(* Migrations under an exporter are migrations under sessions that read    *)
(* the tables: no scrape makes a run do what Migrate does not allow.       *)
THEOREM ExporterIsReaders == UpgradeSpec => Spec
<1>1. UpgradeInit => Init BY DEF UpgradeInit
<1> QED BY <1>1, MigrateSteps, ExporterInvariance, PTL DEF UpgradeSpec, Spec

(* Rows, locks, requests, connections and exit codes have their types.     *)
THEOREM AllTypesCorrect == UpgradeSpec => []AllTypesOK
<1>1. ExporterInv => E!TypeOK BY DEF ExporterInv
<1> QED BY <1>1, ExporterInvariance, ExporterIsReaders, TypeCorrect, PTL DEF AllTypesOK

(* A page is one state of the database, whatever is written or migrated    *)
(* between its statements.                                                 *)
THEOREM PageIsOneSnapshot == UpgradeSpec => []OneSnapshot
<1>1. ExporterInv => OneSnapshot
  <2> SUFFICES ASSUME ExporterInv, NEW q \in Request,
                      NEW i \in 1..Queries, NEW j \in 1..Queries,
                      phase[q] \in {"collected", "page"}
               PROVE  reads[q][i] = reads[q][j]
      BY DEF OneSnapshot, E!OneSnapshot
  <2>1. Len(reads[q]) = Queries BY DEF ExporterInv, Snapshot
  <2> QED BY <2>1 DEF ExporterInv, Snapshot
<1> QED BY <1>1, ExporterInvariance, PTL

(* A page holds all that was committed before its CollectedAt.             *)
THEOREM PageIsFresh == UpgradeSpec => []NotOlderThanStamped
<1>1. ExporterInv => NotOlderThanStamped
      BY DEF ExporterInv, Snapshot, NotOlderThanStamped, E!NotOlderThanStamped
<1> QED BY <1>1, ExporterInvariance, PTL

(* The counters account for every scrape, however many run at once.        *)
THEOREM CountersAccount == UpgradeSpec => []ScrapesAccounted
<1>1. ExporterInv => ScrapesAccounted
      BY SameCardinality
      DEF ExporterInv, Accounted, Counted, ScrapesAccounted, E!ScrapesAccounted
<1> QED BY <1>1, ExporterInvariance, PTL

(* The exit code 0 means that no request was cut off.                      *)
THEOREM ExitIsClean == UpgradeSpec => []CleanExit
<1>1. ExporterInv => CleanExit BY DEF ExporterInv, Lifetime, CleanExit, E!CleanExit
<1> QED BY <1>1, ExporterInvariance, PTL

(* A connection is out of the pool exactly while a request is in its       *)
(* transaction, and only such a request keeps a table locked.              *)
THEOREM ConnectionsReturn == UpgradeSpec => []Connected
<1>1. ExporterInv => Connected BY DEF ExporterInv
<1> QED BY <1>1, ExporterInvariance, PTL

(* The schema is the recorded history, no migration collides and no report *)
(* is false, also while an exporter scrapes.                               *)
THEOREM HistoryUnderScrapes ==
    UpgradeSpec => [](SchemaIsHistory /\ NeverCollide /\ NothingLeftOut) /\ HistoryOnlyGrows
<1>1. Inv => SchemaIsHistory /\ NeverCollide /\ NothingLeftOut BY DEF Inv
<1> QED BY <1>1, ExporterIsReaders, Invariance, HistoryIsImmutable, PTL
================================================================================
