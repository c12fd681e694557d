---------------------------- MODULE DigestProofs ----------------------------
(***************************************************************************)
(* Proofs about the periodic reports: types, the ledger is written only    *)
(* when every channel was served, no row joins a booked report, the digest *)
(* of a day goes out, and no event slips between two digests.  Their runs  *)
(* take, lose and give up the lease as TaskLease says it may be.           *)
(***************************************************************************)
EXTENDS Digest, TLAPS

(* What a run still owes when it has served all but `todo'.                *)
RunsServe ==
    \A r \in Replicas : run[r].stage = "queueing" =>
        \A ch \in run[r].owed \ run[r].todo :
            HasRow(run[r].report, ch, Key(run[r].report, run[r].now))

ServeInv == TypeOK /\ RunsServe /\ LedgerMeansQueued

(* While no lease was lost, the run at work is the holder's, and its       *)
(* report is not booked.                                                   *)
HolderWorks ==
    lapses = 0 => \A r \in Replicas : Active(r) =>
        /\ holder = r
        /\ run[r].stage = "queueing" => NotSent(run[r].report, run[r].now)

-----------------------------------------------------------------------------
LEMMA KeyType == ASSUME NEW p, NEW t \in Nat PROVE Key(p, t) \in Nat
<1>1. t \div Day \in Nat
  BY ConstantAssumption, SMT
<1>2. (t \div Day) \div MonthDays \in Nat
  BY <1>1, ConstantAssumption, SMT
<1> QED
  BY <1>1, <1>2 DEF Key, DayOf

LEMMA RestingType ==
  ASSUME NEW s \in {"down", "idle", "checking"}
  PROVE  Resting(s) \in Runs /\ Resting(s).stage = s
  BY DEF Resting, Runs, Reports

LEMMA CheckingType ==
  ASSUME NEW t \in Nat, NEW p \in Reports
  PROVE  /\ [Resting("checking") EXCEPT !.now = t] \in Runs
         /\ [Resting("checking") EXCEPT !.now = t].stage = "checking"
         /\ [Resting("checking") EXCEPT !.now = t, !.report = p] \in Runs
         /\ [Resting("checking") EXCEPT !.now = t, !.report = p].stage = "checking"
  BY DEF Resting, Runs, Reports

(* NextReport leaves the run at rest or before its next report.            *)
LEMMA NextReportRun ==
  ASSUME TypeOK, NEW r \in Replicas, NextReport(r)
  PROVE  /\ run' \in [Replicas -> Runs]
         /\ run'[r].stage \in {"idle", "checking"}
         /\ \A q \in Replicas : q # r => run'[q] = run[q]
         /\ holder' \in {holder, "none"}
         /\ holder' = holder \/ (holder = r /\ run'[r].stage = "idle")
<1> DEFINE left == {p \in After(run[r].report) : Due(p, run[r].now)}
           first == IF "weekly" \in left THEN "weekly" ELSE "monthly"
           moved == [Resting("checking") EXCEPT !.now = run[r].now, !.report = first]
<1>1. run[r].now \in Nat /\ first \in Reports /\ run \in [Replicas -> Runs]
  BY DEF TypeOK, Runs, Reports
<1>2. moved \in Runs /\ moved.stage = "checking"
  BY <1>1, CheckingType
<1>3. Resting("idle") \in Runs /\ Resting("idle").stage = "idle"
  BY RestingType
<1>4. \/ /\ run' = [run EXCEPT ![r] = Resting("idle")]
         /\ holder' = IF holder = r THEN "none" ELSE holder
      \/ /\ run' = [run EXCEPT ![r] = moved]
         /\ UNCHANGED holder
  BY DEF NextReport
<1> HIDE DEF moved
<1> QED
  BY <1>1, <1>2, <1>3, <1>4

(* Insert only adds a row of the run's report, for the channel given.      *)
LEMMA InsertRows ==
  ASSUME TypeOK, NEW r \in Replicas, NEW ch \in Channels, Insert(r, ch)
  PROVE  /\ rows' \subseteq Rows
         /\ rows \subseteq rows'
         /\ \A row \in rows' \ rows :
               row.report = run[r].report /\ row.key = Key(run[r].report, run[r].now)
         /\ \E row \in rows' : /\ row.report = run[r].report
                               /\ row.channel = ch
                               /\ row.key = Key(run[r].report, run[r].now)
<1> DEFINE p == run[r].report
           k == Key(p, run[r].now)
           added == [report |-> p, channel |-> ch, key |-> k, made |-> run[r].now,
                     evs |-> TextFor(ch, run[r].evs)]
<1>1. run[r].now \in Nat /\ p \in Reports /\ run[r].evs \in SUBSET Events
  BY DEF TypeOK, Runs
<1>2. TextFor(ch, run[r].evs) \in SUBSET Events
  BY <1>1 DEF TextFor, Human
<1>3. k \in Nat
  BY <1>1, KeyType
<1>4. added \in Rows /\ added.report = p /\ added.channel = ch /\ added.key = k
  BY <1>1, <1>2, <1>3 DEF Rows
<1>5. \/ rows' = rows /\ \E row \in rows : row.report = p /\ row.channel = ch /\ row.key = k
      \/ rows' = rows \cup {added}
  BY DEF Insert
<1>6. rows \subseteq Rows
  BY DEF TypeOK
<1> HIDE DEF added, k
<1>7. \E row \in rows' : row.report = p /\ row.channel = ch /\ row.key = k
  BY <1>4, <1>5
<1>8. rows' \subseteq Rows /\ rows \subseteq rows'
  BY <1>4, <1>5, <1>6
<1>9. \A row \in rows' \ rows : row.report = p /\ row.key = k
  BY <1>4, <1>5
<1> QED
  BY <1>7, <1>8, <1>9 DEF k

-----------------------------------------------------------------------------
(* Steps that write no row and no ledger keep what the others served.      *)
LEMMA ServeInit == Init => ServeInv /\ HolderWorks
<1>1. Init => TypeOK
  BY ConstantAssumption, RestingType DEF Init, TypeOK, Reports
<1> QED
  BY <1>1 DEF Init, ServeInv, RunsServe, LedgerMeansQueued, HolderWorks, Active, Resting

LEMMA TypeStep == TypeOK /\ [Next]_vars => TypeOK'
<1> SUFFICES ASSUME TypeOK, [Next]_vars PROVE TypeOK'
  OBVIOUS
<1> USE DEF TypeOK
<1>1. CASE UNCHANGED vars
  BY <1>1 DEF vars, replicaVars, sentVars, inputVars
<1>2. ASSUME NEW r \in Replicas, ReplicaStep(r) PROVE TypeOK'
  <2>1. run[r] \in Runs /\ run[r].now \in Nat /\ Hour \in 0 .. Hour
    BY ConstantAssumption DEF Runs
  <2>2. CASE Tick(r)
    <3> DEFINE started == [Resting("checking") EXCEPT !.now = clock]
    <3>0. started \in Runs
      BY CheckingType DEF Reports
    <3>a. run' = run \/ run' = [run EXCEPT ![r] = started]
      BY <2>2 DEF Tick
    <3> HIDE DEF started
    <3>1. run' \in [Replicas -> Runs]
      BY <3>0, <3>a
    <3>2. next' \in [Replicas -> 0 .. Hour] /\ holder' \in Replicas \cup {"none"}
      BY <2>1, <2>2 DEF Tick
    <3>3. skips' \in Nat
      BY <2>2 DEF Tick
    <3> QED
      BY <2>2, <3>1, <3>2, <3>3 DEF Tick, sentVars, inputVars
  <2>3. CASE AcquireFails(r)
    <3>1. next' \in [Replicas -> 0 .. Hour] /\ faults' \in Nat
      BY <2>1, <2>3 DEF AcquireFails, Fault
    <3> QED
      BY <2>3, <3>1 DEF AcquireFails, sentVars, inputVars
  <2>4. CASE Skip(r)
    BY <2>4, NextReportRun DEF Skip, sentVars, inputVars
  <2>5. CASE Gather(r)
    <3> DEFINE serve == {ch \in subscribed : Wants(ch, Found(r))}
               gathered == [run[r] EXCEPT !.stage = "queueing", !.evs = Found(r),
                                          !.owed = serve, !.todo = serve]
    <3>1. Found(r) \in SUBSET Events /\ serve \in SUBSET Channels
      BY DEF Found, Selected
    <3>2. gathered \in Runs
      BY <2>1, <3>1 DEF Runs
    <3>3. run' = [run EXCEPT ![r] = gathered]
      BY <2>5 DEF Gather
    <3> HIDE DEF gathered
    <3>4. run' \in [Replicas -> Runs]
      BY <3>2, <3>3
    <3>5. lapses' \in Nat /\ faults' \in Nat
      BY <2>5 DEF Gather, Fault
    <3> QED
      BY <2>5, <3>4, <3>5 DEF Gather, sentVars, inputVars
  <2>6. CASE Enqueue(r)
    <3>1. PICK ch \in run[r].todo :
            /\ Insert(r, ch)
            /\ run' = [run EXCEPT ![r].todo = @ \ {ch}]
      BY <2>6 DEF Enqueue
    <3> DEFINE fewer == [run[r] EXCEPT !.todo = run[r].todo \ {ch}]
    <3>2. ch \in Channels /\ fewer \in Runs
      BY <2>1 DEF Runs
    <3>a. run' = [run EXCEPT ![r] = fewer]
      BY <3>1
    <3> HIDE DEF fewer
    <3>3. run' \in [Replicas -> Runs]
      BY <3>2, <3>a
    <3>4. rows' \subseteq Rows
      BY <3>1, <3>2, InsertRows
    <3> QED
      BY <2>6, <3>3, <3>4 DEF Enqueue, inputVars
  <2>7. CASE Book(r)
    <3>1. run[r].report \in Reports /\ run[r].owed \in SUBSET Channels
      BY <2>1 DEF Runs
    <3>2. Key(run[r].report, run[r].now) \in Nat
      BY <2>1, KeyType
    <3>3. ledger' \in [Reports -> Nat \cup {-1}] /\ owed' \in [Reports -> SUBSET Channels]
      BY <2>7, <3>1, <3>2 DEF Book
    <3>4. run' \in [Replicas -> Runs] /\ holder' \in Replicas \cup {"none"}
      BY <2>7, NextReportRun DEF Book
    <3> QED
      BY <2>7, <3>3, <3>4 DEF Book, inputVars
  <2>8. CASE ReportFails(r)
    <3>1. rows' \subseteq Rows
      <4>1. CASE UNCHANGED rows
        BY <4>1
      <4>2. ASSUME NEW ch \in run[r].todo, Insert(r, ch) PROVE rows' \subseteq Rows
        <5>1. ch \in Channels
          BY <2>1 DEF Runs
        <5> QED
          BY <4>2, <5>1, InsertRows
      <4> QED
        BY <2>8, <4>1, <4>2 DEF ReportFails
    <3>2. run' \in [Replicas -> Runs] /\ holder' \in Replicas \cup {"none"}
      BY <2>8, NextReportRun DEF ReportFails
    <3> QED
      BY <2>8, <3>1, <3>2 DEF ReportFails, Fault, inputVars
  <2>9. CASE Lapse(r)
    BY <2>9 DEF Lapse, Fault, sentVars, inputVars
  <2>10. CASE Interrupt(r) \/ Crash(r)
    BY <2>10, RestingType DEF Interrupt, Crash, Fault, sentVars, inputVars
  <2>11. CASE Expire(r)
    BY <2>11 DEF Expire, sentVars, inputVars
  <2>12. CASE Boot(r)
    <3>1. run' \in [Replicas -> Runs] /\ next' \in [Replicas -> 0 .. Hour]
      BY <2>1, <2>12, RestingType DEF Boot
    <3> QED
      BY <2>12, <3>1 DEF Boot, sentVars, inputVars
  <2> QED
    BY <1>2, <2>2, <2>3, <2>4, <2>5, <2>6, <2>7, <2>8, <2>9, <2>10, <2>11, <2>12
    DEF ReplicaStep
<1>3. ASSUME NEW ch \in Channels, Toggle(ch) PROVE TypeOK'
  BY <1>3 DEF Toggle, replicaVars, sentVars
<1>4. ASSUME NEW lag \in 0 .. MaxLag, NEW bot \in BOOLEAN, Record(lag, bot) PROVE TypeOK'
  <2>1. [at |-> clock - lag, seen |-> clock, bot |-> bot] \in Events
    BY DEF Events
  <2> QED
    BY <1>4, <2>1 DEF Record, replicaVars, sentVars
<1>5. CASE Elapse
  <2>1. ASSUME NEW r \in Replicas
        PROVE  (IF run[r].stage = "down" THEN next[r] ELSE next[r] - 1) \in 0 .. Hour
    <3>1. next[r] \in 0 .. Hour /\ (run[r].stage # "down" => next[r] > 0)
      BY <1>5 DEF Elapse
    <3> QED
      BY <3>1, ConstantAssumption
  <2>2. next' \in [Replicas -> 0 .. Hour]
    BY <1>5, <2>1 DEF Elapse
  <2> QED
    BY <1>5, <2>2 DEF Elapse, sentVars, inputVars
<1> QED
  BY <1>1, <1>2, <1>3, <1>4, <1>5 DEF Next

-----------------------------------------------------------------------------
(* A step of one replica leaves the runs of the others alone.              *)
LEMMA OthersRun ==
  ASSUME TypeOK, NEW r \in Replicas, ReplicaStep(r), NEW q \in Replicas, q # r
  PROVE  run'[q] = run[q]
<1>1. CASE Skip(r) \/ Book(r) \/ ReportFails(r)
  BY <1>1, NextReportRun DEF Skip, Book, ReportFails
<1>2. CASE ~(Skip(r) \/ Book(r) \/ ReportFails(r))
  BY <1>2 DEF TypeOK, ReplicaStep, Tick, AcquireFails, Gather, Enqueue, Lapse, Interrupt,
     Crash, Expire, Boot
<1> QED
  BY <1>1, <1>2

(* No row is ever taken away.                                              *)
LEMMA RowsGrow == TypeOK /\ [Next]_vars => rows \subseteq rows'
<1> SUFFICES ASSUME TypeOK, [Next]_vars PROVE rows \subseteq rows'
  OBVIOUS
<1>1. ASSUME NEW r \in Replicas, ReplicaStep(r) PROVE rows \subseteq rows'
  <2>1. ASSUME NEW ch \in run[r].todo, Insert(r, ch) PROVE rows \subseteq rows'
    <3>1. ch \in Channels
      BY DEF TypeOK, Runs
    <3> QED
      BY <2>1, <3>1, InsertRows
  <2>2. CASE Enqueue(r) \/ ReportFails(r)
    BY <2>1, <2>2 DEF Enqueue, ReportFails
  <2> QED
    BY <1>1, <2>2 DEF ReplicaStep, Tick, AcquireFails, Skip, Gather, Book, Lapse, Interrupt,
       Crash, Expire, Boot, sentVars
<1> QED
  BY <1>1 DEF Next, vars, sentVars, Toggle, Record, Elapse

LEMMA ServeStep == ServeInv /\ [Next]_vars => ServeInv'
<1> SUFFICES ASSUME TypeOK, RunsServe, LedgerMeansQueued, [Next]_vars
             PROVE  TypeOK' /\ RunsServe' /\ LedgerMeansQueued'
  BY DEF ServeInv
<1>1. TypeOK' /\ rows \subseteq rows'
  BY TypeStep, RowsGrow
<1> DEFINE Served(p, ch, k) ==
             \E row \in rows' : row.report = p /\ row.channel = ch /\ row.key = k
<1>2. ASSUME NEW p, NEW ch, NEW k, HasRow(p, ch, k) PROVE Served(p, ch, k)
  BY <1>1, <1>2 DEF HasRow
<1> HIDE DEF Served
<1>3. \A q \in Replicas : run'[q].stage = "queueing" =>
        \A ch \in run'[q].owed \ run'[q].todo :
            Served(run'[q].report, ch, Key(run'[q].report, run'[q].now))
  <2> SUFFICES ASSUME NEW q \in Replicas, run'[q].stage = "queueing",
                      NEW ch \in run'[q].owed \ run'[q].todo
               PROVE  Served(run'[q].report, ch, Key(run'[q].report, run'[q].now))
    OBVIOUS
  <2>1. CASE run'[q] = run[q]
    <3>1. HasRow(run[q].report, ch, Key(run[q].report, run[q].now))
      BY <2>1 DEF RunsServe
    <3>2. Served(run[q].report, ch, Key(run[q].report, run[q].now))
      BY <1>2, <3>1
    <3> QED
      BY <2>1, <3>2
  <2>2. CASE ReplicaStep(q)
    <3>1. CASE Gather(q)
      <4> DEFINE serve == {c \in subscribed : Wants(c, Found(q))}
                 gathered == [run[q] EXCEPT !.stage = "queueing", !.evs = Found(q),
                                            !.owed = serve, !.todo = serve]
      <4>1. run' = [run EXCEPT ![q] = gathered]
        BY <3>1 DEF Gather
      <4>2. run[q] \in Runs /\ run \in [Replicas -> Runs]
        BY DEF TypeOK
      <4>3. gathered.owed = serve /\ gathered.todo = serve
        BY <4>2 DEF Runs
      <4> HIDE DEF gathered
      <4>4. run'[q] = gathered
        BY <4>1, <4>2
      <4> QED
        BY <4>3, <4>4
    <3>2. CASE Enqueue(q)
      <4>1. PICK c \in run[q].todo :
              Insert(q, c) /\ run' = [run EXCEPT ![q].todo = @ \ {c}]
        BY <3>2 DEF Enqueue
      <4>2. /\ run'[q].report = run[q].report /\ run'[q].now = run[q].now
            /\ run'[q].owed = run[q].owed /\ run'[q].todo = run[q].todo \ {c}
            /\ run[q].stage = "queueing" /\ c \in Channels
        BY <3>2, <4>1 DEF TypeOK, Runs, Enqueue
      <4>3. CASE ch = c
        <5>1. \E row \in rows' : /\ row.report = run[q].report
                                 /\ row.channel = c
                                 /\ row.key = Key(run[q].report, run[q].now)
          BY <4>1, <4>2, InsertRows
        <5>2. Served(run[q].report, c, Key(run[q].report, run[q].now))
          BY <5>1 DEF Served
        <5> QED
          BY <4>2, <4>3, <5>2
      <4>4. CASE ch # c
        <5>1. HasRow(run[q].report, ch, Key(run[q].report, run[q].now))
          BY <4>2, <4>4 DEF RunsServe
        <5>2. Served(run[q].report, ch, Key(run[q].report, run[q].now))
          BY <1>2, <5>1
        <5> QED
          BY <4>2, <5>2
      <4> QED
        BY <4>3, <4>4
    <3>3. ~(Skip(q) \/ Book(q) \/ ReportFails(q))
      BY NextReportRun DEF Skip, Book, ReportFails
    <3>4. ~(Interrupt(q) \/ Crash(q) \/ Boot(q))
      <4>1. Resting("idle").stage = "idle" /\ Resting("down").stage = "down"
        BY DEF Resting
      <4> QED
        BY <4>1 DEF Interrupt, Crash, Boot, TypeOK
    <3>5. CASE Tick(q)
      <4> DEFINE started == [Resting("checking") EXCEPT !.now = clock]
      <4>1. started.stage = "checking"
        BY DEF Resting
      <4>2. run' = run \/ run' = [run EXCEPT ![q] = started]
        BY <3>5 DEF Tick
      <4> HIDE DEF started
      <4> QED
        BY <2>1, <4>1, <4>2 DEF TypeOK
    <3>6. CASE AcquireFails(q) \/ Lapse(q) \/ Expire(q)
      BY <2>1, <3>6 DEF AcquireFails, Lapse, Expire
    <3> QED
      BY <2>2, <3>1, <3>2, <3>3, <3>4, <3>5, <3>6 DEF ReplicaStep
  <2>3. ASSUME NEW r \in Replicas, ReplicaStep(r), r # q PROVE run'[q] = run[q]
    BY <2>3, OthersRun
  <2>4. CASE \/ UNCHANGED vars
             \/ \E c \in Channels : Toggle(c)
             \/ \E lag \in 0 .. MaxLag, bot \in BOOLEAN : Record(lag, bot)
             \/ Elapse
    <3>1. run' = run
      BY <2>4 DEF vars, replicaVars, Toggle, Record, Elapse
    <3> QED
      BY <2>1, <3>1
  <2>5. \/ \E r \in Replicas : ReplicaStep(r)
        \/ \E c \in Channels : Toggle(c)
        \/ \E lag \in 0 .. MaxLag, bot \in BOOLEAN : Record(lag, bot)
        \/ Elapse
        \/ UNCHANGED vars
    BY DEF Next
  <2>6. CASE \E r \in Replicas : ReplicaStep(r)
    BY <2>1, <2>2, <2>3, <2>6
  <2> QED
    BY <2>4, <2>5, <2>6
<1>4. \A p \in Reports : \A ch \in owed'[p] : Served(p, ch, ledger'[p])
  <2>1. CASE UNCHANGED <<ledger, owed>>
    BY <1>2, <2>1 DEF LedgerMeansQueued
  <2>2. ASSUME NEW r \in Replicas, Book(r)
        PROVE  \A p \in Reports : \A ch \in owed'[p] : Served(p, ch, ledger'[p])
    <3> DEFINE b == run[r].report
               k == Key(b, run[r].now)
    <3>1. /\ b \in Reports /\ ledger \in [Reports -> Nat \cup {-1}]
          /\ owed \in [Reports -> SUBSET Channels]
      BY DEF TypeOK, Runs
    <3>2. /\ ledger' = [ledger EXCEPT ![b] = k] /\ owed' = [owed EXCEPT ![b] = run[r].owed]
          /\ run[r].stage = "queueing" /\ run[r].todo = {}
      BY <2>2 DEF Book
    <3>3. \A ch \in run[r].owed : HasRow(b, ch, k)
      BY <3>2 DEF RunsServe
    <3> HIDE DEF b, k
    <3> SUFFICES ASSUME NEW p \in Reports, NEW ch \in owed'[p] PROVE Served(p, ch, ledger'[p])
      OBVIOUS
    <3>4. HasRow(p, ch, ledger'[p])
      <4>1. CASE p = b
        BY <3>1, <3>2, <3>3, <4>1
      <4>2. CASE p # b
        BY <3>1, <3>2, <4>2 DEF LedgerMeansQueued
      <4> QED
        BY <4>1, <4>2
    <3> QED
      BY <1>2, <3>4
  <2>3. ASSUME NEW r \in Replicas, ReplicaStep(r), ~Book(r) PROVE UNCHANGED <<ledger, owed>>
    BY <2>3 DEF ReplicaStep, Tick, AcquireFails, Skip, Gather, Enqueue, ReportFails, Lapse,
       Interrupt, Crash, Expire, Boot, sentVars
  <2> QED
    BY <2>1, <2>2, <2>3 DEF Next, vars, sentVars, Toggle, Record, Elapse
<1>5. RunsServe' /\ LedgerMeansQueued'
  BY <1>3, <1>4 DEF Served, RunsServe, LedgerMeansQueued, HasRow, Key, DayOf
<1> QED
  BY <1>1, <1>5

-----------------------------------------------------------------------------
(* The ledger is written only by Book, and only for the report at work.    *)
LEMMA HolderStep == TypeOK /\ HolderWorks /\ [Next]_vars => HolderWorks'
<1> SUFFICES ASSUME TypeOK, HolderWorks, [Next]_vars, lapses' = 0
             PROVE  \A q \in Replicas : run'[q].stage \in {"checking", "queueing"} =>
                       /\ holder' = q
                       /\ run'[q].stage = "queueing" =>
                            ledger'[run'[q].report] # Key(run'[q].report, run'[q].now)
  BY DEF HolderWorks, Active, NotSent, Key, DayOf
<1> DEFINE Works(q) == run'[q].stage \in {"checking", "queueing"} =>
                         /\ holder' = q
                         /\ run'[q].stage = "queueing" =>
                              ledger'[run'[q].report] # Key(run'[q].report, run'[q].now)
<1>1. ASSUME UNCHANGED <<run, holder, ledger, lapses>>, NEW q \in Replicas PROVE Works(q)
  BY <1>1 DEF HolderWorks, Active, NotSent
<1>2. ASSUME NEW r \in Replicas, ReplicaStep(r), NEW q \in Replicas PROVE Works(q)
  <2>1. /\ run \in [Replicas -> Runs] /\ run[r] \in Runs
        /\ holder \in Replicas \cup {"none"}
    BY DEF TypeOK
  <2>2. CASE Tick(r)
    <3> DEFINE started == [Resting("checking") EXCEPT !.now = clock]
    <3>1. started.stage = "checking"
      BY DEF Resting
    <3>2. \/ UNCHANGED <<run, holder, ledger, lapses>>
          \/ /\ holder = "none" /\ holder' = r
             /\ run' = [run EXCEPT ![r] = started] /\ UNCHANGED <<ledger, lapses>>
      BY <2>2 DEF Tick, sentVars
    <3> HIDE DEF started
    <3>3. CASE q = r
      BY <1>1, <2>1, <3>1, <3>2, <3>3
    <3>4. CASE q # r
      BY <1>1, <2>1, <3>2, <3>4, ConstantAssumption DEF HolderWorks, Active
    <3> QED
      BY <3>3, <3>4
  <2>3. CASE AcquireFails(r)
    BY <1>1, <2>3 DEF AcquireFails, sentVars
  <2>4. CASE Skip(r) \/ Book(r) \/ ReportFails(r)
    <3>1. NextReport(r) /\ Active(r) /\ lapses = 0
      BY <2>4 DEF Skip, Book, ReportFails, Checks, Active
    <3>2. holder = r
      BY <3>1 DEF HolderWorks
    <3>3. CASE q = r
      BY <3>1, <3>2, <3>3, NextReportRun
    <3>4. CASE q # r
      <4>1. run'[q] = run[q] /\ ~Active(q)
        BY <3>1, <3>2, <3>4, NextReportRun DEF HolderWorks
      <4> QED
        BY <4>1 DEF Active
    <3> QED
      BY <3>3, <3>4
  <2>5. CASE Gather(r)
    <3> DEFINE serve == {ch \in subscribed : Wants(ch, Found(r))}
               gathered == [run[r] EXCEPT !.stage = "queueing", !.evs = Found(r),
                                          !.owed = serve, !.todo = serve]
    <3>1. run' = [run EXCEPT ![r] = gathered] /\ UNCHANGED <<holder, ledger>> /\ Active(r)
      BY <2>5 DEF Gather, sentVars, Checks, Active
    <3>2. gathered.report = run[r].report /\ gathered.now = run[r].now
      BY <2>1 DEF Runs
    <3>3. lapses = 0 /\ NotSent(run[r].report, run[r].now)
      BY <2>5 DEF Gather, Wanted, TypeOK
    <3> HIDE DEF gathered
    <3>4. holder = r
      BY <3>1, <3>3 DEF HolderWorks
    <3>5. CASE q = r
      BY <2>1, <3>1, <3>2, <3>3, <3>4, <3>5 DEF NotSent
    <3>6. CASE q # r
      BY <2>1, <3>1, <3>3, <3>4, <3>6 DEF HolderWorks, Active
    <3> QED
      BY <3>5, <3>6
  <2>6. CASE Enqueue(r)
    <3>1. PICK c \in run[r].todo : run' = [run EXCEPT ![r].todo = @ \ {c}]
      BY <2>6 DEF Enqueue
    <3>2. /\ run'[q].stage = run[q].stage /\ run'[q].report = run[q].report
          /\ run'[q].now = run[q].now
      BY <2>1, <3>1 DEF Runs
    <3>3. UNCHANGED <<holder, ledger, lapses>>
      BY <2>6 DEF Enqueue
    <3> QED
      BY <3>2, <3>3 DEF HolderWorks, Active, NotSent
  <2>7. CASE Lapse(r)
    BY <2>7 DEF Lapse, TypeOK
  <2>8. CASE Interrupt(r) \/ Crash(r) \/ Boot(r)
    <3>1. Resting("idle").stage = "idle" /\ Resting("down").stage = "down"
      BY DEF Resting
    <3>2. UNCHANGED <<holder, ledger, lapses>>
      BY <2>8 DEF Interrupt, Crash, Boot, sentVars
    <3>3. run' = [run EXCEPT ![r] = Resting("idle")] \/ run' = [run EXCEPT ![r] = Resting("down")]
      BY <2>8 DEF Interrupt, Crash, Boot
    <3>4. CASE q = r
      BY <2>1, <3>1, <3>3, <3>4
    <3>5. CASE q # r
      BY <2>1, <3>2, <3>3, <3>5 DEF HolderWorks, Active, NotSent
    <3> QED
      BY <3>4, <3>5
  <2>9. CASE Expire(r)
    <3>1. UNCHANGED <<run, ledger, lapses>> /\ holder = r /\ ~Active(r)
      BY <2>9 DEF Expire, sentVars
    <3> QED
      BY <3>1 DEF HolderWorks, Active
  <2> QED
    BY <1>2, <2>2, <2>3, <2>4, <2>5, <2>6, <2>7, <2>8, <2>9 DEF ReplicaStep
<1>3. CASE \/ UNCHANGED vars
           \/ \E c \in Channels : Toggle(c)
           \/ \E lag \in 0 .. MaxLag, bot \in BOOLEAN : Record(lag, bot)
           \/ Elapse
  <2>1. UNCHANGED <<run, holder, ledger, lapses>>
    BY <1>3 DEF vars, replicaVars, sentVars, Toggle, Record, Elapse
  <2> QED
    BY <1>1, <2>1
<1>4. \/ \E r \in Replicas : ReplicaStep(r)
      \/ \E c \in Channels : Toggle(c)
      \/ \E lag \in 0 .. MaxLag, bot \in BOOLEAN : Record(lag, bot)
      \/ Elapse
      \/ UNCHANGED vars
  BY DEF Next
<1> QED
  BY <1>2, <1>3, <1>4

(* A new row is of the report the run at work is queueing.                 *)
LEMMA NewRows ==
  ASSUME TypeOK, HolderWorks, [Next]_vars, lapses = 0, NEW row \in rows' \ rows
  PROVE  ledger[row.report] # row.key
<1>1. ASSUME NEW r \in Replicas, ReplicaStep(r) PROVE ledger[row.report] # row.key
  <2>1. PICK ch \in run[r].todo : Insert(r, ch) /\ run[r].stage = "queueing"
    BY <1>1 DEF ReplicaStep, Tick, AcquireFails, Skip, Gather, Enqueue, Book, ReportFails,
       Lapse, Interrupt, Crash, Expire, Boot, sentVars
  <2>2. ch \in Channels
    BY DEF TypeOK, Runs
  <2>3. row.report = run[r].report /\ row.key = Key(run[r].report, run[r].now)
    BY <2>1, <2>2, InsertRows
  <2>4. NotSent(run[r].report, run[r].now)
    BY <2>1 DEF HolderWorks, Active
  <2> QED
    BY <2>3, <2>4 DEF NotSent
<1> QED
  BY <1>1 DEF Next, vars, sentVars, Toggle, Record, Elapse

-----------------------------------------------------------------------------
(* Every variable keeps its type, for any replicas, channels and calendar. *)
THEOREM DigestTypeCorrect == Spec => []TypeOK
<1>1. Init => TypeOK
  BY ServeInit DEF ServeInv
<1> QED
  BY <1>1, TypeStep, PTL DEF Spec

(* A report the ledger calls sent has a row for every channel its run was  *)
(* to serve, however runs fail, lose their lease or crash.                 *)
THEOREM LedgerMeansQueuedAlways == Spec => []LedgerMeansQueued
<1>1. Init => ServeInv
  BY ServeInit
<1>2. ServeInv => LedgerMeansQueued
  BY DEF ServeInv
<1> QED
  BY <1>1, <1>2, ServeStep, PTL DEF Spec

(* No row joins a booked report while every run kept its lease and read    *)
(* its settings.                                                           *)
THEOREM NoBackfillAlways == Spec => NoBackfill
<1> DEFINE Inv == TypeOK /\ HolderWorks
<1>1. Init => Inv
  BY ServeInit DEF ServeInv
<1>2. Inv /\ [Next]_vars => Inv'
  BY TypeStep, HolderStep
<1> DEFINE Step == lapses = 0 => \A row \in rows' \ rows : ledger[row.report] # row.key
<1>3. Inv /\ [Next]_vars => [Step]_vars
  BY NewRows
<1> HIDE DEF Inv, Step
<1>4. Spec => [][Step]_vars
  BY <1>1, <1>2, <1>3, PTL DEF Spec
<1> QED
  BY <1>4 DEF NoBackfill, Step

-----------------------------------------------------------------------------
(* The digest goes out.  While nothing goes wrong, the run at work and the *)
(* tickers of the replicas that are up keep a window that has opened from  *)
(* passing unused.                                                         *)
Undisturbed == WindowInDay /\ faults = 0 /\ toggles = 0

Within(t, d) == WindowOpens(d) <= t /\ t < WindowOpens(d) + Hour
Served(d) == \A ch \in subscribed : Promised(d, ch) => HasRow("digest", ch, d)
Up(r) == run[r].stage # "down"

(* A run started when its replica's ticker was set anew.                   *)
OnTime == \A r \in Replicas : Active(r) => run[r].now + Hour = clock + next[r]

LeaseKept == faults = 0 => lapses = 0 /\ (holder # "none" => holder \in Replicas /\ Active(holder))

RunSound(r) ==
    /\ run[r].stage = "queueing" => Due(run[r].report, run[r].now)
    /\ Active(r) => \A d \in Nat : Within(run[r].now, d) =>
        /\ run[r].report = "digest" /\ run[r].stage = "queueing" =>
             \A ch \in subscribed : Promised(d, ch) => ch \in run[r].todo \/ HasRow("digest", ch, d)
        /\ run[r].report # "digest" => Served(d)

BookedServed ==
    ledger["digest"] # -1 => clock >= WindowOpens(ledger["digest"]) /\ Served(ledger["digest"])

AtWork(d) == \E s \in Replicas : Active(s) /\ Within(run[s].now, d) /\ run[s].report = "digest"
InTime(d) == \E s \in Replicas : Up(s) /\ clock + next[s] < WindowOpens(d) + Hour

WindowUsed(d) ==
    /\ clock >= WindowOpens(d)
    /\ \E r \in Replicas : Up(r) /\ booted[r] < WindowOpens(d)
    => Served(d) \/ AtWork(d) \/ InTime(d)

SentInv ==
    Undisturbed => (\A r \in Replicas : RunSound(r)) /\ BookedServed /\ (\A d \in Nat : WindowUsed(d))

SentIInv == TypeOK /\ HolderWorks /\ OnTime /\ LeaseKept /\ SentInv

-----------------------------------------------------------------------------
LEMMA DayOfType == ASSUME NEW t \in Nat PROVE DayOf(t) \in Nat
  BY ConstantAssumption, SMT DEF DayOf

LEMMA DayOfUnique ==
    ASSUME NEW t \in Nat, NEW d \in Nat, d * Day <= t, t < d * Day + Day
    PROVE  DayOf(t) = d
<1>1. Day \in Nat \ {0} /\ d * Day \in Nat
  BY ConstantAssumption
<1>2. PICK r \in Nat : t = d * Day + r /\ r < Day
  BY <1>1
<1>3. (d * Day + r) \div Day = d
  BY <1>1, <1>2, SMT
<1> QED
  BY <1>2, <1>3 DEF DayOf

LEMMA OpensType == ASSUME NEW d \in Nat PROVE WindowOpens(d) \in Nat
<1>1. d * Day \in Nat /\ SendAt \in Nat
  BY ConstantAssumption
<1> QED
  BY <1>1 DEF WindowOpens

(* The window of a day is the one that the clock's day has.                *)
LEMMA WithinDay ==
    ASSUME WindowInDay, NEW t \in Nat, NEW d \in Nat, Within(t, d)
    PROVE  DayOf(t) = d /\ InWindow(t)
<1>1. Day \in Nat \ {0} /\ d * Day \in Nat /\ SendAt \in Nat /\ Hour \in Nat
  BY ConstantAssumption
<1>2. d * Day <= t /\ t < d * Day + Day
  BY <1>1 DEF Within, WindowOpens, WindowInDay
<1>3. DayOf(t) = d
  BY <1>2, DayOfUnique
<1> QED
  BY <1>3 DEF Within, InWindow

LEMMA NextReportMoves ==
  ASSUME TypeOK, NEW r \in Replicas, NextReport(r)
  PROVE  /\ run'[r].stage = "checking" => run'[r].now = run[r].now /\ run'[r].report # "digest"
         /\ run'[r].stage = "checking" \/ (run'[r].stage = "idle" /\ holder' # r)
         /\ holder' # "none" => holder' = holder
<1> DEFINE left == {p \in After(run[r].report) : Due(p, run[r].now)}
           first == IF "weekly" \in left THEN "weekly" ELSE "monthly"
           moved == [Resting("checking") EXCEPT !.now = run[r].now, !.report = first]
<1>1. run[r].now \in Nat /\ first # "digest" /\ run \in [Replicas -> Runs]
  BY DEF TypeOK, Runs, Reports
<1>2. moved.stage = "checking" /\ moved.now = run[r].now /\ moved.report = first
  BY <1>1 DEF Resting
<1>3. Resting("idle").stage = "idle"
  BY RestingType
<1>4. \/ /\ run' = [run EXCEPT ![r] = Resting("idle")]
         /\ holder' = IF holder = r THEN "none" ELSE holder
      \/ /\ run' = [run EXCEPT ![r] = moved]
         /\ UNCHANGED holder
  BY DEF NextReport
<1>5. r # "none"
  BY ConstantAssumption
<1> HIDE DEF moved, first
<1> QED
  BY <1>1, <1>2, <1>3, <1>4, <1>5

(* What each action makes of the run of its replica.                       *)
LEMMA TickMoves ==
  ASSUME TypeOK, NEW r \in Replicas, Tick(r)
  PROVE  /\ run[r].stage = "idle" /\ next[r] = 0 /\ next' = [next EXCEPT ![r] = Hour]
         /\ \/ /\ holder = "none" /\ holder' = r
               /\ run'[r].stage = "checking" /\ run'[r].report = "digest" /\ run'[r].now = clock
            \/ holder # "none" /\ UNCHANGED <<holder, run>> /\ skips' = skips + 1
<1> DEFINE started == [Resting("checking") EXCEPT !.now = clock]
<1>1. started.stage = "checking" /\ started.report = "digest" /\ started.now = clock
  BY DEF Resting
<1>2. run \in [Replicas -> Runs]
  BY DEF TypeOK
<1>3. /\ run[r].stage = "idle" /\ next[r] = 0 /\ next' = [next EXCEPT ![r] = Hour]
      /\ \/ /\ holder = "none" /\ holder' = r
            /\ run' = [run EXCEPT ![r] = started]
         \/ holder # "none" /\ UNCHANGED <<holder, run>> /\ skips' = skips + 1
  BY DEF Tick
<1> HIDE DEF started
<1> QED
  BY <1>1, <1>2, <1>3

LEMMA GatherMoves ==
  ASSUME TypeOK, NEW r \in Replicas, Gather(r)
  PROVE  /\ run[r].stage = "checking" /\ run'[r].stage = "queueing"
         /\ run'[r].report = run[r].report /\ run'[r].now = run[r].now /\ run'[r].evs = Found(r)
         /\ run'[r].todo = {ch \in subscribed : Wants(ch, Found(r))}
         /\ run'[r].owed = run'[r].todo
         /\ UNCHANGED <<next, holder>>
<1> DEFINE serve == {ch \in subscribed : Wants(ch, Found(r))}
           gathered == [run[r] EXCEPT !.stage = "queueing", !.evs = Found(r),
                                      !.owed = serve, !.todo = serve]
<1>1. run \in [Replicas -> Runs] /\ run[r] \in Runs
  BY DEF TypeOK
<1>2. /\ gathered.report = run[r].report /\ gathered.now = run[r].now /\ gathered.stage = "queueing"
      /\ gathered.evs = Found(r) /\ gathered.owed = serve /\ gathered.todo = serve
  BY <1>1 DEF Runs
<1>3. run' = [run EXCEPT ![r] = gathered] /\ run[r].stage = "checking" /\ UNCHANGED <<next, holder>>
  BY DEF Gather, Checks
<1> HIDE DEF gathered
<1> QED
  BY <1>1, <1>2, <1>3

LEMMA EnqueueMoves ==
  ASSUME TypeOK, NEW r \in Replicas, Enqueue(r)
  PROVE  /\ run[r].stage = "queueing" /\ run'[r].stage = "queueing"
         /\ run'[r].report = run[r].report /\ run'[r].now = run[r].now /\ run'[r].evs = run[r].evs
         /\ run'[r].owed = run[r].owed /\ run'[r].todo \subseteq run[r].todo
         /\ \A ch \in run[r].todo \ run'[r].todo : ch \in Channels /\ Insert(r, ch)
         /\ UNCHANGED <<next, holder>>
<1>1. run \in [Replicas -> Runs] /\ run[r] \in Runs
  BY DEF TypeOK
<1>2. PICK ch \in run[r].todo : Insert(r, ch) /\ run' = [run EXCEPT ![r].todo = @ \ {ch}]
  BY DEF Enqueue
<1>3. ch \in Channels /\ run[r].stage = "queueing" /\ UNCHANGED <<next, holder>>
  BY <1>1 DEF Enqueue, Runs
<1>4. /\ run'[r].stage = run[r].stage /\ run'[r].report = run[r].report /\ run'[r].now = run[r].now
      /\ run'[r].evs = run[r].evs /\ run'[r].owed = run[r].owed /\ run'[r].todo = run[r].todo \ {ch}
  BY <1>1, <1>2 DEF Runs
<1> QED
  BY <1>2, <1>3, <1>4

-----------------------------------------------------------------------------
LEMMA OnTimeStep == TypeOK /\ OnTime /\ [Next]_vars => OnTime'
<1> SUFFICES ASSUME TypeOK, OnTime, [Next]_vars, NEW q \in Replicas,
                    run'[q].stage \in {"checking", "queueing"}
             PROVE  run'[q].now + Hour = clock' + next'[q]
  BY DEF OnTime, Active
<1>1. /\ next \in [Replicas -> 0 .. Hour] /\ clock \in Nat /\ Hour \in Nat \ {0}
      /\ run \in [Replicas -> Runs] /\ run[q].now \in Nat
  BY ConstantAssumption DEF TypeOK, Runs
<1>2. CASE run'[q] = run[q] /\ next'[q] = next[q] /\ clock' = clock
  BY <1>2 DEF OnTime, Active
<1>3. ASSUME NEW r \in Replicas, ReplicaStep(r) PROVE run'[q].now + Hour = clock' + next'[q]
  <2>1. clock' = clock
    BY <1>3 DEF ReplicaStep, Tick, AcquireFails, Skip, Gather, Enqueue, Book, ReportFails, Lapse,
       Interrupt, Crash, Expire, Boot
  <2>2. CASE q # r
    <3>1. next'[q] = next[q]
      BY <1>1, <1>3, <2>2 DEF ReplicaStep, Tick, AcquireFails, Skip, Gather, Enqueue, Book,
         ReportFails, Lapse, Interrupt, Crash, Expire, Boot
    <3> QED
      BY <1>2, <1>3, <2>1, <2>2, <3>1, OthersRun
  <2>3. CASE q = r
    <3>1. CASE Tick(r)
      BY <1>1, <2>1, <2>3, <3>1, TickMoves
    <3>2. CASE AcquireFails(r)
      BY <2>3, <3>2 DEF AcquireFails
    <3>3. CASE Skip(r) \/ Book(r) \/ ReportFails(r)
      <4>1. NextReport(r) /\ Active(r) /\ next' = next
        BY <3>3 DEF Skip, Book, ReportFails, Checks, Active
      <4>2. run'[r].now = run[r].now
        BY <2>3, <4>1, NextReportMoves
      <4> QED
        BY <2>1, <2>3, <4>1, <4>2 DEF OnTime
    <3>4. CASE Gather(r) \/ Enqueue(r)
      <4>1. Active(r) /\ run'[r].now = run[r].now /\ next' = next
        BY <3>4, GatherMoves, EnqueueMoves DEF Active
      <4> QED
        BY <2>1, <2>3, <4>1 DEF OnTime
    <3>5. CASE Interrupt(r) \/ Crash(r) \/ Boot(r)
      <4>1. run'[r] = Resting("idle") \/ run'[r] = Resting("down")
        BY <1>1, <3>5 DEF Interrupt, Crash, Boot
      <4> QED
        BY <2>3, <4>1, RestingType
    <3>6. CASE Lapse(r) \/ Expire(r)
      BY <1>2, <2>3, <3>6 DEF Lapse, Expire
    <3> QED
      BY <1>3, <3>1, <3>2, <3>3, <3>4, <3>5, <3>6 DEF ReplicaStep
  <2> QED
    BY <2>2, <2>3
<1>4. CASE Elapse
  <2>1. run' = run /\ clock' = clock + 1
    BY <1>4 DEF Elapse
  <2>2. next'[q] = next[q] - 1
    BY <1>4, <2>1 DEF Elapse
  <2> QED
    BY <1>1, <2>1, <2>2 DEF OnTime, Active
<1>5. CASE \/ UNCHANGED vars
           \/ \E c \in Channels : Toggle(c)
           \/ \E lag \in 0 .. MaxLag, bot \in BOOLEAN : Record(lag, bot)
  BY <1>2, <1>5 DEF vars, replicaVars, Toggle, Record
<1> QED
  BY <1>3, <1>4, <1>5 DEF Next

LEMMA LeaseStep == TypeOK /\ HolderWorks /\ LeaseKept /\ [Next]_vars => LeaseKept'
<1> SUFFICES ASSUME TypeOK, HolderWorks, LeaseKept, [Next]_vars, faults' = 0
             PROVE  lapses' = 0 /\ (holder' # "none" =>
                        holder' \in Replicas /\ run'[holder'].stage \in {"checking", "queueing"})
  BY DEF LeaseKept, Active
<1>1. run \in [Replicas -> Runs] /\ faults \in Nat /\ holder \in Replicas \cup {"none"} /\ "none" \notin Replicas
  BY ConstantAssumption DEF TypeOK
<1>2. CASE UNCHANGED <<run, holder, lapses, faults>>
  BY <1>2 DEF LeaseKept, Active
<1>3. ASSUME NEW r \in Replicas, ReplicaStep(r)
      PROVE  lapses' = 0 /\ (holder' # "none" =>
                 holder' \in Replicas /\ run'[holder'].stage \in {"checking", "queueing"})
  <2>1. ~(AcquireFails(r) \/ ReportFails(r) \/ Lapse(r) \/ Crash(r)) /\ faults = 0
    BY <1>1, <1>3 DEF ReplicaStep, Tick, AcquireFails, Skip, Gather, Enqueue, Book, ReportFails,
       Lapse, Interrupt, Crash, Expire, Boot, Fault
  <2>2. lapses = 0 /\ (holder # "none" => holder \in Replicas /\ Active(holder))
    BY <2>1 DEF LeaseKept
  <2>3. \A q \in Replicas : Active(q) => holder = q
    BY <2>2 DEF HolderWorks
  <2>4. CASE Tick(r)
    <3>1. lapses' = lapses
      BY <2>4 DEF Tick
    <3>2. CASE holder' = r /\ run'[r].stage = "checking"
      BY <2>2, <3>1, <3>2
    <3>3. CASE UNCHANGED <<holder, run>>
      BY <2>2, <3>1, <3>3 DEF Active
    <3> QED
      BY <2>4, <3>2, <3>3, TickMoves
  <2>5. CASE Skip(r) \/ Book(r)
    <3>1. NextReport(r) /\ Active(r) /\ lapses' = lapses
      BY <2>5 DEF Skip, Book, Checks, Active
    <3>2. holder = r
      BY <2>3, <3>1
    <3> QED
      BY <1>1, <2>2, <3>1, <3>2, NextReportMoves
  <2>6. CASE Gather(r)
    <3>1. holder = r
      BY <2>3, <2>6 DEF Gather, Checks, Active
    <3>2. lapses' = lapses
      BY <1>1, <2>1, <2>6 DEF Gather, Fault
    <3> QED
      BY <2>2, <2>6, <3>1, <3>2, GatherMoves
  <2>7. CASE Enqueue(r)
    <3>1. holder = r /\ lapses' = lapses
      BY <2>3, <2>7 DEF Enqueue, Active
    <3> QED
      BY <2>2, <2>7, <3>1, EnqueueMoves
  <2>8. CASE Boot(r)
    <3>1. run' = [run EXCEPT ![r] = Resting("idle")] /\ UNCHANGED <<lapses, holder>> /\ ~Active(r)
      BY <2>8 DEF Boot, Active
    <3> QED
      BY <1>1, <2>2, <3>1 DEF Active
  <2>9. ~Interrupt(r) /\ ~Expire(r)
    BY <1>1, <2>2, <2>3 DEF Interrupt, Expire
  <2> QED
    BY <1>3, <2>1, <2>4, <2>5, <2>6, <2>7, <2>8, <2>9 DEF ReplicaStep
<1>4. CASE \/ UNCHANGED vars
           \/ \E c \in Channels : Toggle(c)
           \/ \E lag \in 0 .. MaxLag, bot \in BOOLEAN : Record(lag, bot)
           \/ Elapse
  BY <1>2, <1>4 DEF vars, replicaVars, Toggle, Record, Elapse
<1> QED
  BY <1>3, <1>4 DEF Next

(* What is left of the actions while nothing goes wrong.                   *)
Proceeds(r) == Tick(r) \/ Skip(r) \/ (Gather(r) /\ Wanted(r)) \/ Enqueue(r) \/ Book(r) \/ Boot(r)
Passes == (\E lag \in 0 .. MaxLag, bot \in BOOLEAN : Record(lag, bot)) \/ Elapse \/ UNCHANGED vars

LEMMA UndisturbedNext ==
  ASSUME TypeOK, HolderWorks, LeaseKept, [Next]_vars, Undisturbed'
  PROVE  /\ Undisturbed
         /\ (\E r \in Replicas : Proceeds(r)) \/ Passes
<1>1. WindowInDay /\ faults' = 0 /\ toggles' = 0 /\ faults \in Nat /\ toggles \in Nat
  BY DEF Undisturbed, TypeOK, WindowInDay
<1>2. ASSUME NEW r \in Replicas, ReplicaStep(r) PROVE faults = 0 /\ toggles = 0 /\ Proceeds(r)
  <2>1. ~(AcquireFails(r) \/ ReportFails(r) \/ Lapse(r) \/ Crash(r)) /\ faults = 0 /\ toggles = 0
    BY <1>1, <1>2 DEF ReplicaStep, Tick, AcquireFails, Skip, Gather, Enqueue, Book, ReportFails,
       Lapse, Interrupt, Crash, Expire, Boot, Fault, inputVars
  <2>2. lapses = 0 /\ (holder # "none" => holder \in Replicas /\ Active(holder))
    BY <2>1 DEF LeaseKept
  <2>3. \A q \in Replicas : Active(q) => holder = q
    BY <2>2 DEF HolderWorks
  <2>4. ~Interrupt(r) /\ ~Expire(r)
    BY <2>2, <2>3, ConstantAssumption DEF Interrupt, Expire
  <2>5. Gather(r) => Wanted(r)
    BY <1>1, <2>1 DEF Gather, Fault
  <2> QED
    BY <1>2, <2>1, <2>4, <2>5 DEF ReplicaStep, Proceeds
<1>3. ~\E c \in Channels : Toggle(c)
  BY <1>1 DEF Toggle
<1>4. CASE Passes
  BY <1>1, <1>4 DEF Passes, Record, Elapse, vars, inputVars, Undisturbed
<1> QED
  BY <1>1, <1>2, <1>3, <1>4 DEF Next, Undisturbed, Passes

(* What is written stays written, and nothing that is recorded later is    *)
(* promised to a digest whose window has opened.                           *)
LEMMA StaysServed ==
  ASSUME TypeOK, [Next]_vars, toggles' = 0
  PROVE  /\ rows \subseteq rows' /\ events \subseteq events' /\ subscribed' = subscribed
         /\ \A e \in events' \ events : e.seen = clock
         /\ \A p, ch, k : HasRow(p, ch, k) => HasRow(p, ch, k)'
         /\ \A d \in Nat : clock >= WindowOpens(d) =>
              /\ \A ch : Promised(d, ch)' => Promised(d, ch)
              /\ Served(d) => Served(d)'
<1>1. rows \subseteq rows'
  BY RowsGrow
<1>2. subscribed' = subscribed
  <2>1. toggles \in Nat
    BY DEF TypeOK
  <2>2. ASSUME NEW r \in Replicas, ReplicaStep(r) PROVE subscribed' = subscribed
    BY <2>2 DEF ReplicaStep, Tick, AcquireFails, Skip, Gather, Enqueue, Book, ReportFails,
       Lapse, Interrupt, Crash, Expire, Boot, inputVars
  <2>3. ASSUME NEW c \in Channels, Toggle(c) PROVE FALSE
    BY <2>1, <2>3 DEF Toggle
  <2>4. CASE Elapse \/ UNCHANGED vars \/ \E lag \in 0 .. MaxLag, bot \in BOOLEAN : Record(lag, bot)
    BY <2>4 DEF Record, Elapse, vars, inputVars
  <2> QED
    BY <2>2, <2>3, <2>4 DEF Next
<1>3. events \subseteq events' /\ \A e \in events' \ events : e.seen = clock
  <2>1. \/ events' = events
        \/ \E lag \in 0 .. MaxLag, bot \in BOOLEAN : Record(lag, bot)
    <3>1. ASSUME NEW r \in Replicas, ReplicaStep(r) PROVE events' = events
      BY <3>1 DEF ReplicaStep, Tick, AcquireFails, Skip, Gather, Enqueue, Book, ReportFails,
         Lapse, Interrupt, Crash, Expire, Boot, inputVars
    <3>2. CASE (\E c \in Channels : Toggle(c)) \/ Elapse \/ UNCHANGED vars
      BY <3>2 DEF Toggle, Elapse, vars, inputVars
    <3> QED
      BY <3>1, <3>2 DEF Next
  <2>2. ASSUME NEW lag \in 0 .. MaxLag, NEW bot \in BOOLEAN, Record(lag, bot)
        PROVE  events \subseteq events' /\ \A e \in events' \ events : e.seen = clock
    <3> DEFINE new == [at |-> clock - lag, seen |-> clock, bot |-> bot]
    <3>1. events' = events \cup {new} /\ new.seen = clock
      BY <2>2 DEF Record
    <3> HIDE DEF new
    <3> QED
      BY <3>1
  <2> QED
    BY <2>1, <2>2
<1>4. ASSUME NEW p, NEW ch, NEW k, HasRow(p, ch, k) PROVE HasRow(p, ch, k)'
  BY <1>1, <1>4 DEF HasRow
<1>5. ASSUME NEW d \in Nat, clock >= WindowOpens(d), NEW ch, Promised(d, ch)'
      PROVE  Promised(d, ch)
  <2>1. clock \in Nat /\ WindowOpens(d) \in Nat /\ clock >= WindowOpens(d)
    BY <1>5, OpensType DEF TypeOK
  <2>2. WindowOpens(d)' = WindowOpens(d)
    BY DEF WindowOpens
  <2>3. ASSUME NEW e \in events', e.seen < WindowOpens(d) PROVE e \in events
    BY <1>3, <2>1, <2>3
  <2> QED
    BY <1>5, <2>2, <2>3 DEF Promised
<1>6. ASSUME NEW d \in Nat, clock >= WindowOpens(d), Served(d) PROVE Served(d)'
  BY <1>2, <1>4, <1>5, <1>6 DEF Served
<1> QED
  BY <1>1, <1>2, <1>3, <1>4, <1>5, <1>6

(* A run does not run before its time.                                     *)
LEMMA RunsNotAhead ==
  ASSUME TypeOK, OnTime, NEW r \in Replicas, Active(r)
  PROVE  run[r].now \in Nat /\ run[r].now <= clock /\ clock \in Nat
<1>1. /\ next[r] \in 0 .. Hour /\ clock \in Nat /\ Hour \in Nat /\ run[r].now \in Nat
  BY ConstantAssumption DEF TypeOK, Runs
<1>2. run[r].now + Hour = clock + next[r]
  BY DEF OnTime
<1> QED
  BY <1>1, <1>2

(* A digest that is due finds what was promised, and serves all of it.     *)
LEMMA GatherServes ==
  ASSUME TypeOK, NEW r \in Replicas, NEW d \in Nat, run[r].now \in Nat,
         run[r].report = "digest", Within(run[r].now, d),
         NEW ch \in subscribed, Promised(d, ch)
  PROVE  Wants(ch, Found(r)) /\ (Found(r) = {} => SendEmpty)
<1> DEFINE t == run[r].now
<1>1. Day \in Nat \ {0} /\ Hour \in Nat \ {0} /\ WindowOpens(d) \in Nat
  BY ConstantAssumption, OpensType
<1>2. CASE SendEmpty /\ ch \notin BotFree
  BY <1>2 DEF Wants
<1>3. CASE \E e \in events : ~e.bot /\ e.seen < WindowOpens(d) /\ e.at >= WindowOpens(d) + Hour - Day
  <2>1. PICK e \in events : ~e.bot /\ e.at >= WindowOpens(d) + Hour - Day
    BY <1>3
  <2>2. e.at \in Int
    BY DEF TypeOK, Events
  <2>3. e.at >= t - Day
    BY <1>1, <2>1, <2>2 DEF Within
  <2>4. e \in Found(r)
    BY <2>3 DEF Found, Selected, Since
  <2>5. e \in Human(Found(r))
    BY <2>1, <2>4 DEF Human
  <2> QED
    BY <2>4, <2>5 DEF Wants
<1> QED
  BY <1>2, <1>3 DEF Promised

LEMMA SoundKept ==
  ASSUME TypeOK, OnTime, [Next]_vars, toggles' = 0, NEW q \in Replicas, RunSound(q), run'[q] = run[q]
  PROVE  RunSound(q)'
<1> SUFFICES ASSUME Active(q), NEW d \in Nat, Within(run[q].now, d)
             PROVE  /\ run[q].report = "digest" /\ run[q].stage = "queueing" =>
                         \A ch \in subscribed' : Promised(d, ch)' =>
                             ch \in run[q].todo \/ HasRow("digest", ch, d)'
                    /\ run[q].report # "digest" => Served(d)'
  BY DEF RunSound, Active, Within, WindowOpens, Due, InWindow, SendDay, DayOf
<1>1. clock >= WindowOpens(d)
  <2>1. run[q].now \in Nat /\ run[q].now <= clock /\ clock \in Nat /\ WindowOpens(d) \in Nat
    BY RunsNotAhead, OpensType
  <2> QED
    BY <2>1 DEF Within
<1> QED
  BY <1>1, StaysServed DEF RunSound

(* The report that a run leaves behind is served.                          *)
LEMMA ReportServed ==
  ASSUME TypeOK, OnTime, HolderWorks, lapses = 0, WindowInDay, BookedServed,
         NEW r \in Replicas, RunSound(r), Skip(r) \/ Book(r),
         NEW d \in Nat, Within(run[r].now, d)
  PROVE  Served(d)
<1>1. Active(r)
  BY DEF Skip, Book, Checks, Active
<1>2. run[r].now \in Nat /\ run[r].report \in Reports
  BY DEF TypeOK, Runs
<1>3. DayOf(run[r].now) = d /\ InWindow(run[r].now)
  BY <1>2, WithinDay
<1>4. CASE run[r].report # "digest"
  BY <1>1, <1>4 DEF RunSound
<1>5. CASE run[r].report = "digest" /\ Book(r)
  BY <1>1, <1>5 DEF RunSound, Book, Served
<1>6. CASE run[r].report = "digest" /\ Skip(r) /\ ~Wanted(r)
  <2>1. ledger["digest"] = d
    BY <1>3, <1>6 DEF Wanted, Due, SendDay, NotSent, Key
  <2> QED
    BY <2>1 DEF BookedServed
<1>7. CASE run[r].report = "digest" /\ Skip(r) /\ Wanted(r)
  <2>1. Found(r) = {} /\ ~SendEmpty
    BY <1>7 DEF Skip
  <2> QED
    BY <1>2, <1>7, <2>1, GatherServes DEF Served
<1> QED
  BY <1>4, <1>5, <1>6, <1>7

LEMMA SoundStep ==
  ASSUME SentIInv, [Next]_vars, Undisturbed', NEW q \in Replicas
  PROVE  RunSound(q)'
<1>1. /\ TypeOK /\ HolderWorks /\ OnTime /\ LeaseKept
      /\ Undisturbed
      /\ (\E r \in Replicas : Proceeds(r)) \/ Passes
  BY UndisturbedNext DEF SentIInv
<1>2. /\ WindowInDay /\ toggles' = 0 /\ lapses = 0 /\ BookedServed
      /\ \A r \in Replicas : RunSound(r)
  <2>1. WindowInDay /\ toggles' = 0 /\ faults = 0
    BY <1>1 DEF Undisturbed
  <2>2. lapses = 0
    BY <1>1, <2>1 DEF LeaseKept
  <2>3. BookedServed /\ \A r \in Replicas : RunSound(r)
    BY <1>1 DEF SentIInv, SentInv
  <2> QED
    BY <2>1, <2>2, <2>3
<1>3. ASSUME run'[q] = run[q] PROVE RunSound(q)'
  BY <1>1, <1>2, <1>3, SoundKept
<1>4. ASSUME run'[q].stage \notin {"checking", "queueing"} PROVE RunSound(q)'
  BY <1>4 DEF RunSound, Active
<1>5. ASSUME Proceeds(q) PROVE RunSound(q)'
  <2>1. CASE Tick(q)
    <3>1. CASE run' = run
      BY <1>3, <3>1
    <3>2. CASE run'[q].stage = "checking" /\ run'[q].report = "digest"
      BY <3>2 DEF RunSound
    <3> QED
      BY <1>1, <2>1, <3>1, <3>2, TickMoves
  <2>2. CASE Skip(q) \/ Book(q)
    <3>1. NextReport(q) /\ Active(q)
      BY <2>2 DEF Skip, Book, Checks, Active
    <3>2. CASE run'[q].stage = "idle"
      BY <1>4, <3>2
    <3>3. CASE run'[q].stage = "checking" /\ run'[q].now = run[q].now
      <4>1. ASSUME NEW d \in Nat, Within(run[q].now, d) PROVE Served(d)'
        <5>1. clock >= WindowOpens(d)
          <6>1. run[q].now \in Nat /\ run[q].now <= clock /\ clock \in Nat /\ WindowOpens(d) \in Nat
            BY <1>1, <3>1, RunsNotAhead, OpensType
          <6> QED
            BY <4>1, <6>1 DEF Within
        <5>2. Served(d)
          BY <1>1, <1>2, <2>2, <4>1, ReportServed
        <5> QED
          BY <1>1, <1>2, <5>1, <5>2, StaysServed
      <4> QED
        BY <3>3, <4>1 DEF RunSound, Within, WindowOpens
    <3> QED
      BY <1>1, <3>1, <3>2, <3>3, NextReportMoves
  <2>3. CASE Gather(q) /\ Wanted(q)
    <3>1. /\ Active(q) /\ run'[q].stage = "queueing" /\ run'[q].report = run[q].report
          /\ run'[q].now = run[q].now
          /\ run'[q].todo = {ch \in subscribed : Wants(ch, Found(q))}
      BY <1>1, <2>3, GatherMoves DEF Active
    <3>2. Due(run[q].report, run[q].now)
      BY <2>3 DEF Wanted
    <3>3. run[q].now \in Nat /\ run[q].now <= clock /\ clock \in Nat
      BY <1>1, <3>1, RunsNotAhead
    <3> SUFFICES ASSUME NEW d \in Nat, Within(run[q].now, d)
                 PROVE  /\ run[q].report = "digest" =>
                             \A ch \in subscribed' : Promised(d, ch)' => ch \in run'[q].todo
                        /\ run[q].report # "digest" => Served(d)'
      BY <3>1, <3>2 DEF RunSound, Active, Within, WindowOpens, Due, InWindow, SendDay, DayOf
    <3>4. clock >= WindowOpens(d)
      BY <3>3, OpensType DEF Within
    <3>5. ASSUME run[q].report = "digest", NEW ch \in subscribed', Promised(d, ch)'
          PROVE  ch \in run'[q].todo
      <4>1. ch \in subscribed /\ Promised(d, ch)
        BY <1>1, <1>2, <3>4, <3>5, StaysServed
      <4> QED
        BY <1>1, <3>1, <3>3, <3>5, <4>1, GatherServes
    <3>6. ASSUME run[q].report # "digest" PROVE Served(d)'
      <4>1. Served(d)
        BY <1>2, <3>1, <3>6 DEF RunSound
      <4> QED
        BY <1>1, <1>2, <3>4, <4>1, StaysServed
    <3> QED
      BY <3>5, <3>6
  <2>4. CASE Enqueue(q)
    <3>1. /\ Active(q) /\ run[q].stage = "queueing" /\ run'[q].stage = "queueing"
          /\ run'[q].report = run[q].report /\ run'[q].now = run[q].now
          /\ \A ch \in run[q].todo \ run'[q].todo : ch \in Channels /\ Insert(q, ch)
      BY <1>1, <2>4, EnqueueMoves DEF Active
    <3>2. Due(run[q].report, run[q].now)
      BY <1>2, <3>1 DEF RunSound
    <3>3. run[q].now \in Nat /\ run[q].now <= clock /\ clock \in Nat
      BY <1>1, <3>1, RunsNotAhead
    <3> SUFFICES ASSUME NEW d \in Nat, Within(run[q].now, d)
                 PROVE  /\ run[q].report = "digest" =>
                             \A ch \in subscribed' : Promised(d, ch)' =>
                                 ch \in run'[q].todo \/ HasRow("digest", ch, d)'
                        /\ run[q].report # "digest" => Served(d)'
      BY <3>1, <3>2 DEF RunSound, Active, Within, WindowOpens, Due, InWindow, SendDay, DayOf
    <3>4. clock >= WindowOpens(d)
      BY <3>3, OpensType DEF Within
    <3>5. ASSUME run[q].report = "digest", NEW ch \in subscribed', Promised(d, ch)',
                 ch \notin run'[q].todo
          PROVE  HasRow("digest", ch, d)'
      <4>1. ch \in subscribed /\ Promised(d, ch)
        BY <1>1, <1>2, <3>4, <3>5, StaysServed
      <4>2. ch \in run[q].todo \/ HasRow("digest", ch, d)
        BY <1>2, <3>1, <3>5, <4>1 DEF RunSound
      <4>3. CASE HasRow("digest", ch, d)
        BY <1>1, <1>2, <4>3, StaysServed
      <4>4. CASE ch \in run[q].todo
        <5>1. ch \in Channels /\ Insert(q, ch)
          BY <3>1, <3>5, <4>4
        <5>2. Key(run[q].report, run[q].now) = d
          BY <1>2, <3>3, <3>5, WithinDay DEF Key
        <5> QED
          BY <1>1, <3>5, <5>1, <5>2, InsertRows DEF HasRow
      <4> QED
        BY <4>2, <4>3, <4>4
    <3>6. ASSUME run[q].report # "digest" PROVE Served(d)'
      <4>1. Served(d)
        BY <1>2, <3>1, <3>6 DEF RunSound
      <4> QED
        BY <1>1, <1>2, <3>4, <4>1, StaysServed
    <3> QED
      BY <3>5, <3>6
  <2>5. CASE Boot(q)
    <3>1. run'[q] = Resting("idle")
      BY <1>1, <2>5 DEF Boot, TypeOK
    <3> QED
      BY <1>4, <3>1, RestingType
  <2> QED
    BY <1>5, <2>1, <2>2, <2>3, <2>4, <2>5 DEF Proceeds
<1>6. ASSUME NEW r \in Replicas, Proceeds(r), r # q PROVE RunSound(q)'
  <2>1. ReplicaStep(r)
    BY <1>6 DEF Proceeds, ReplicaStep
  <2> QED
    BY <1>1, <1>3, <1>6, <2>1, OthersRun
<1>7. CASE Passes
  <2>1. run' = run
    BY <1>7 DEF Passes, Record, Elapse, vars, replicaVars
  <2> QED
    BY <1>3, <2>1
<1> QED
  BY <1>1, <1>5, <1>6, <1>7

LEMMA BookedStep == SentIInv /\ [Next]_vars /\ Undisturbed' => BookedServed'
<1> SUFFICES ASSUME SentIInv, [Next]_vars, Undisturbed' PROVE BookedServed'
  OBVIOUS
<1>1. /\ TypeOK /\ HolderWorks /\ OnTime /\ LeaseKept
      /\ Undisturbed
      /\ (\E r \in Replicas : Proceeds(r)) \/ Passes
  BY UndisturbedNext DEF SentIInv
<1>2. /\ WindowInDay /\ toggles' = 0 /\ lapses = 0 /\ BookedServed
      /\ \A r \in Replicas : RunSound(r)
  <2>1. WindowInDay /\ toggles' = 0 /\ faults = 0
    BY <1>1 DEF Undisturbed
  <2>2. lapses = 0
    BY <1>1, <2>1 DEF LeaseKept
  <2>3. BookedServed /\ \A r \in Replicas : RunSound(r)
    BY <1>1 DEF SentIInv, SentInv
  <2> QED
    BY <2>1, <2>2, <2>3
<1>3. /\ clock \in Nat /\ clock' \in Nat /\ clock <= clock'
      /\ ledger \in [Reports -> Nat \cup {-1}]
  <2>1. clock \in Nat /\ ledger \in [Reports -> Nat \cup {-1}]
    BY <1>1 DEF TypeOK
  <2>2. clock' = clock \/ clock' = clock + 1
    BY <1>1 DEF Proceeds, Passes, Tick, Skip, Gather, Enqueue, Book, Boot, Record, Elapse, vars
  <2> QED
    BY <2>1, <2>2
<1>4. ASSUME ledger'["digest"] = ledger["digest"] PROVE BookedServed'
  <2>1. ASSUME ledger["digest"] # -1
        PROVE  clock' >= WindowOpens(ledger["digest"]) /\ Served(ledger["digest"])'
    <3>1. PICK d \in Nat : d = ledger["digest"]
      BY <1>3, <2>1 DEF Reports
    <3>2. clock >= WindowOpens(d) /\ Served(d) /\ WindowOpens(d) \in Nat
      BY <1>2, <2>1, <3>1, OpensType DEF BookedServed
    <3>3. Served(d)'
      BY <1>1, <1>2, <3>2, StaysServed
    <3>4. Served(ledger["digest"])' = Served(d)'
      BY <1>4, <3>1 DEF Served, Promised, HasRow, WindowOpens
    <3> QED
      BY <1>3, <1>4, <3>1, <3>2, <3>3 DEF Served, Promised, HasRow, WindowOpens
  <2> QED
    BY <1>4, <2>1 DEF BookedServed, Served, Promised, HasRow, WindowOpens
<1>5. ASSUME NEW r \in Replicas, Book(r), run[r].report = "digest" PROVE BookedServed'
  <2> DEFINE t == run[r].now
  <2>1. /\ Active(r) /\ run[r].stage = "queueing"
        /\ ledger' = [ledger EXCEPT ![run[r].report] = Key(run[r].report, t)]
    BY <1>5 DEF Book, Active
  <2>2. t \in Nat /\ t <= clock
    BY <1>1, <2>1, RunsNotAhead
  <2>3. PICK d \in Nat : d = DayOf(t)
    BY <2>2, DayOfType
  <2>4. Within(t, d)
    BY <1>2, <1>5, <2>1, <2>3 DEF RunSound, Due, InWindow, Within
  <2>5. Served(d) /\ WindowOpens(d) \in Nat
    BY <1>1, <1>2, <1>5, <2>4, ReportServed, OpensType
  <2>6. clock >= WindowOpens(d) /\ clock' >= WindowOpens(d)
    BY <1>3, <2>2, <2>4, <2>5 DEF Within
  <2>7. Served(d)'
    BY <1>1, <1>2, <2>5, <2>6, StaysServed
  <2>8. ledger'["digest"] = d
    BY <1>3, <1>5, <2>1, <2>3 DEF Key, Reports
  <2> QED
    BY <2>6, <2>7, <2>8 DEF BookedServed, Served, Promised, HasRow, WindowOpens
<1>6. \/ ledger'["digest"] = ledger["digest"]
      \/ \E r \in Replicas : Book(r) /\ run[r].report = "digest"
  <2>1. ASSUME NEW r \in Replicas, Book(r), run[r].report # "digest"
        PROVE  ledger'["digest"] = ledger["digest"]
    BY <1>3, <2>1 DEF Book, Reports
  <2>2. \/ ledger' = ledger
        \/ \E r \in Replicas : Book(r)
    BY <1>1 DEF Proceeds, Passes, Tick, Skip, Gather, Enqueue, Boot, Record, Elapse, vars, sentVars
  <2> QED
    BY <2>1, <2>2
<1> QED
  BY <1>4, <1>5, <1>6

(* A window that has opened is used, or will be before it is over.         *)
LEMMA UsedStep ==
  ASSUME SentIInv, [Next]_vars, Undisturbed', NEW d \in Nat
  PROVE  WindowUsed(d)'
<1>1. /\ TypeOK /\ HolderWorks /\ OnTime /\ LeaseKept
      /\ Undisturbed
      /\ (\E r \in Replicas : Proceeds(r)) \/ Passes
  BY UndisturbedNext DEF SentIInv
<1>2. /\ WindowInDay /\ toggles' = 0 /\ lapses = 0 /\ BookedServed
      /\ \A r \in Replicas : RunSound(r)
      /\ WindowUsed(d)
      /\ holder # "none" => holder \in Replicas /\ Active(holder)
  <2>1. WindowInDay /\ toggles' = 0 /\ faults = 0
    BY <1>1 DEF Undisturbed
  <2>2. lapses = 0 /\ (holder # "none" => holder \in Replicas /\ Active(holder))
    BY <1>1, <2>1 DEF LeaseKept
  <2>3. BookedServed /\ WindowUsed(d) /\ \A r \in Replicas : RunSound(r)
    BY <1>1 DEF SentIInv, SentInv
  <2> QED
    BY <2>1, <2>2, <2>3
<1>3. /\ clock \in Nat /\ Hour \in Nat \ {0} /\ WindowOpens(d) \in Nat
      /\ next \in [Replicas -> 0 .. Hour] /\ booted \in [Replicas -> Nat]
      /\ run \in [Replicas -> Runs]
  BY <1>1, ConstantAssumption, OpensType DEF TypeOK
<1> DEFINE opens == WindowOpens(d)
           atWork == \E s \in Replicas : /\ run'[s].stage \in {"checking", "queueing"}
                                         /\ Within(run'[s].now, d) /\ run'[s].report = "digest"
           inTime == \E s \in Replicas : run'[s].stage # "down" /\ clock' + next'[s] < opens + Hour
<1> SUFFICES ASSUME clock' >= opens,
                    NEW u \in Replicas, run'[u].stage # "down", booted'[u] < opens
             PROVE  Served(d)' \/ atWork \/ inTime
  BY DEF WindowUsed, AtWork, InTime, Up, Active, Within, WindowOpens
<1> HIDE DEF opens, atWork, inTime
<1>4. CASE Elapse
  <2>1. /\ clock' = clock + 1 /\ run' = run /\ booted' = booted
        /\ \A r \in Replicas : run[r].stage # "down" => next'[r] = next[r] - 1
    BY <1>4 DEF Elapse
  <2>2. CASE clock >= opens
    <3>1. Served(d) \/ AtWork(d) \/ InTime(d)
      BY <1>2, <2>1, <2>2 DEF WindowUsed, Up, opens
    <3>2. CASE Served(d)
      BY <1>1, <1>2, <2>2, <3>2, StaysServed DEF opens
    <3>3. CASE AtWork(d)
      BY <2>1, <3>3 DEF AtWork, Active, atWork
    <3>4. CASE InTime(d)
      <4>1. PICK s \in Replicas : run[s].stage # "down" /\ clock + next[s] < opens + Hour
        BY <3>4 DEF InTime, Up, opens
      <4>2. next'[s] = next[s] - 1 /\ next[s] \in Int
        BY <1>3, <2>1, <4>1
      <4>3. clock' + next'[s] < opens + Hour
        BY <1>3, <2>1, <4>1, <4>2
      <4> QED
        BY <2>1, <4>1, <4>3 DEF inTime
    <3> QED
      BY <3>1, <3>2, <3>3, <3>4
  <2>3. CASE ~(clock >= opens)
    <3>1. next'[u] = next[u] - 1 /\ next[u] \in 0 .. Hour
      BY <1>3, <2>1
    <3>2. clock' = opens
      BY <1>3, <2>1, <2>3 DEF opens
    <3>3. clock' + next'[u] < opens + Hour
      BY <1>3, <3>1, <3>2 DEF opens
    <3> QED
      BY <3>3 DEF inTime
  <2> QED
    BY <2>2, <2>3
<1>5. ASSUME clock' = clock, run'[u].stage # "down" => Up(u) /\ booted'[u] = booted[u]
      PROVE  Served(d)' \/ AtWork(d) \/ InTime(d)
  <2>1. clock >= opens /\ Up(u) /\ booted[u] < opens
    BY <1>5
  <2>2. Served(d) \/ AtWork(d) \/ InTime(d)
    BY <1>2, <2>1 DEF WindowUsed, opens
  <2>3. Served(d) => Served(d)'
    BY <1>1, <1>2, <2>1, StaysServed DEF opens
  <2> QED
    BY <2>2, <2>3
<1>6. ASSUME NEW r \in Replicas, Proceeds(r) PROVE Served(d)' \/ atWork \/ inTime
  <2>1. ReplicaStep(r) /\ clock' = clock
    BY <1>6 DEF Proceeds, ReplicaStep, Tick, Skip, Gather, Enqueue, Book, Boot
  <2>2. \A q \in Replicas : q # r => run'[q] = run[q]
    BY <1>1, <2>1, OthersRun
  <2>3. clock >= opens
    BY <2>1
  <2>4. CASE Boot(r)
    <3>1. /\ run'[r] = Resting("idle") /\ booted' = [booted EXCEPT ![r] = clock]
          /\ next' = [next EXCEPT ![r] = Hour] /\ run[r].stage = "down"
      BY <1>3, <2>4 DEF Boot
    <3>2. u # r
      BY <1>3, <2>1, <2>3, <3>1 DEF opens
    <3>3. Up(u) /\ booted'[u] = booted[u]
      BY <1>3, <2>2, <3>1, <3>2 DEF Up
    <3>4. Served(d)' \/ AtWork(d) \/ InTime(d)
      BY <1>5, <2>1, <3>3
    <3>5. AtWork(d) => atWork
      BY <2>2, <3>1 DEF AtWork, Active, atWork
    <3>6. ASSUME InTime(d) PROVE inTime
      <4>1. PICK s \in Replicas : run[s].stage # "down" /\ clock + next[s] < opens + Hour
        BY <3>6 DEF InTime, Up, opens
      <4>2. s # r /\ next'[s] = next[s] /\ run'[s] = run[s]
        BY <1>3, <2>2, <3>1, <4>1
      <4> QED
        BY <2>1, <4>1, <4>2 DEF inTime
    <3> QED
      BY <3>4, <3>5, <3>6
  <2>5. CASE Tick(r)
    <3>1. /\ run[r].stage = "idle" /\ next[r] = 0 /\ next' = [next EXCEPT ![r] = Hour]
          /\ \/ /\ holder = "none" /\ holder' = r
                /\ run'[r].stage = "checking" /\ run'[r].report = "digest" /\ run'[r].now = clock
             \/ holder # "none" /\ UNCHANGED <<holder, run>>
      BY <1>1, <2>5, TickMoves
    <3>2. booted' = booted /\ (\A q \in Replicas : run'[q].stage # "down" => Up(q))
      <4>1. booted' = booted
        BY <2>5 DEF Tick
      <4> QED
        BY <2>2, <3>1, <4>1 DEF Up
    <3>3. Served(d)' \/ AtWork(d) \/ InTime(d)
      BY <1>5, <2>1, <3>2
    <3>4. AtWork(d) => atWork
      <4>1. ~Active(r)
        BY <3>1 DEF Active
      <4> QED
        BY <2>2, <4>1 DEF AtWork, Active, atWork
    <3>5. ASSUME InTime(d) PROVE Served(d)' \/ atWork \/ inTime
      <4>1. PICK s \in Replicas : run[s].stage # "down" /\ clock + next[s] < opens + Hour
        BY <3>5 DEF InTime, Up, opens
      <4>2. CASE s # r
        <5>1. next'[s] = next[s] /\ run'[s] = run[s]
          BY <1>3, <2>2, <3>1, <4>2
        <5> QED
          BY <2>1, <4>1, <5>1 DEF inTime
      <4>3. CASE s = r /\ holder = "none"
        <5>1. clock < opens + Hour
          BY <1>3, <3>1, <4>1, <4>3
        <5>2. Within(run'[r].now, d)
          BY <2>3, <3>1, <4>3, <5>1 DEF Within, opens
        <5> QED
          BY <3>1, <4>3, <5>2 DEF atWork
      <4>4. CASE s = r /\ holder # "none"
        <5>1. clock < opens + Hour
          BY <1>3, <3>1, <4>1, <4>4
        <5>2. PICK h \in Replicas : h = holder /\ Active(h)
          BY <1>2, <4>4
        <5>3. run' = run /\ h # r
          BY <3>1, <4>4, <5>2 DEF Active
        <5>4. /\ run[h].now \in Nat /\ run[h].now <= clock /\ run[h].now + Hour = clock + next[h]
              /\ next'[h] = next[h]
          BY <1>1, <1>3, <3>1, <5>2, <5>3, RunsNotAhead DEF OnTime
        <5>5. CASE ~(opens <= run[h].now)
          <6>1. clock + next[h] < opens + Hour
            BY <1>3, <5>4, <5>5 DEF opens
          <6>2. run'[h].stage # "down"
            BY <5>2, <5>3 DEF Active
          <6> QED
            BY <2>1, <5>4, <6>1, <6>2 DEF inTime
        <5>6. CASE opens <= run[h].now
          <6>1. Within(run[h].now, d)
            BY <1>3, <5>1, <5>4, <5>6 DEF Within, opens
          <6>2. CASE run[h].report = "digest"
            BY <5>2, <5>3, <6>1, <6>2 DEF atWork, Active
          <6>3. CASE run[h].report # "digest"
            <7>1. Served(d)
              BY <1>2, <5>2, <6>1, <6>3 DEF RunSound
            <7> QED
              BY <1>1, <1>2, <2>3, <7>1, StaysServed DEF opens
          <6> QED
            BY <6>2, <6>3
        <5> QED
          BY <5>5, <5>6
      <4> QED
        BY <4>2, <4>3, <4>4
    <3> QED
      BY <3>3, <3>4, <3>5
  <2>6. CASE Skip(r) \/ Book(r) \/ Gather(r) \/ Enqueue(r)
    <3>1. Active(r) /\ next' = next /\ booted' = booted
      BY <2>6 DEF Skip, Book, Gather, Enqueue, Checks, Active
    <3>2. run'[r].stage # "down"
      <4>1. CASE Skip(r) \/ Book(r)
        BY <1>1, <4>1, NextReportMoves DEF Skip, Book
      <4>2. CASE Gather(r) \/ Enqueue(r)
        BY <1>1, <4>2, GatherMoves, EnqueueMoves
      <4> QED
        BY <2>6, <4>1, <4>2
    <3>3. \A q \in Replicas : run'[q].stage # "down" <=> Up(q)
      BY <2>2, <3>1, <3>2 DEF Up, Active
    <3>4. Served(d)' \/ AtWork(d) \/ InTime(d)
      BY <1>5, <2>1, <3>1, <3>3
    <3>5. InTime(d) => inTime
      BY <2>1, <3>1, <3>3 DEF InTime, inTime, opens
    <3>6. ASSUME AtWork(d) PROVE Served(d)' \/ atWork
      <4>1. PICK s \in Replicas : Active(s) /\ Within(run[s].now, d) /\ run[s].report = "digest"
        BY <3>6 DEF AtWork
      <4>2. CASE s # r
        BY <2>2, <4>1, <4>2 DEF atWork, Active
      <4>3. CASE s = r /\ (Gather(r) \/ Enqueue(r))
        <5>1. run'[r].stage = "queueing" /\ run'[r].now = run[r].now /\ run'[r].report = run[r].report
          BY <1>1, <4>3, GatherMoves, EnqueueMoves
        <5> QED
          BY <4>1, <4>3, <5>1 DEF atWork
      <4>4. CASE s = r /\ (Skip(r) \/ Book(r))
        <5>1. Served(d)
          BY <1>1, <1>2, <4>1, <4>4, ReportServed
        <5> QED
          BY <1>1, <1>2, <2>3, <5>1, StaysServed DEF opens
      <4> QED
        BY <2>6, <4>2, <4>3, <4>4
    <3> QED
      BY <3>4, <3>5, <3>6
  <2> QED
    BY <1>6, <2>4, <2>5, <2>6 DEF Proceeds
<1>7. CASE \/ \E lag \in 0 .. MaxLag, bot \in BOOLEAN : Record(lag, bot)
           \/ UNCHANGED vars
  <2>1. UNCHANGED <<clock, next, run, booted>>
    BY <1>7 DEF Record, vars, replicaVars
  <2>2. Served(d)' \/ AtWork(d) \/ InTime(d)
    BY <1>5, <2>1 DEF Up
  <2> QED
    BY <2>1, <2>2 DEF AtWork, InTime, Up, Active, atWork, inTime, opens
<1> QED
  BY <1>1, <1>4, <1>6, <1>7 DEF Passes

LEMMA SentBase == Init => SentIInv
<1> SUFFICES ASSUME Init PROVE SentIInv
  OBVIOUS
<1>1. TypeOK /\ HolderWorks
  BY ServeInit DEF ServeInv
<1>2. \A r \in Replicas : run[r].stage = "down"
  BY RestingType DEF Init
<1>3. OnTime /\ LeaseKept
  BY <1>2 DEF Init, OnTime, LeaseKept, Active
<1>4. SentInv
  BY <1>2 DEF Init, SentInv, RunSound, BookedServed, WindowUsed, Up, Active, Reports
<1> QED
  BY <1>1, <1>3, <1>4 DEF SentIInv

LEMMA SentStep == SentIInv /\ [Next]_vars => SentIInv'
<1> SUFFICES ASSUME SentIInv, [Next]_vars PROVE SentIInv'
  OBVIOUS
<1>1. TypeOK' /\ HolderWorks' /\ OnTime' /\ LeaseKept'
  BY TypeStep, HolderStep, OnTimeStep, LeaseStep DEF SentIInv
<1>2. SentInv'
  <2> SUFFICES ASSUME Undisturbed'
               PROVE  (\A r \in Replicas : RunSound(r)') /\ BookedServed' /\ (\A d \in Nat : WindowUsed(d)')
    BY DEF SentInv
  <2> QED
    BY SoundStep, BookedStep, UsedStep
<1> QED
  BY <1>1, <1>2 DEF SentIInv

LEMMA SentMeant == SentIInv => DigestSent
<1> SUFFICES ASSUME SentIInv, Undisturbed, NEW d \in 0 .. DayOf(clock),
                    clock >= WindowOpens(d) + 2 * Hour,
                    NEW r \in Replicas, run[r].stage # "down", booted[r] < WindowOpens(d)
             PROVE  Served(d)
  BY DEF DigestSent, Undisturbed, Served
<1>1. /\ clock \in Nat /\ Hour \in Nat \ {0} /\ DayOf(clock) \in Nat
      /\ next \in [Replicas -> 0 .. Hour]
  BY ConstantAssumption, DayOfType DEF SentIInv, TypeOK
<1>2. d \in Nat
  BY <1>1
<1>3. WindowOpens(d) \in Nat
  BY <1>2, OpensType
<1>4. clock >= WindowOpens(d)
  BY <1>1, <1>3
<1>5. Served(d) \/ AtWork(d) \/ InTime(d)
  BY <1>2, <1>4 DEF SentIInv, SentInv, WindowUsed, Up
<1>6. ~InTime(d)
  BY <1>1, <1>3 DEF InTime
<1>7. ~AtWork(d)
  <2> SUFFICES ASSUME NEW s \in Replicas, Active(s), Within(run[s].now, d) PROVE FALSE
    BY DEF AtWork
  <2>1. run[s].now \in Nat /\ run[s].now + Hour = clock + next[s] /\ next[s] \in 0 .. Hour
    BY <1>1, RunsNotAhead DEF SentIInv, OnTime
  <2> QED
    BY <1>1, <1>3, <2>1 DEF Within
<1> QED
  BY <1>5, <1>6, <1>7

(* The digest of a day goes out: an hour after its window has closed every *)
(* subscribed channel has the row it was promised, whatever the phases of  *)
(* the tickers and whoever held the lease, when a replica was up before    *)
(* the window opened and nothing failed (RunOnce in digest/generator.go,   *)
(* the hourly ticker and the lease of syncx.Scheduler).                    *)
THEOREM DigestSentAlways == Spec => []DigestSent
  BY SentBase, SentStep, SentMeant, PTL DEF Spec

-----------------------------------------------------------------------------
(* No event slips between two digests.  While no tick is skipped either, a *)
(* digest that was booked has swept the day before it, the ticker that led *)
(* to it comes back a day later, and an event waits for a tick that will   *)
(* find it.                                                                *)
Steady == Undisturbed /\ skips = 0

Fits(e, ch) == e.at = e.seen /\ (e.bot => ch \notin BotFree)
Covered(e, ch) == \E row \in rows : row.report = "digest" /\ row.channel = ch /\ e \in row.evs
CoveredAll(e) == \A ch \in subscribed : Fits(e, ch) => Covered(e, ch)
InSweep(e, t) == t - Day <= e.at /\ e.at < t
Swept(t) == \A e \in events : InSweep(e, t) => CoveredAll(e)

(* The ticker of s fired at t, or will, if only Hour after Hour.           *)
Beat(s, t) == \E n \in Nat : clock + next[s] = t + n * Hour

Sweeps(r) ==
    run[r].stage = "queueing" /\ run[r].report = "digest" =>
        \A e \in events : \A ch \in subscribed :
            Fits(e, ch) /\ InSweep(e, run[r].now) =>
                e \in run[r].evs /\ (ch \in run[r].todo \/ Covered(e, ch))

EventsPast == \A e \in events : e.seen <= clock

LedgerPast ==
    /\ ledger["digest"] <= DayOf(clock)
    /\ \A r \in Replicas : Active(r) => ledger["digest"] <= DayOf(run[r].now)

RowBooked(row) ==
    \/ row.key <= ledger["digest"]
    \/ \E s \in Replicas :
          /\ run[s].stage = "queueing" /\ run[s].report = "digest"
          /\ row.key = DayOf(run[s].now) /\ row.channel \notin run[s].todo

BookedSweeps ==
    ledger["digest"] # -1 => \E t \in Nat, s \in Replicas :
        Up(s) /\ Within(t, ledger["digest"]) /\ t <= clock /\ Swept(t) /\ Beat(s, t)

Carried(e) == \E s \in Replicas :
    /\ Active(s) /\ run[s].report = "digest" /\ NotSent("digest", run[s].now)
    /\ InSweep(e, run[s].now)
    /\ Within(run[s].now, DayOf(e.at)) \/ Within(run[s].now, DayOf(e.at) + 1)

Awaited(e) == \E s \in Replicas, t \in Nat :
    Up(s) /\ Within(t, DayOf(e.at)) /\ t <= e.at /\ Beat(s, t) /\ clock + next[s] <= t + Day

Planned(e) ==
    /\ e.at = e.seen
    /\ \E r \in Replicas : Up(r) /\ booted[r] < WindowOpens(DayOf(e.at))
    => \/ clock < WindowOpens(DayOf(e.at)) \/ InTime(DayOf(e.at))
       \/ Carried(e) \/ Awaited(e) \/ CoveredAll(e)

CoverInv ==
    /\ \A r \in Replicas : Sweeps(r)
    /\ EventsPast /\ LedgerPast
    /\ \A row \in rows : row.report = "digest" => RowBooked(row)
    /\ BookedSweeps
    /\ \A e \in events : Planned(e)

CoverIInv == SentIInv /\ (Steady => CoverInv)

-----------------------------------------------------------------------------
(* Hours and days.                                                         *)
LEMMA TimesHour ==
    /\ Hour \in Nat \ {0}
    /\ \A n \in Nat : n * Hour \in Nat /\ (n + 1) * Hour = n * Hour + Hour
    /\ \A m, n \in Nat : m * Hour < n * Hour => m * Hour + Hour <= n * Hour
<1>1. Hour \in Nat \ {0}
  BY ConstantAssumption
<1>2. \A n \in Nat : n * Hour \in Nat /\ (n + 1) * Hour = n * Hour + Hour
  BY <1>1
<1>3. ASSUME NEW m \in Nat, NEW n \in Nat, m * Hour < n * Hour
      PROVE  m * Hour + Hour <= n * Hour
  <2>1. ASSUME n <= m PROVE FALSE
    <3>1. PICK k \in Nat : m = n + k
      BY <2>1
    <3>2. m * Hour = n * Hour + k * Hour
      BY <1>1, <3>1
    <3> QED
      BY <1>2, <1>3, <3>2
  <2>2. PICK k \in Nat : n = (m + 1) + k
    BY <2>1
  <2>3. n * Hour = (m + 1) * Hour + k * Hour
    BY <1>1, <2>2
  <2> QED
    BY <1>2, <2>3
<1> QED
  BY <1>1, <1>2, <1>3

LEMMA DayHours == \E q \in Nat : Day = q * Hour
<1>1. Day \in Nat \ {0} /\ Hour \in Nat \ {0} /\ Day % Hour = 0
  BY ConstantAssumption
<1>2. Day \div Hour \in Nat /\ Day = Hour * (Day \div Hour) + (Day % Hour)
  BY <1>1, SMT
<1>3. Day = (Day \div Hour) * Hour
  BY <1>1, <1>2
<1> QED
  BY <1>2, <1>3

LEMMA DayOfBounds ==
    ASSUME NEW t \in Nat
    PROVE  DayOf(t) * Day <= t /\ t < DayOf(t) * Day + Day
<1>1. Day \in Nat \ {0}
  BY ConstantAssumption
<1>2. t \div Day \in Nat /\ t = Day * (t \div Day) + (t % Day) /\ t % Day \in 0 .. Day - 1
  BY <1>1, SMT
<1>3. Day * (t \div Day) = (t \div Day) * Day /\ (t \div Day) * Day \in Nat
  BY <1>1, <1>2
<1> QED
  BY <1>1, <1>2, <1>3 DEF DayOf

LEMMA DayOfGrows ==
    ASSUME NEW s \in Nat, NEW t \in Nat, s <= t
    PROVE  DayOf(s) <= DayOf(t)
<1> DEFINE c == DayOf(s)
           d == DayOf(t)
<1>1. c \in Nat /\ d \in Nat /\ Day \in Nat \ {0}
  BY DayOfType, ConstantAssumption
<1>2. c * Day <= s /\ t < d * Day + Day
  BY DayOfBounds
<1> HIDE DEF c, d
<1>3. ASSUME d < c PROVE FALSE
  <2>1. PICK k \in Nat : c = (d + 1) + k
    BY <1>1, <1>3
  <2>2. c * Day = (d + 1) * Day + k * Day /\ (d + 1) * Day = d * Day + Day /\ k * Day \in Nat
    BY <1>1, <2>1
  <2>3. d * Day \in Nat /\ c * Day \in Nat
    BY <1>1
  <2> QED
    BY <1>1, <1>2, <2>2, <2>3
<1>4. c <= d
  BY <1>1, <1>3
<1> QED
  BY <1>4 DEF c, d

LEMMA NextOpens ==
    ASSUME NEW d \in Nat
    PROVE  /\ WindowOpens(d) \in Nat /\ WindowOpens(d + 1) = WindowOpens(d) + Day
           /\ d * Day <= WindowOpens(d) /\ d * Day \in Nat
<1>1. Day \in Nat \ {0} /\ SendAt \in Nat
  BY ConstantAssumption
<1>2. d * Day \in Nat /\ (d + 1) * Day = d * Day + Day
  BY <1>1
<1> QED
  BY <1>1, <1>2 DEF WindowOpens

(* Where in a window a ticker fires.                                       *)
LEMMA BeatBack ==
    ASSUME NEW c \in Nat, NEW o \in Nat, o <= c
    PROVE  \E t, n \in Nat : o <= t /\ t < o + Hour /\ c = t + n * Hour
<1>1. Hour \in Nat \ {0}
  BY ConstantAssumption
<1>2. PICK x \in Nat : c = o + x
  BY <1>1
<1>3. x \div Hour \in Nat /\ x = Hour * (x \div Hour) + (x % Hour) /\ x % Hour \in 0 .. Hour - 1
  BY <1>1, SMT
<1> DEFINE n == x \div Hour
           t == o + (x % Hour)
<1>4. n \in Nat /\ t \in Nat /\ o <= t /\ t < o + Hour
  BY <1>1, <1>3
<1>5. Hour * n = n * Hour /\ n * Hour \in Nat
  BY <1>1, <1>3
<1>6. c = t + n * Hour
  BY <1>2, <1>3, <1>5
<1> QED
  BY <1>4, <1>6

LEMMA SteadyContext ==
  ASSUME CoverIInv, [Next]_vars, Steady'
  PROVE  /\ TypeOK /\ HolderWorks /\ OnTime /\ SentIInv /\ CoverInv /\ Undisturbed'
         /\ WindowInDay /\ toggles' = 0 /\ lapses = 0
         /\ \A q \in Replicas : Active(q) => holder = q
         /\ \A q \in Replicas : RunSound(q)
         /\ (\E r \in Replicas : Proceeds(r)) \/ Passes
         /\ \A r \in Replicas : Tick(r) =>
              /\ holder = "none" /\ next[r] = 0 /\ next' = [next EXCEPT ![r] = Hour]
              /\ run[r].stage = "idle"
              /\ run'[r].stage = "checking" /\ run'[r].report = "digest" /\ run'[r].now = clock
<1>1. /\ SentIInv /\ TypeOK /\ HolderWorks /\ OnTime /\ LeaseKept
      /\ Undisturbed' /\ skips' = 0
  BY DEF CoverIInv, SentIInv, Steady
<1>2. /\ Undisturbed
      /\ (\E r \in Replicas : Proceeds(r)) \/ Passes
  BY <1>1, UndisturbedNext
<1>3. skips \in Nat
  BY <1>1 DEF TypeOK
<1>4. skips = 0
  <2>1. ASSUME NEW r \in Replicas, Proceeds(r) PROVE skips' = skips \/ skips' = skips + 1
    BY <2>1 DEF Proceeds, Tick, Skip, Gather, Enqueue, Book, Boot
  <2>2. CASE Passes
    BY <1>1, <2>2 DEF Passes, Record, Elapse, vars, replicaVars
  <2> QED
    BY <1>1, <1>2, <1>3, <2>1, <2>2
<1>5. CoverInv
  BY <1>2, <1>4 DEF CoverIInv, Steady
<1>6. WindowInDay /\ toggles' = 0 /\ faults = 0
  BY <1>1, <1>2 DEF Undisturbed
<1>7. lapses = 0
  BY <1>1, <1>6 DEF LeaseKept
<1>8. \A q \in Replicas : Active(q) => holder = q
  BY <1>1, <1>7 DEF HolderWorks
<1>9. \A q \in Replicas : RunSound(q)
  BY <1>1, <1>2 DEF SentIInv, SentInv
<1>10. ASSUME NEW r \in Replicas, Tick(r)
       PROVE  /\ holder = "none" /\ next[r] = 0 /\ next' = [next EXCEPT ![r] = Hour]
              /\ run[r].stage = "idle"
              /\ run'[r].stage = "checking" /\ run'[r].report = "digest" /\ run'[r].now = clock
  BY <1>1, <1>3, <1>4, <1>10, TickMoves
<1> QED
  BY <1>1, <1>2, <1>5, <1>6, <1>7, <1>8, <1>9, <1>10

(* What a digest has covered stays covered, and what has been swept stays  *)
(* so: an event that is recorded as it occurs is not in the past.          *)
LEMMA StaysCovered ==
  ASSUME TypeOK, [Next]_vars, toggles' = 0
  PROVE  /\ \A e, ch : Covered(e, ch) => Covered(e, ch)'
         /\ \A e : CoveredAll(e) => CoveredAll(e)'
         /\ \A t \in Nat : t <= clock /\ Swept(t) => Swept(t)'
<1>1. /\ rows \subseteq rows' /\ events \subseteq events' /\ subscribed' = subscribed
      /\ \A e \in events' \ events : e.seen = clock
  BY StaysServed
<1>2. \A e, ch : Covered(e, ch) => Covered(e, ch)'
  BY <1>1 DEF Covered
<1>3. \A e : CoveredAll(e) => CoveredAll(e)'
  BY <1>1, <1>2 DEF CoveredAll, Fits
<1>4. ASSUME NEW t \in Nat, t <= clock, Swept(t) PROVE Swept(t)'
  <2> SUFFICES ASSUME NEW e \in events', InSweep(e, t) PROVE CoveredAll(e)'
    BY DEF Swept, InSweep
  <2>1. CASE e \in events
    BY <1>3, <1>4, <2>1 DEF Swept
  <2>2. CASE e \notin events
    <3>1. e.seen = clock /\ clock \in Nat
      BY <1>1, <2>2 DEF TypeOK
    <3>2. e.at # e.seen
      BY <1>4, <3>1 DEF InSweep
    <3> QED
      BY <3>2 DEF CoveredAll, Fits
  <2> QED
    BY <2>1, <2>2
<1> QED
  BY <1>2, <1>3, <1>4

(* Replicas stay up, and their tickers keep their phase.                   *)
LEMMA TicksOn ==
  ASSUME CoverIInv, [Next]_vars, Steady', NEW s \in Replicas, Up(s)
  PROVE  /\ run'[s].stage # "down"
         /\ \/ clock' + next'[s] = clock + next[s]
            \/ Tick(s) /\ next[s] = 0 /\ clock' = clock /\ next'[s] = Hour
         /\ \A t \in Nat : Beat(s, t) => Beat(s, t)'
<1>1. /\ TypeOK
      /\ (\E r \in Replicas : Proceeds(r)) \/ Passes
      /\ \A r \in Replicas : Tick(r) =>
              /\ holder = "none" /\ next[r] = 0 /\ next' = [next EXCEPT ![r] = Hour]
              /\ run[r].stage = "idle"
              /\ run'[r].stage = "checking" /\ run'[r].report = "digest" /\ run'[r].now = clock
  BY SteadyContext
<1>2. next \in [Replicas -> 0 .. Hour] /\ run \in [Replicas -> Runs] /\ clock \in Nat /\ Hour \in Nat \ {0}
  BY <1>1, ConstantAssumption DEF TypeOK
<1>3. /\ run'[s].stage # "down"
      /\ \/ clock' + next'[s] = clock + next[s]
         \/ Tick(s) /\ next[s] = 0 /\ clock' = clock /\ next'[s] = Hour
  <2>1. CASE Proceeds(s)
    <3>1. CASE Tick(s)
      BY <1>1, <1>2, <3>1 DEF Tick
    <3>2. CASE Skip(s) \/ Book(s)
      BY <1>1, <3>2, NextReportMoves DEF Skip, Book
    <3>3. CASE Gather(s) \/ Enqueue(s)
      <4>1. clock' = clock
        BY <3>3 DEF Gather, Enqueue
      <4> QED
        BY <1>1, <3>3, <4>1, GatherMoves, EnqueueMoves
    <3>4. ~Boot(s)
      BY DEF Boot, Up
    <3> QED
      BY <2>1, <3>1, <3>2, <3>3, <3>4 DEF Proceeds
  <2>2. ASSUME NEW r \in Replicas, Proceeds(r), r # s
        PROVE  run'[s].stage # "down" /\ clock' + next'[s] = clock + next[s]
    <3>1. ReplicaStep(r)
      BY <2>2 DEF Proceeds, ReplicaStep
    <3>2. run'[s] = run[s]
      BY <1>1, <2>2, <3>1, OthersRun
    <3>3. clock' = clock /\ next'[s] = next[s]
      BY <1>2, <2>2 DEF Proceeds, Tick, Skip, Gather, Enqueue, Book, Boot
    <3> QED
      BY <3>2, <3>3 DEF Up
  <2>3. CASE Elapse
    <3>1. run' = run /\ clock' = clock + 1 /\ next'[s] = next[s] - 1
      BY <2>3 DEF Elapse, Up
    <3> QED
      BY <1>2, <3>1 DEF Up
  <2>4. CASE UNCHANGED vars \/ \E lag \in 0 .. MaxLag, bot \in BOOLEAN : Record(lag, bot)
    BY <2>4 DEF Record, vars, replicaVars, Up
  <2> QED
    BY <1>1, <2>1, <2>2, <2>3, <2>4 DEF Passes
<1>4. ASSUME NEW t \in Nat, Beat(s, t) PROVE Beat(s, t)'
  <2>1. PICK n \in Nat : clock + next[s] = t + n * Hour
    BY <1>4 DEF Beat
  <2>2. CASE clock' + next'[s] = clock + next[s]
    BY <2>1, <2>2 DEF Beat
  <2>3. CASE next[s] = 0 /\ clock' = clock /\ next'[s] = Hour
    <3>1. n * Hour \in Nat /\ (n + 1) * Hour = n * Hour + Hour
      BY TimesHour
    <3>2. clock' + next'[s] = t + (n + 1) * Hour
      BY <1>2, <2>1, <2>3, <3>1
    <3> QED
      BY <3>2 DEF Beat
  <2> QED
    BY <1>3, <2>2, <2>3
<1> QED
  BY <1>3, <1>4

-----------------------------------------------------------------------------
LEMMA PastStep ==
  ASSUME CoverIInv, [Next]_vars, Steady'
  PROVE  EventsPast'
<1>1. TypeOK /\ EventsPast /\ toggles' = 0
  BY SteadyContext DEF CoverInv
<1>2. clock \in Nat /\ (clock' = clock \/ clock' = clock + 1)
  <2>1. ASSUME NEW r \in Replicas, ReplicaStep(r) PROVE clock' = clock
    BY <2>1 DEF ReplicaStep, Tick, AcquireFails, Skip, Gather, Enqueue, Book, ReportFails, Lapse,
       Interrupt, Crash, Expire, Boot
  <2> QED
    BY <1>1, <2>1 DEF TypeOK, Next, Toggle, Record, Elapse, vars
<1>3. ASSUME NEW e \in events' PROVE e.seen <= clock'
  <2>1. e.seen \in Nat /\ e.seen <= clock
    <3>1. CASE e \in events
      BY <1>1, <3>1 DEF TypeOK, Events, EventsPast
    <3>2. CASE e \notin events
      <4>1. e.seen = clock
        BY <1>1, <3>2, StaysServed
      <4> QED
        BY <1>2, <4>1
    <3> QED
      BY <3>1, <3>2
  <2> QED
    BY <1>2, <2>1
<1> QED
  BY <1>3 DEF EventsPast

LEMMA LedgerPastStep ==
  ASSUME CoverIInv, [Next]_vars, Steady'
  PROVE  LedgerPast' /\ ledger["digest"] <= ledger'["digest"]
<1>1. /\ TypeOK /\ OnTime /\ LedgerPast
      /\ \A q \in Replicas : Active(q) => holder = q
      /\ (\E r \in Replicas : Proceeds(r)) \/ Passes
      /\ \A r \in Replicas : Tick(r) => holder = "none" /\ run'[r].now = clock
  BY SteadyContext DEF CoverInv
<1>2. /\ clock \in Nat /\ ledger \in [Reports -> Nat \cup {-1}] /\ DayOf(clock) \in Nat
      /\ ledger["digest"] \in Int /\ run \in [Replicas -> Runs]
      /\ \A q \in Replicas : run[q].now \in Nat /\ DayOf(run[q].now) \in Nat
  BY <1>1, DayOfType DEF TypeOK, Reports, Runs
<1> DEFINE L == ledger'["digest"]
           Past == /\ L <= DayOf(clock')
                   /\ \A q \in Replicas : run'[q].stage \in {"checking", "queueing"} => L <= DayOf(run'[q].now)
<1> SUFFICES Past /\ ledger["digest"] <= L
  BY DEF LedgerPast, Active, DayOf
<1>3. ASSUME NEW r \in Replicas, Proceeds(r) PROVE Past /\ ledger["digest"] <= L
  <2>1. ReplicaStep(r) /\ clock' = clock
    BY <1>3 DEF Proceeds, ReplicaStep, Tick, Skip, Gather, Enqueue, Book, Boot
  <2>2. \A q \in Replicas : q # r => run'[q] = run[q]
    BY <1>1, <2>1, OthersRun
  <2>3. CASE Book(r)
    <3>1. /\ Active(r) /\ NextReport(r)
          /\ ledger' = [ledger EXCEPT ![run[r].report] = Key(run[r].report, run[r].now)]
      BY <2>3 DEF Book, Active
    <3>2. run[r].now <= clock /\ DayOf(run[r].now) <= DayOf(clock)
      BY <1>1, <1>2, <3>1, RunsNotAhead, DayOfGrows
    <3>3. ledger["digest"] <= DayOf(run[r].now) /\ ledger["digest"] <= DayOf(clock)
      BY <1>1, <3>1 DEF LedgerPast
    <3>4. L = ledger["digest"] \/ L = DayOf(run[r].now)
      BY <1>2, <3>1 DEF Key, Reports
    <3>5. ledger["digest"] <= L /\ L <= DayOf(run[r].now) /\ L <= DayOf(clock)
      BY <1>2, <3>2, <3>3, <3>4
    <3>6. ASSUME NEW q \in Replicas, run'[q].stage \in {"checking", "queueing"}
          PROVE  L <= DayOf(run'[q].now)
      <4>1. CASE q = r
        BY <1>1, <3>1, <3>5, <3>6, <4>1, NextReportMoves
      <4>2. q = r
        BY <1>1, <2>2, <3>1, <3>6 DEF Active
      <4> QED
        BY <4>1, <4>2
    <3> QED
      BY <2>1, <3>5, <3>6
  <2>4. CASE ~Book(r)
    <3>1. ledger' = ledger
      BY <1>3, <2>4 DEF Proceeds, Tick, Skip, Gather, Enqueue, Boot, sentVars
    <3>2. ASSUME NEW q \in Replicas, run'[q].stage \in {"checking", "queueing"}
          PROVE  ledger["digest"] <= DayOf(run'[q].now)
      <4>1. CASE q # r
        BY <1>1, <2>2, <3>2, <4>1 DEF LedgerPast, Active
      <4>2. CASE q = r /\ Tick(r)
        BY <1>1, <4>2 DEF LedgerPast
      <4>3. CASE q = r /\ (Gather(r) \/ Enqueue(r))
        <5>1. Active(r) /\ run'[r].now = run[r].now
          BY <1>1, <4>3, GatherMoves, EnqueueMoves DEF Active
        <5> QED
          BY <1>1, <4>3, <5>1 DEF LedgerPast
      <4>4. CASE q = r /\ Skip(r)
        <5>1. Active(r) /\ run'[r].now = run[r].now
          BY <1>1, <3>2, <4>4, NextReportMoves DEF Skip, Checks, Active
        <5> QED
          BY <1>1, <4>4, <5>1 DEF LedgerPast
      <4>5. CASE q = r /\ Boot(r)
        <5>1. run'[r] = Resting("idle")
          BY <1>2, <4>5 DEF Boot
        <5> QED
          BY <3>2, <4>5, <5>1, RestingType
      <4> QED
        BY <1>3, <2>4, <4>1, <4>2, <4>3, <4>4, <4>5 DEF Proceeds
    <3> QED
      BY <1>1, <1>2, <2>1, <3>1, <3>2 DEF LedgerPast
  <2> QED
    BY <2>3, <2>4
<1>4. CASE Passes
  <2>1. /\ UNCHANGED <<ledger, run>>
        /\ clock' = clock \/ clock' = clock + 1
    BY <1>4 DEF Passes, Record, Elapse, vars, replicaVars, sentVars
  <2>2. DayOf(clock) <= DayOf(clock') /\ DayOf(clock') \in Nat
    BY <1>2, <2>1, DayOfGrows, DayOfType
  <2> QED
    BY <1>1, <1>2, <2>1, <2>2 DEF LedgerPast, Active
<1> QED
  BY <1>1, <1>3, <1>4

LEMMA InsertDigest ==
  ASSUME NEW r \in Replicas, NEW ch, Insert(r, ch), run[r].report = "digest"
  PROVE  \/ rows' = rows /\ HasRow("digest", ch, DayOf(run[r].now))
         \/ \E new : /\ rows' = rows \cup {new} /\ new.report = "digest" /\ new.channel = ch
                     /\ new.key = DayOf(run[r].now) /\ new.evs = TextFor(ch, run[r].evs)
<1> DEFINE added == [report |-> run[r].report, channel |-> ch, key |-> Key(run[r].report, run[r].now),
                     made |-> run[r].now, evs |-> TextFor(ch, run[r].evs)]
<1>1. /\ added.report = "digest" /\ added.channel = ch
      /\ added.key = DayOf(run[r].now) /\ added.evs = TextFor(ch, run[r].evs)
  BY DEF Key
<1>2. \/ /\ \E row \in rows : row.report = run[r].report /\ row.channel = ch
                              /\ row.key = Key(run[r].report, run[r].now)
         /\ rows' = rows
      \/ rows' = rows \cup {added}
  BY DEF Insert
<1> HIDE DEF added
<1>3. CASE rows' = rows \cup {added}
  BY <1>1, <1>3
<1>4. CASE rows' # rows \cup {added}
  BY <1>2, <1>4 DEF HasRow, Key
<1> QED
  BY <1>3, <1>4

(* A row of a digest is of one that was booked, or is being made.          *)
LEMMA RowsStep ==
  ASSUME CoverIInv, [Next]_vars, Steady', NEW row \in rows', row.report = "digest"
  PROVE  RowBooked(row)'
<1>1. /\ TypeOK /\ OnTime /\ CoverInv
      /\ \A q \in Replicas : Active(q) => holder = q
      /\ (\E r \in Replicas : Proceeds(r)) \/ Passes
  BY SteadyContext
<1>2. /\ ledger \in [Reports -> Nat \cup {-1}] /\ run \in [Replicas -> Runs] /\ rows \subseteq Rows
      /\ ledger["digest"] \in Int /\ ledger["digest"] <= ledger'["digest"] /\ ledger'["digest"] \in Int
  <2>1. TypeOK'
    BY <1>1, TypeStep
  <2> QED
    BY <1>1, <2>1, LedgerPastStep DEF TypeOK, Reports
<1>3. ASSUME row \in rows, row.key <= ledger["digest"] PROVE RowBooked(row)'
  <2>1. row.key \in Nat
    BY <1>2, <1>3 DEF Rows
  <2> QED
    BY <1>2, <1>3, <2>1 DEF RowBooked
<1>4. ASSUME NEW s \in Replicas, run'[s].stage = "queueing", run'[s].report = "digest",
             row.key = DayOf(run'[s].now), row.channel \notin run'[s].todo
      PROVE  RowBooked(row)'
  BY <1>4 DEF RowBooked, DayOf
<1>5. ASSUME NEW s \in Replicas, run[s].stage = "queueing", run[s].report = "digest",
             row.key = DayOf(run[s].now), row.channel \notin run[s].todo
      PROVE  RowBooked(row)'
  <2>1. CASE run'[s] = run[s]
    BY <1>4, <1>5, <2>1
  <2>2. CASE Proceeds(s)
    <3>1. CASE Book(s)
      <4>1. ledger'["digest"] = DayOf(run[s].now)
        BY <1>2, <1>5, <3>1 DEF Book, Key, Reports
      <4> QED
        BY <1>2, <1>5, <4>1 DEF RowBooked
    <3>2. CASE Enqueue(s)
      BY <1>1, <1>4, <1>5, <3>2, EnqueueMoves
    <3>3. ~(Tick(s) \/ Skip(s) \/ Gather(s) \/ Boot(s))
      BY <1>5 DEF Tick, Skip, Gather, Boot, Checks
    <3> QED
      BY <2>2, <3>1, <3>2, <3>3 DEF Proceeds
  <2>3. ASSUME NEW r \in Replicas, Proceeds(r), r # s PROVE RowBooked(row)'
    <3>1. ReplicaStep(r)
      BY <2>3 DEF Proceeds, ReplicaStep
    <3> QED
      BY <1>1, <2>1, <2>3, <3>1, OthersRun
  <2>4. CASE Passes
    BY <2>1, <2>4 DEF Passes, Record, Elapse, vars, replicaVars
  <2> QED
    BY <1>1, <2>2, <2>3, <2>4
<1>6. CASE row \in rows
  BY <1>1, <1>3, <1>5, <1>6 DEF CoverInv, RowBooked
<1>7. CASE row \notin rows
  <2>1. PICK r \in Replicas : Enqueue(r)
    <3>1. rows' = rows \/ \E r \in Replicas : Enqueue(r)
      BY <1>1 DEF Proceeds, Passes, Tick, Skip, Gather, Book, Boot, Record, Elapse, vars, sentVars
    <3> QED
      BY <1>7, <3>1
  <2>2. PICK ch \in run[r].todo : Insert(r, ch) /\ run' = [run EXCEPT ![r].todo = @ \ {ch}]
    BY <2>1 DEF Enqueue
  <2>3. /\ ch \in Channels /\ run[r].stage = "queueing" /\ run[r] \in Runs
    BY <1>2, <2>1 DEF Enqueue, Runs
  <2>4. /\ run'[r].stage = run[r].stage /\ run'[r].report = run[r].report /\ run'[r].now = run[r].now
        /\ run'[r].todo = run[r].todo \ {ch}
    BY <1>2, <2>2, <2>3 DEF Runs
  <2>5. run[r].report = "digest"
    BY <1>1, <1>7, <2>2, <2>3, InsertRows
  <2>6. row.channel = ch /\ row.key = DayOf(run[r].now)
    BY <1>7, <2>2, <2>5, InsertDigest
  <2> QED
    BY <1>4, <2>3, <2>4, <2>5, <2>6
<1> QED
  BY <1>6, <1>7

(* A run writes what it has found to the channels it has served.           *)
LEMMA SweepsStep ==
  ASSUME CoverIInv, [Next]_vars, Steady', NEW q \in Replicas
  PROVE  Sweeps(q)'
<1>1. /\ TypeOK /\ HolderWorks /\ OnTime /\ CoverInv /\ toggles' = 0 /\ lapses = 0
      /\ \A r \in Replicas : Active(r) => holder = r
      /\ \A r \in Replicas : RunSound(r)
      /\ (\E r \in Replicas : Proceeds(r)) \/ Passes
  BY SteadyContext
<1>2. /\ run \in [Replicas -> Runs] /\ run[q] \in Runs /\ run[q].now \in Nat
      /\ ledger["digest"] \in Int /\ rows \subseteq Rows
  BY <1>1 DEF TypeOK, Runs, Reports
<1>3. subscribed' = subscribed /\ \A e, ch : Covered(e, ch) => Covered(e, ch)'
  BY <1>1, StaysServed, StaysCovered
<1>4. ASSUME Active(q), NEW e \in events', NEW ch, Fits(e, ch), InSweep(e, run[q].now)
      PROVE  e \in events
  <2>1. run[q].now <= clock /\ clock \in Nat
    BY <1>1, <1>4, RunsNotAhead
  <2>2. CASE e \notin events
    <3>1. e.at = clock
      BY <1>1, <1>4, <2>2, StaysServed DEF Fits
    <3> QED
      BY <1>2, <1>4, <2>1, <3>1 DEF InSweep
  <2> QED
    BY <2>2
<1>5. ASSUME run'[q].stage # "queueing" PROVE Sweeps(q)'
  BY <1>5 DEF Sweeps
<1>6. CASE run'[q] = run[q]
  <2> SUFFICES ASSUME run[q].stage = "queueing", run[q].report = "digest",
                      NEW e \in events', NEW ch \in subscribed', Fits(e, ch), InSweep(e, run[q].now)
               PROVE  e \in run[q].evs /\ (ch \in run[q].todo \/ Covered(e, ch)')
    BY <1>6 DEF Sweeps, Fits, InSweep, Covered
  <2>1. e \in events
    BY <1>4 DEF Active
  <2> QED
    BY <1>1, <1>3, <2>1 DEF CoverInv, Sweeps
<1>7. CASE Gather(q) /\ Wanted(q)
  <2>1. /\ Active(q) /\ run'[q].stage = "queueing" /\ run'[q].report = run[q].report
        /\ run'[q].now = run[q].now /\ run'[q].evs = Found(q)
        /\ run'[q].todo = {ch \in subscribed : Wants(ch, Found(q))}
    BY <1>1, <1>7, GatherMoves DEF Active
  <2> SUFFICES ASSUME run[q].report = "digest",
                      NEW e \in events', NEW ch \in subscribed', Fits(e, ch), InSweep(e, run[q].now)
               PROVE  e \in run'[q].evs /\ ch \in run'[q].todo
    BY <2>1 DEF Sweeps, Fits, InSweep
  <2>2. e \in events
    BY <1>4, <2>1
  <2>3. e \in Found(q)
    BY <2>2 DEF Found, Selected, Since, InSweep
  <2>4. Wants(ch, Found(q))
    BY <2>3 DEF Wants, Human, Fits
  <2> QED
    BY <1>3, <2>1, <2>3, <2>4
<1>8. CASE Enqueue(q)
  <2>1. /\ Active(q) /\ run[q].stage = "queueing" /\ run'[q].stage = "queueing"
        /\ run'[q].report = run[q].report /\ run'[q].now = run[q].now /\ run'[q].evs = run[q].evs
        /\ \A ch \in run[q].todo \ run'[q].todo : ch \in Channels /\ Insert(q, ch)
    BY <1>1, <1>8, EnqueueMoves DEF Active
  <2> SUFFICES ASSUME run[q].report = "digest",
                      NEW e \in events', NEW ch \in subscribed', Fits(e, ch), InSweep(e, run[q].now)
               PROVE  e \in run[q].evs /\ (ch \in run'[q].todo \/ Covered(e, ch)')
    BY <2>1 DEF Sweeps, Fits, InSweep, Covered
  <2>2. e \in events
    BY <1>4, <2>1
  <2>3. e \in run[q].evs /\ (ch \in run[q].todo \/ Covered(e, ch))
    BY <1>1, <1>3, <2>1, <2>2 DEF CoverInv, Sweeps
  <2>4. ASSUME ch \in run[q].todo, ch \notin run'[q].todo PROVE Covered(e, ch)'
    <3>1. Insert(q, ch)
      BY <2>1, <2>4
    <3>2. ~HasRow("digest", ch, DayOf(run[q].now))
      <4> SUFFICES ASSUME NEW row \in rows, row.report = "digest", row.channel = ch,
                          row.key = DayOf(run[q].now)
                   PROVE  FALSE
        BY DEF HasRow
      <4>1. DayOf(run[q].now) \in Nat
        BY <1>2, DayOfType
      <4>2. ledger["digest"] <= DayOf(run[q].now) /\ ledger["digest"] # DayOf(run[q].now)
        BY <1>1, <2>1 DEF CoverInv, LedgerPast, HolderWorks, NotSent, Key
      <4>3. ~(row.key <= ledger["digest"])
        BY <1>2, <4>1, <4>2
      <4>4. PICK s \in Replicas : run[s].stage = "queueing" /\ row.channel \notin run[s].todo
        BY <1>1, <4>3 DEF CoverInv, RowBooked
      <4>5. s = q
        BY <1>1, <2>1, <4>4 DEF Active
      <4> QED
        BY <2>4, <4>4, <4>5
    <3>3. PICK new : /\ rows' = rows \cup {new} /\ new.report = "digest" /\ new.channel = ch
                     /\ new.evs = TextFor(ch, run[q].evs)
      BY <3>1, <3>2, InsertDigest
    <3>4. e \in TextFor(ch, run[q].evs)
      BY <2>3 DEF TextFor, Human, Fits
    <3> QED
      BY <3>3, <3>4 DEF Covered
  <2> QED
    BY <1>3, <2>3, <2>4
<1>9. CASE Tick(q) \/ Skip(q) \/ Book(q) \/ Boot(q)
  <2>1. CASE Tick(q)
    BY <1>5, <2>1, SteadyContext
  <2>2. CASE Skip(q) \/ Book(q)
    BY <1>1, <1>5, <2>2, NextReportMoves DEF Skip, Book
  <2>3. CASE Boot(q)
    <3>1. run'[q] = Resting("idle")
      BY <1>2, <2>3 DEF Boot
    <3> QED
      BY <1>5, <3>1, RestingType
  <2> QED
    BY <1>9, <2>1, <2>2, <2>3
<1>10. ASSUME NEW r \in Replicas, Proceeds(r), r # q PROVE Sweeps(q)'
  <2>1. ReplicaStep(r)
    BY <1>10 DEF Proceeds, ReplicaStep
  <2> QED
    BY <1>1, <1>6, <1>10, <2>1, OthersRun
<1>11. CASE Passes
  BY <1>6, <1>11 DEF Passes, Record, Elapse, vars, replicaVars
<1> QED
  BY <1>1, <1>7, <1>8, <1>9, <1>10, <1>11 DEF Proceeds

(* What was booked has been swept, by a replica that is up.                *)
LEMMA BookedSweepsStep ==
  ASSUME CoverIInv, [Next]_vars, Steady'
  PROVE  BookedSweeps'
<1>1. /\ TypeOK /\ OnTime /\ CoverInv /\ toggles' = 0
      /\ \A r \in Replicas : RunSound(r)
      /\ (\E r \in Replicas : Proceeds(r)) \/ Passes
  BY SteadyContext
<1>2. /\ clock \in Nat /\ clock' \in Nat /\ clock <= clock'
      /\ ledger \in [Reports -> Nat \cup {-1}] /\ run \in [Replicas -> Runs]
      /\ next \in [Replicas -> 0 .. Hour]
  <2>1. clock \in Nat
    BY <1>1 DEF TypeOK
  <2>2. clock' = clock \/ clock' = clock + 1
    BY <1>1 DEF Proceeds, Passes, Tick, Skip, Gather, Enqueue, Book, Boot, Record, Elapse, vars
  <2> QED
    BY <1>1, <2>1, <2>2 DEF TypeOK
<1>3. CASE ledger'["digest"] = ledger["digest"]
  <2> SUFFICES ASSUME ledger["digest"] # -1 PROVE BookedSweeps'
    BY <1>3 DEF BookedSweeps
  <2>1. PICK t \in Nat, s \in Replicas :
          Up(s) /\ Within(t, ledger["digest"]) /\ t <= clock /\ Swept(t) /\ Beat(s, t)
    BY <1>1 DEF CoverInv, BookedSweeps
  <2>2. run'[s].stage # "down" /\ Beat(s, t)'
    BY <2>1, TicksOn
  <2>3. Swept(t)' /\ t <= clock'
    BY <1>1, <1>2, <2>1, StaysCovered
  <2>4. Within(t, ledger["digest"])'
    BY <1>3, <2>1 DEF Within, WindowOpens
  <2> QED
    BY <2>2, <2>3, <2>4 DEF BookedSweeps, Up
<1>4. ASSUME NEW r \in Replicas, Book(r), run[r].report = "digest" PROVE BookedSweeps'
  <2> DEFINE t == run[r].now
  <2>1. /\ Active(r) /\ run[r].stage = "queueing" /\ run[r].todo = {} /\ Up(r)
        /\ ledger' = [ledger EXCEPT ![run[r].report] = Key(run[r].report, t)]
    BY <1>4 DEF Book, Active, Up
  <2>2. t \in Nat /\ t <= clock /\ clock + next[r] = t + Hour
    BY <1>1, <2>1, RunsNotAhead DEF OnTime
  <2>3. PICK d \in Nat : d = DayOf(t)
    BY <2>2, DayOfType
  <2>4. Within(t, d)
    BY <1>1, <1>4, <2>1, <2>3 DEF RunSound, Due, InWindow, Within
  <2>5. ledger'["digest"] = d
    BY <1>2, <1>4, <2>1, <2>3 DEF Key, Reports
  <2>6. Swept(t)
    BY <1>1, <1>4, <2>1 DEF CoverInv, Sweeps, Swept, CoveredAll
  <2>7. Beat(r, t)
    <3>1. (0 + 1) * Hour = 0 * Hour + Hour /\ 0 * Hour = 0 /\ Hour \in Nat
      BY ConstantAssumption
    <3>2. clock + next[r] = t + 1 * Hour
      BY <2>2, <3>1
    <3> QED
      BY <3>2 DEF Beat
  <2> HIDE DEF t
  <2>8. PICK b \in Nat : b = t
    BY <2>2 DEF t
  <2>9. run'[r].stage # "down" /\ Beat(r, b)' /\ Swept(b)' /\ b <= clock'
    BY <1>1, <1>2, <2>1, <2>2, <2>6, <2>7, <2>8, TicksOn, StaysCovered
  <2>10. Within(b, ledger["digest"])'
    BY <2>4, <2>5, <2>8 DEF Within, WindowOpens
  <2> QED
    BY <2>9, <2>10 DEF BookedSweeps, Up
<1>5. \/ ledger'["digest"] = ledger["digest"]
      \/ \E r \in Replicas : Book(r) /\ run[r].report = "digest"
  <2>1. ASSUME NEW r \in Replicas, Book(r), run[r].report # "digest"
        PROVE  ledger'["digest"] = ledger["digest"]
    BY <1>2, <2>1 DEF Book, Reports
  <2>2. \/ ledger' = ledger
        \/ \E r \in Replicas : Book(r)
    BY <1>1 DEF Proceeds, Passes, Tick, Skip, Gather, Enqueue, Boot, Record, Elapse, vars, sentVars
  <2> QED
    BY <2>1, <2>2
<1> QED
  BY <1>3, <1>4, <1>5

LEMMA EventDay ==
    ASSUME WindowInDay, NEW a \in Nat, NEW d, d = DayOf(a)
    PROVE  /\ d \in Nat /\ WindowOpens(d) \in Nat /\ d * Day \in Nat
           /\ d * Day <= a /\ a < d * Day + Day
           /\ d * Day <= WindowOpens(d) /\ WindowOpens(d) + Hour <= d * Day + Day
           /\ WindowOpens(d + 1) = WindowOpens(d) + Day
           /\ Hour <= Day /\ Day \in Nat /\ Hour \in Nat \ {0}
<1>1. Day \in Nat /\ Hour \in Nat \ {0} /\ SendAt \in Nat /\ SendAt + Hour <= Day
  BY ConstantAssumption DEF WindowInDay
<1>2. d \in Nat
  BY DayOfType
<1>3. /\ d * Day <= a /\ a < d * Day + Day /\ d * Day \in Nat /\ WindowOpens(d) \in Nat
      /\ d * Day <= WindowOpens(d) /\ WindowOpens(d + 1) = WindowOpens(d) + Day
  BY <1>2, DayOfBounds, NextOpens
<1>4. WindowOpens(d) + Hour <= d * Day + Day
  BY <1>1, <1>3 DEF WindowOpens
<1> QED
  BY <1>1, <1>2, <1>3, <1>4

(* A run that starts when an event is in its sweep and its window is open  *)
(* covers it, or a digest before has, or comes back a day later.           *)
LEMMA TickCatches ==
  ASSUME CoverIInv, [Next]_vars, Steady', NEW r \in Replicas, Tick(r), NEW e \in events,
         e.at \in Nat, InSweep(e, clock),
         Within(clock, DayOf(e.at)) \/ Within(clock, DayOf(e.at) + 1)
  PROVE  Carried(e)' \/ Awaited(e)' \/ CoveredAll(e)'
<1>1. /\ TypeOK /\ CoverInv /\ toggles' = 0 /\ WindowInDay
      /\ run'[r].stage = "checking" /\ run'[r].report = "digest" /\ run'[r].now = clock
      /\ clock' = clock /\ ledger' = ledger
  BY SteadyContext DEF Tick, sentVars
<1>2. clock \in Nat
  BY <1>1 DEF TypeOK
<1>3. PICK d \in Nat : d = DayOf(e.at)
  BY DayOfType
<1>4. /\ WindowOpens(d) \in Nat /\ d * Day \in Nat
      /\ d * Day <= e.at /\ e.at < d * Day + Day
      /\ d * Day <= WindowOpens(d) /\ WindowOpens(d) + Hour <= d * Day + Day
      /\ WindowOpens(d + 1) = WindowOpens(d) + Day
      /\ Hour <= Day /\ Day \in Nat /\ Hour \in Nat \ {0}
  BY <1>1, <1>3, EventDay
<1>5. CASE NotSent("digest", clock)
  BY <1>1, <1>5 DEF Carried, Active, NotSent, Key, DayOf, InSweep, Within, WindowOpens
<1>6. CASE ~NotSent("digest", clock)
  <2>1. PICK k \in {d, d + 1} : Within(clock, k)
    BY <1>3
  <2>2. k \in Nat /\ DayOf(clock) = k
    BY <1>1, <1>2, <2>1, WithinDay
  <2>3. ledger["digest"] = k /\ k # -1
    BY <1>6, <2>2 DEF NotSent, Key
  <2>4. PICK t \in Nat, s \in Replicas : Up(s) /\ Within(t, k) /\ t <= clock /\ Swept(t) /\ Beat(s, t)
    BY <1>1, <2>3 DEF CoverInv, BookedSweeps
  <2>5. CASE e.at < t
    <3>1. InSweep(e, t)
      BY <1>2, <1>4, <2>4, <2>5 DEF InSweep
    <3>2. CoveredAll(e)
      BY <2>4, <3>1 DEF Swept
    <3> QED
      BY <1>1, <3>2, StaysCovered
  <2>6. CASE ~(e.at < t)
    <3>1. t <= e.at
      BY <2>6
    <3>2. k = d
      BY <1>4, <2>1, <2>4, <3>1 DEF Within
    <3>3. run'[s].stage # "down" /\ Beat(s, t)'
      BY <2>4, TicksOn
    <3>4. PICK n \in Nat : clock' + next'[s] = t + n * Hour
      BY <3>3 DEF Beat
    <3>5. next'[s] \in 0 .. Hour
      <4>1. TypeOK'
        BY <1>1, TypeStep
      <4> QED
        BY <4>1 DEF TypeOK
    <3>6. n * Hour \in Nat /\ 2 * Hour = Hour + Hour /\ (n * Hour < 2 * Hour => n * Hour + Hour <= 2 * Hour)
      BY <1>4, TimesHour
    <3>7. clock < t + Hour
      BY <1>2, <1>4, <2>1, <2>4, <3>2 DEF Within
    <3>8. n * Hour <= Hour
      BY <1>1, <1>2, <1>4, <3>4, <3>5, <3>6, <3>7
    <3>9. clock' + next'[s] <= t + Day
      BY <1>4, <3>4, <3>6, <3>8
    <3> QED
      BY <1>3, <2>4, <3>1, <3>2, <3>3, <3>9 DEF Awaited, Up, Within, WindowOpens, DayOf
  <2> QED
    BY <2>5, <2>6
<1> QED
  BY <1>5, <1>6

(* A tick keeps what was planned for an event whose window has opened.     *)
LEMMA TickPlanned ==
  ASSUME CoverIInv, [Next]_vars, Steady', NEW r \in Replicas, Tick(r), NEW e \in events,
         e.at \in Nat, e.at = e.seen, NEW d, d = DayOf(e.at), clock >= WindowOpens(d),
         InTime(d) \/ Carried(e) \/ Awaited(e) \/ CoveredAll(e)
  PROVE  InTime(d)' \/ Carried(e)' \/ Awaited(e)' \/ CoveredAll(e)'
<1>1. /\ TypeOK /\ CoverInv /\ toggles' = 0 /\ WindowInDay
      /\ \A q \in Replicas : Active(q) => holder = q
      /\ holder = "none" /\ next[r] = 0 /\ next' = [next EXCEPT ![r] = Hour]
      /\ run[r].stage = "idle" /\ run'[r].stage = "checking"
      /\ clock' = clock
  BY SteadyContext DEF Tick
<1>2. /\ clock \in Nat /\ next \in [Replicas -> 0 .. Hour] /\ e.at <= clock
  BY <1>1 DEF TypeOK, CoverInv, EventsPast
<1>3. /\ d \in Nat /\ WindowOpens(d) \in Nat /\ d * Day \in Nat
      /\ d * Day <= e.at /\ e.at < d * Day + Day
      /\ d * Day <= WindowOpens(d) /\ WindowOpens(d) + Hour <= d * Day + Day
      /\ WindowOpens(d + 1) = WindowOpens(d) + Day
      /\ Hour <= Day /\ Day \in Nat /\ Hour \in Nat \ {0}
  BY <1>1, EventDay
<1>4. \A s \in Replicas : Up(s) =>
        /\ run'[s].stage # "down"
        /\ s # r => clock' + next'[s] = clock + next[s]
        /\ \A t \in Nat : Beat(s, t) => Beat(s, t)'
  BY <1>1, <1>2, TicksOn
<1>5. clock' + next'[r] = clock + Hour
  BY <1>1, <1>2
<1>6. CASE CoveredAll(e)
  BY <1>1, <1>6, StaysCovered
<1>7. ~Carried(e)
  BY <1>1, ConstantAssumption DEF Carried
<1>8. CASE InTime(d)
  <2>1. PICK s \in Replicas : Up(s) /\ clock + next[s] < WindowOpens(d) + Hour
    BY <1>8 DEF InTime
  <2>2. CASE s # r
    BY <1>4, <2>1, <2>2 DEF InTime, Up, WindowOpens
  <2>3. CASE s = r /\ e.at < clock
    <3>1. Within(clock, d) /\ InSweep(e, clock)
      BY <1>1, <1>2, <1>3, <2>1, <2>3 DEF Within, InSweep
    <3> QED
      BY <3>1, TickCatches
  <2>4. CASE s = r /\ ~(e.at < clock)
    <3>1. e.at = clock /\ Within(clock, d)
      BY <1>1, <1>2, <1>3, <2>1, <2>4 DEF Within
    <3>2. Beat(r, clock)'
      <4>1. 1 * Hour = Hour
        BY <1>3
      <4>2. clock' + next'[r] = clock' + 1 * Hour
        BY <1>1, <1>5, <4>1
      <4> QED
        BY <1>1, <4>2 DEF Beat
    <3>3. clock' + next'[r] <= clock + Day
      BY <1>2, <1>3, <1>5
    <3>4. PICK t \in Nat : t = clock
      BY <1>2
    <3>5. Beat(r, t)'
      BY <1>1, <3>2, <3>4 DEF Beat
    <3> QED
      BY <1>1, <3>1, <3>3, <3>4, <3>5 DEF Awaited, Up, Within, WindowOpens, DayOf
  <2> QED
    BY <2>2, <2>3, <2>4
<1>9. CASE Awaited(e)
  <2>1. PICK s \in Replicas, t \in Nat :
          Up(s) /\ Within(t, d) /\ t <= e.at /\ Beat(s, t) /\ clock + next[s] <= t + Day
    BY <1>9 DEF Awaited
  <2>2. CASE clock' + next'[s] <= t + Day
    BY <1>4, <2>1, <2>2 DEF Awaited, Up, Within, WindowOpens, DayOf
  <2>3. CASE ~(clock' + next'[s] <= t + Day)
    <3>1. s = r
      BY <1>4, <2>1, <2>3
    <3>2. PICK n \in Nat : clock = t + n * Hour
      BY <1>1, <1>2, <2>1, <3>1 DEF Beat
    <3>3. PICK q \in Nat : Day = q * Hour
      BY DayHours
    <3>4. n * Hour \in Nat /\ q * Hour \in Nat /\ (n * Hour < q * Hour => n * Hour + Hour <= q * Hour)
      BY TimesHour
    <3>5. clock <= t + Day
      BY <1>1, <1>2, <2>1, <3>1
    <3>6. ~(clock + Hour <= t + Day)
      BY <1>5, <2>3, <3>1
    <3>7. clock = t + Day
      BY <1>2, <1>3, <3>2, <3>3, <3>4, <3>5, <3>6
    <3>8. Within(clock, d + 1) /\ InSweep(e, clock)
      BY <1>2, <1>3, <2>1, <3>7 DEF Within, InSweep
    <3> QED
      BY <3>8, TickCatches
  <2> QED
    BY <2>2, <2>3
<1> QED
  BY <1>6, <1>7, <1>8, <1>9

(* So does every other step.                                               *)
LEMMA PlanKept ==
  ASSUME CoverIInv, [Next]_vars, Steady', ~\E r \in Replicas : Tick(r), NEW e \in events,
         e.at \in Nat, NEW d, d = DayOf(e.at),
         InTime(d) \/ Carried(e) \/ Awaited(e) \/ CoveredAll(e)
  PROVE  InTime(d)' \/ Carried(e)' \/ Awaited(e)' \/ CoveredAll(e)'
<1>1. /\ TypeOK /\ OnTime /\ CoverInv /\ toggles' = 0 /\ WindowInDay
      /\ \A q \in Replicas : Active(q) => holder = q
      /\ (\E r \in Replicas : Proceeds(r)) \/ Passes
  BY SteadyContext
<1>2. \A s \in Replicas : Up(s) =>
        /\ run'[s].stage # "down" /\ clock' + next'[s] = clock + next[s]
        /\ \A t \in Nat : Beat(s, t) => Beat(s, t)'
  BY TicksOn
<1>3. InTime(d) => InTime(d)'
  BY <1>2 DEF InTime, Up, WindowOpens
<1>4. Awaited(e) => Awaited(e)'
  BY <1>2 DEF Awaited, Up, Within, WindowOpens, DayOf
<1>5. CoveredAll(e) => CoveredAll(e)'
  BY <1>1, StaysCovered
<1>6. ASSUME Carried(e) PROVE Carried(e)' \/ CoveredAll(e)'
  <2>1. PICK s \in Replicas :
          /\ Active(s) /\ run[s].report = "digest" /\ NotSent("digest", run[s].now)
          /\ InSweep(e, run[s].now)
          /\ Within(run[s].now, d) \/ Within(run[s].now, d + 1)
    BY <1>6 DEF Carried
  <2>2. run[s].now \in Nat /\ d \in Nat
    BY <1>1, <2>1, RunsNotAhead, DayOfType
  <2>3. ASSUME run'[s].stage \in {"checking", "queueing"}, run'[s].report = run[s].report,
               run'[s].now = run[s].now, ledger' = ledger
        PROVE  Carried(e)'
    BY <2>1, <2>3 DEF Carried, Active, NotSent, Key, DayOf, InSweep, Within, WindowOpens
  <2>4. CASE Passes
    <3>1. run' = run /\ ledger' = ledger
      BY <2>4 DEF Passes, Record, Elapse, vars, replicaVars, sentVars
    <3> QED
      BY <2>1, <2>3, <3>1 DEF Active
  <2>5. CASE Gather(s) \/ Enqueue(s)
    <3>1. ledger' = ledger
      BY <2>5 DEF Gather, Enqueue, sentVars
    <3> QED
      BY <1>1, <2>3, <2>5, <3>1, GatherMoves, EnqueueMoves
  <2>6. CASE Book(s)
    <3>1. CoveredAll(e)
      BY <1>1, <2>1, <2>6 DEF Book, CoverInv, Sweeps, CoveredAll
    <3> QED
      BY <1>5, <3>1
  <2>7. ~Skip(s)
    <3>1. InWindow(run[s].now)
      BY <1>1, <2>1, <2>2, WithinDay
    <3>2. Wanted(s)
      BY <2>1, <3>1 DEF Wanted, Due, SendDay
    <3>3. e \in Found(s)
      BY <2>1 DEF Found, Selected, Since, InSweep
    <3> QED
      BY <3>2, <3>3 DEF Skip
  <2>8. ASSUME NEW r \in Replicas, Proceeds(r), r # s PROVE Carried(e)'
    <3>1. ReplicaStep(r) /\ ~Active(r)
      BY <1>1, <2>1, <2>8 DEF Proceeds, ReplicaStep
    <3>2. run'[s] = run[s]
      BY <1>1, <2>8, <3>1, OthersRun
    <3>3. ledger' = ledger
      BY <2>8, <3>1 DEF Proceeds, Tick, Skip, Gather, Enqueue, Book, Boot, Checks, Active, sentVars
    <3> QED
      BY <2>1, <2>3, <3>2, <3>3 DEF Active
  <2>9. ~Boot(s) /\ ~Tick(s)
    BY <2>1 DEF Boot, Active
  <2> QED
    BY <1>1, <2>4, <2>5, <2>6, <2>7, <2>8, <2>9 DEF Proceeds
<1> QED
  BY <1>3, <1>4, <1>5, <1>6

(* An event recorded once its window has opened meets the ticker of the    *)
(* replica that was up before.                                             *)
LEMMA NewPlanned ==
  ASSUME CoverIInv, [Next]_vars, Steady', NEW e \in events', e \notin events, e.at = e.seen,
         NEW d, d = DayOf(e.at), clock >= WindowOpens(d), NEW u \in Replicas, Up(u)
  PROVE  InTime(d)' \/ Awaited(e)'
<1>1. TypeOK /\ WindowInDay /\ toggles' = 0
  BY SteadyContext
<1>2. clock \in Nat /\ next \in [Replicas -> 0 .. Hour] /\ e.at = clock
  BY <1>1, StaysServed DEF TypeOK
<1>3. UNCHANGED <<clock, run, next>>
  <2>1. \/ events' = events
        \/ \E lag \in 0 .. MaxLag, bot \in BOOLEAN : Record(lag, bot)
    <3>1. ASSUME NEW r \in Replicas, ReplicaStep(r) PROVE events' = events
      BY <3>1 DEF ReplicaStep, Tick, AcquireFails, Skip, Gather, Enqueue, Book, ReportFails,
         Lapse, Interrupt, Crash, Expire, Boot, inputVars
    <3>2. CASE (\E c \in Channels : Toggle(c)) \/ Elapse \/ UNCHANGED vars
      BY <3>2 DEF Toggle, Elapse, vars, inputVars
    <3> QED
      BY <3>1, <3>2 DEF Next
  <2> QED
    BY <2>1 DEF Record, replicaVars
<1>4. /\ d \in Nat /\ WindowOpens(d) \in Nat /\ d * Day \in Nat
      /\ d * Day <= e.at /\ e.at < d * Day + Day
      /\ d * Day <= WindowOpens(d) /\ WindowOpens(d) + Hour <= d * Day + Day
      /\ Hour <= Day /\ Day \in Nat /\ Hour \in Nat \ {0}
  BY <1>1, <1>2, EventDay
<1> DEFINE c == clock + next[u]
<1>5. c \in Nat /\ WindowOpens(d) <= c /\ c <= clock + Hour
  BY <1>2, <1>4
<1>6. PICK t, n \in Nat : WindowOpens(d) <= t /\ t < WindowOpens(d) + Hour /\ c = t + n * Hour
  BY <1>4, <1>5, BeatBack
<1>7. CASE n = 0
  <2>1. c < WindowOpens(d) + Hour
    BY <1>4, <1>5, <1>6, <1>7
  <2> QED
    BY <1>3, <2>1 DEF InTime, Up, WindowOpens
<1>8. CASE n # 0
  <2>1. PICK q \in Nat : Day = q * Hour
    BY DayHours
  <2>2. PICK m \in Nat : n = m + 1
    BY <1>6, <1>8
  <2>3. /\ m * Hour \in Nat /\ n * Hour = m * Hour + Hour
        /\ (q + 1) * Hour = q * Hour + Hour
        /\ (n * Hour < (q + 1) * Hour => n * Hour + Hour <= (q + 1) * Hour)
    BY <2>2, TimesHour
  <2>4. t <= clock
    BY <1>2, <1>4, <1>5, <1>6, <2>3
  <2>5. n * Hour < Day + Hour
    BY <1>2, <1>4, <1>5, <1>6, <2>3
  <2>6. n * Hour <= Day
    BY <1>4, <2>1, <2>3, <2>5
  <2>7. c <= t + Day
    BY <1>4, <1>5, <1>6, <2>3, <2>6
  <2>8. Within(t, d) /\ t <= e.at
    BY <1>2, <1>6, <2>4 DEF Within
  <2>9. Beat(u, t)
    BY <1>6 DEF Beat
  <2>10. Awaited(e)
    BY <1>6, <2>7, <2>8, <2>9 DEF Awaited
  <2> QED
    BY <1>3, <2>10 DEF Awaited, Up, Within, WindowOpens, DayOf, Beat
<1> QED
  BY <1>7, <1>8

(* A replica that is up now and was before the window opened, was up       *)
(* before the step, too.                                                   *)
LEMMA UpBefore ==
  ASSUME CoverIInv, [Next]_vars, Steady', NEW u \in Replicas, run'[u].stage # "down",
         NEW opens \in Nat, booted'[u] < opens, clock' >= opens
  PROVE  Up(u) /\ booted[u] < opens
<1>1. /\ TypeOK
      /\ \A q \in Replicas : Active(q) => holder = q
      /\ (\E r \in Replicas : Proceeds(r)) \/ Passes
  BY SteadyContext
<1>2. run \in [Replicas -> Runs] /\ booted \in [Replicas -> Nat] /\ clock \in Nat
  BY <1>1 DEF TypeOK
<1>3. ASSUME NEW r \in Replicas, Boot(r) PROVE Up(u) /\ booted[u] < opens
  <2>1. /\ clock' = clock /\ booted' = [booted EXCEPT ![r] = clock]
        /\ run' = [run EXCEPT ![r] = Resting("idle")]
    BY <1>3 DEF Boot
  <2>2. u # r
    BY <1>2, <2>1
  <2> QED
    BY <1>2, <2>1, <2>2 DEF Up
<1>4. ASSUME NEW r \in Replicas, Proceeds(r), ~Boot(r) PROVE Up(u) /\ booted[u] < opens
  <2>1. booted' = booted /\ run[r].stage # "down"
    BY <1>4 DEF Proceeds, Tick, Skip, Gather, Enqueue, Book, Checks
  <2>2. u # r => run'[u] = run[u]
    BY <1>1, <1>4, OthersRun DEF Proceeds, ReplicaStep
  <2> QED
    BY <2>1, <2>2 DEF Up
<1>5. CASE Passes
  BY <1>5 DEF Passes, Record, Elapse, vars, replicaVars, Up
<1> QED
  BY <1>1, <1>3, <1>4, <1>5

LEMMA PlannedStep ==
  ASSUME CoverIInv, [Next]_vars, Steady', NEW e \in events'
  PROVE  Planned(e)'
<1>1. /\ TypeOK /\ CoverInv /\ toggles' = 0 /\ WindowInDay
      /\ (\E r \in Replicas : Proceeds(r)) \/ Passes
  BY SteadyContext
<1> SUFFICES ASSUME e.at = e.seen, NEW u \in Replicas, run'[u].stage # "down",
                    booted'[u] < WindowOpens(DayOf(e.at)), ~(clock' < WindowOpens(DayOf(e.at)))
             PROVE  InTime(DayOf(e.at))' \/ Carried(e)' \/ Awaited(e)' \/ CoveredAll(e)'
  BY DEF Planned, InTime, WindowOpens, DayOf, Up
<1>2. e \in Events /\ e.at \in Nat /\ clock \in Nat /\ clock' \in Nat
  <2>1. TypeOK'
    BY <1>1, TypeStep
  <2> QED
    BY <1>1, <2>1 DEF TypeOK, Events
<1>3. PICK d \in Nat : d = DayOf(e.at)
  BY <1>2, DayOfType
<1>4. WindowOpens(d) \in Nat /\ Hour \in Nat \ {0}
  BY <1>1, <1>2, <1>3, EventDay
<1>5. clock' >= WindowOpens(d)
  BY <1>2, <1>3, <1>4
<1>6. Up(u) /\ booted[u] < WindowOpens(d)
  BY <1>3, <1>4, <1>5, UpBefore
<1>7. InTime(d)' = InTime(DayOf(e.at))'
  BY <1>3 DEF InTime, WindowOpens, DayOf
<1>8. CASE clock < WindowOpens(d)
  <2>1. clock' # clock
    BY <1>5, <1>8, <1>2, <1>4
  <2>2. Elapse
    BY <1>1, <2>1 DEF Proceeds, Tick, Skip, Gather, Enqueue, Book, Boot, Passes, Record, vars
  <2>3. next \in [Replicas -> 0 .. Hour]
    BY <1>1 DEF TypeOK
  <2>4. clock' = WindowOpens(d) /\ run' = run /\ next'[u] = next[u] - 1 /\ next[u] \in 0 .. Hour
    BY <1>2, <1>4, <1>5, <1>6, <1>8, <2>2, <2>3 DEF Elapse, Up
  <2>5. clock' + next'[u] < WindowOpens(d) + Hour
    BY <1>4, <2>4
  <2> QED
    BY <1>6, <1>7, <2>4, <2>5 DEF InTime, Up, WindowOpens
<1>9. CASE ~(clock < WindowOpens(d)) /\ e \notin events
  <2>1. clock >= WindowOpens(d)
    BY <1>2, <1>4, <1>9
  <2> QED
    BY <1>3, <1>6, <1>7, <1>9, <2>1, NewPlanned
<1>10. CASE ~(clock < WindowOpens(d)) /\ e \in events
  <2>1. clock >= WindowOpens(d)
    BY <1>2, <1>4, <1>10
  <2>2. InTime(d) \/ Carried(e) \/ Awaited(e) \/ CoveredAll(e)
    BY <1>1, <1>3, <1>6, <1>10 DEF CoverInv, Planned
  <2>3. InTime(d)' \/ Carried(e)' \/ Awaited(e)' \/ CoveredAll(e)'
    BY <1>2, <1>3, <1>10, <2>1, <2>2, TickPlanned, PlanKept
  <2> QED
    BY <1>7, <2>3
<1> QED
  BY <1>8, <1>9, <1>10

LEMMA CoverBase == Init => CoverIInv
<1> SUFFICES ASSUME Init PROVE CoverIInv
  OBVIOUS
<1>1. SentIInv
  BY SentBase
<1>2. \A r \in Replicas : run[r].stage = "down"
  BY RestingType DEF Init
<1>3. DayOf(clock) \in Nat /\ ledger["digest"] = -1
  BY DayOfType DEF Init, Reports
<1>4. CoverInv
  <2>1. \A r \in Replicas : Sweeps(r)
    BY <1>2 DEF Sweeps
  <2>2. EventsPast /\ BookedSweeps /\ \A e \in events : Planned(e)
    BY <1>3 DEF Init, EventsPast, BookedSweeps
  <2>3. LedgerPast
    BY <1>2, <1>3 DEF LedgerPast, Active
  <2>4. rows = {}
    BY DEF Init
  <2> QED
    BY <2>1, <2>2, <2>3, <2>4 DEF CoverInv
<1> QED
  BY <1>1, <1>4 DEF CoverIInv

LEMMA CoverStep == CoverIInv /\ [Next]_vars => CoverIInv'
<1> SUFFICES ASSUME CoverIInv, [Next]_vars PROVE CoverIInv'
  OBVIOUS
<1>1. SentIInv'
  BY SentStep DEF CoverIInv
<1>2. ASSUME Steady' PROVE CoverInv'
  <2>1. \A r \in Replicas : Sweeps(r)'
    BY <1>2, SweepsStep
  <2>2. EventsPast' /\ LedgerPast' /\ BookedSweeps'
    BY <1>2, PastStep, LedgerPastStep, BookedSweepsStep
  <2>3. \A row \in rows' : row.report = "digest" => RowBooked(row)'
    BY <1>2, RowsStep
  <2>4. \A e \in events' : Planned(e)'
    BY <1>2, PlannedStep
  <2> QED
    BY <2>1, <2>2, <2>3, <2>4 DEF CoverInv
<1> QED
  BY <1>1, <1>2 DEF CoverIInv

LEMMA CoverMeant == CoverIInv => EventsCovered
<1> SUFFICES ASSUME CoverIInv, Steady, NEW e \in events, NEW ch \in subscribed,
                    e.at = e.seen, e.bot => ch \notin BotFree,
                    clock >= WindowOpens(DayOf(e.at) + 1) + 2 * Hour,
                    NEW r \in Replicas, run[r].stage # "down", booted[r] < WindowOpens(DayOf(e.at))
             PROVE  Covered(e, ch)
  BY DEF EventsCovered, Steady, Undisturbed, Covered
<1>1. TypeOK /\ OnTime /\ CoverInv /\ WindowInDay
  BY DEF CoverIInv, SentIInv, Steady, Undisturbed
<1>2. e.at \in Nat /\ clock \in Nat /\ next \in [Replicas -> 0 .. Hour]
  BY <1>1 DEF TypeOK, Events
<1>3. PICK d \in Nat : d = DayOf(e.at)
  BY <1>2, DayOfType
<1>4. /\ WindowOpens(d) \in Nat /\ WindowOpens(d + 1) = WindowOpens(d) + Day
      /\ Hour \in Nat \ {0} /\ Day \in Nat /\ Hour <= Day
  BY <1>1, <1>2, <1>3, EventDay
<1>5. ~(clock < WindowOpens(d)) /\ ~InTime(d)
  BY <1>2, <1>3, <1>4 DEF InTime
<1>6. ~Carried(e)
  <2> SUFFICES ASSUME NEW s \in Replicas, Active(s), Within(run[s].now, d) \/ Within(run[s].now, d + 1)
               PROVE  FALSE
    BY <1>3 DEF Carried
  <2>1. run[s].now \in Nat /\ run[s].now + Hour = clock + next[s] /\ next[s] \in 0 .. Hour
    BY <1>1, <1>2, RunsNotAhead DEF OnTime
  <2> QED
    BY <1>2, <1>3, <1>4, <2>1 DEF Within
<1>7. ~Awaited(e)
  <2> SUFFICES ASSUME NEW s \in Replicas, NEW t \in Nat, Within(t, d), clock + next[s] <= t + Day
               PROVE  FALSE
    BY <1>3 DEF Awaited
  <2>1. next[s] \in 0 .. Hour
    BY <1>2
  <2> QED
    BY <1>2, <1>3, <1>4, <2>1 DEF Within
<1>8. CoveredAll(e)
  BY <1>1, <1>3, <1>5, <1>6, <1>7 DEF CoverInv, Planned, Up
<1> QED
  BY <1>8 DEF CoveredAll, Fits

(* No event slips between two digests: one that was recorded as it         *)
(* occurred is in a digest of every subscribed channel by the end of the   *)
(* next day's window, when a replica was up before the window of its own   *)
(* day opened, nothing failed and no tick was skipped (the day back that   *)
(* RunOnce passes to ListSince, the hourly ticker of syncx.Scheduler).     *)
THEOREM EventsCoveredAlways == Spec => []EventsCovered
  BY CoverBase, CoverStep, CoverMeant, PTL DEF Spec

-----------------------------------------------------------------------------
(* The lease of the reports.                                               *)
LEMMA RunsKept ==
  ASSUME \A q \in Replicas : Active(q)' <=> Active(q)
  PROVE  {q \in Replicas : Active(q)}' = {q \in Replicas : Active(q)}
  OBVIOUS

LEMMA StepUsesLease == TypeOK /\ [Next]_vars => [Lease!Next]_(Lease!vars)
<1> SUFFICES ASSUME TypeOK, [Next]_vars PROVE [Lease!Next]_(Lease!vars)
  OBVIOUS
<1> DEFINE Busy == {q \in Replicas : Active(q)}
<1>1. ASSUME UNCHANGED <<run, holder, lapses>> PROVE [Lease!Next]_(Lease!vars)
  <2>1. Busy' = Busy
    BY <1>1 DEF Active
  <2> QED
    BY <1>1, <2>1 DEF Lease!vars
<1>2. ASSUME NEW r \in Replicas, ReplicaStep(r) PROVE [Lease!Next]_(Lease!vars)
  <2>0. run \in [Replicas -> Runs] /\ lapses \in Nat
    BY DEF TypeOK
  <2>1. \A q \in Replicas : q # r => run'[q] = run[q]
    BY <1>2, OthersRun
  <2>2. CASE Tick(r) /\ holder = "none"
    <3>1. ~Active(r) /\ Active(r)' /\ holder' = r /\ lapses' = lapses
      <4>1. run[r].stage = "idle" /\ holder' = r /\ lapses' = lapses
        BY <2>2, TickMoves DEF Tick
      <4>2. run'[r].stage = "checking"
        BY <2>2, TickMoves
      <4> QED
        BY <4>1, <4>2 DEF Active
    <3>2. Busy' = Busy \cup {r}
      BY <2>1, <3>1 DEF Active
    <3>3. Lease!Take(r)
      BY <2>2, <3>1, <3>2 DEF Lease!Take
    <3> QED
      BY <3>3 DEF Lease!Next
  <2>3. CASE Skip(r) \/ Book(r) \/ ReportFails(r)
    <3>1. NextReport(r) /\ Active(r) /\ lapses' = lapses
      BY <2>3 DEF Skip, Checks, Book, ReportFails, Active
    <3>2. holder' = holder \/ (holder = r /\ holder' = "none" /\ run'[r].stage = "idle")
      BY <3>1, NextReportRun
    <3>3. CASE run'[r].stage = "idle"
      <4>1. Busy' = Busy \ {r}
        BY <2>1, <3>3 DEF Active
      <4>2. Lease!Stop(r)
        BY <3>1, <3>2, <4>1 DEF Lease!Stop
      <4> QED
        BY <4>2 DEF Lease!Next
    <3>4. CASE run'[r].stage = "checking"
      <4>1. Busy' = Busy
        BY <2>1, <3>1, <3>4 DEF Active
      <4> QED
        BY <3>1, <3>2, <3>4, <4>1 DEF Lease!vars
    <3> QED
      BY <3>1, <3>3, <3>4, NextReportRun
  <2>4. CASE Gather(r) \/ Enqueue(r)
    <3>1. /\ Active(r) /\ Active(r)' /\ holder' = holder
          /\ lapses' = lapses \/ lapses' = lapses + 1
      BY <2>0, <2>4, GatherMoves, EnqueueMoves DEF Gather, Enqueue, Checks, Active
    <3>2. Busy' = Busy
      BY <2>1, <3>1 DEF Active
    <3>3. CASE lapses' = lapses
      BY <3>1, <3>2, <3>3 DEF Lease!vars
    <3>4. CASE lapses' = lapses + 1
      <4>1. Lease!Lag
        BY <3>1, <3>2, <3>4 DEF Lease!Lag
      <4> QED
        BY <4>1 DEF Lease!Next
    <3> QED
      BY <3>1, <3>3, <3>4
  <2>5. CASE Lapse(r)
    <3>1. Busy' = Busy
      BY <2>5 DEF Lapse, Active
    <3>2. Lease!Lag
      BY <2>5, <3>1 DEF Lapse, Lease!Lag
    <3> QED
      BY <3>2 DEF Lease!Next
  <2>6. CASE Interrupt(r) \/ Crash(r) \/ Boot(r)
    <3>1. ~Active(r)' /\ holder' = holder /\ lapses' = lapses
      BY <2>0, <2>6, RestingType DEF Interrupt, Crash, Boot, Active
    <3>2. CASE Active(r)
      <4>1. Busy' = Busy \ {r}
        BY <2>1, <3>1 DEF Active
      <4>2. Lease!Stop(r)
        BY <3>1, <3>2, <4>1 DEF Lease!Stop
      <4> QED
        BY <4>2 DEF Lease!Next
    <3>3. CASE ~Active(r)
      <4>1. Busy' = Busy
        BY <2>1, <3>1, <3>3 DEF Active
      <4> QED
        BY <3>1, <4>1 DEF Lease!vars
    <3> QED
      BY <3>2, <3>3
  <2>7. CASE Expire(r)
    <3>1. Busy' = Busy
      BY <2>7 DEF Expire, Active
    <3>2. Lease!Free
      BY <2>7, <3>1 DEF Expire, Lease!Free
    <3> QED
      BY <3>2 DEF Lease!Next
  <2>8. CASE AcquireFails(r) \/ (Tick(r) /\ holder # "none")
    BY <1>1, <2>8 DEF AcquireFails, Tick
  <2> QED
    BY <1>2, <2>2, <2>3, <2>4, <2>5, <2>6, <2>7, <2>8 DEF ReplicaStep
<1>3. CASE ~\E r \in Replicas : ReplicaStep(r)
  BY <1>1, <1>3 DEF Next, Toggle, Record, Elapse, replicaVars, vars
<1> QED
  BY <1>2, <1>3

(* The reports use their lease as TaskLease allows, for any replicas, send *)
(* times and faults: what is proved of the reports while no lease lapsed   *)
(* rests on a lease such as LeaseRunner implements.                        *)
THEOREM ReportsUseLease == Spec => UsesLease
<1>1. Init => Lease!Init
  BY DEF Init, Lease!Init, Active, Resting
<1>2. TypeOK /\ [Next]_vars => [Lease!Next]_(Lease!vars)
  BY StepUsesLease
<1>3. Spec => []TypeOK
  BY DigestTypeCorrect
<1> QED
  BY <1>1, <1>2, <1>3, PTL DEF Spec, UsesLease, Lease!Spec
=============================================================================
