----------------------------- MODULE LeaseProofs -----------------------------
(***************************************************************************)
(* Proofs about LeaseRunner, for any number of replicas and any lengths of *)
(* the lease and the heartbeat: its invariant IInv is inductive once       *)
(* heartbeats are timely, and gives mutual exclusion; a lease ends with    *)
(* the run that took it; and the leases, as the database sees them,        *)
(* implement the abstract TaskLease.                                       *)
(***************************************************************************)
EXTENDS LeaseRunner, TLAPS

(* A renewal on its way left when the ticker fired, not before.            *)
SendingIsDue ==
    \A r \in Replicas : run[r].beat = "sending" => run[r].slack <= Delay

(* Every process has a WorkerID of its own.                                *)
IdsDistinct ==
    /\ \A r \in Replicas : id[r] <= boots
    /\ \A r \in Replicas : run[r].phase # "down" => id[r] # 0
    /\ \A r, s \in Replicas : id[r] = id[s] /\ id[r] # 0 => r = s

(* The row holds the newest grant.                                         *)
RowNewest ==
    /\ \A g \in granted : g.token <= row.token
    /\ \A g \in granted : g.token = row.token => g.holder = row.holder
    /\ TokensFence

(* A task with a live context holds a lease that outlives its next         *)
(* heartbeat: the reason why no other replica can take it.                 *)
WriterHolds ==
    lates = 0 => \A r \in Replicas : Writer(r) =>
        /\ run[r].beat # "stopped"
        /\ row.holder = id[r]
        /\ row.token = run[r].token
        /\ run[r].slack < row.left

LateIsFault == lates <= leaseFaults

Safe == LeaseTypeOK /\ SendingIsDue /\ IdsDistinct /\ RowNewest /\ LateIsFault
IInv == Safe /\ WriterHolds /\ InterruptedOnlyByFault

-----------------------------------------------------------------------------
LEMMA TypeInit == LeaseInit => Safe /\ WriterHolds /\ InterruptedOnlyByFault
  BY ConstantAssumption
  DEF LeaseInit, Safe, LateIsFault, LeaseTypeOK, SendingIsDue, IdsDistinct, RowNewest, TokensFence,
      WriterHolds, Writer, InterruptedOnlyByFault, Resting, Runs, Phases

(* What Acquire writes.                                                    *)
LEMMA TakenType ==
  ASSUME LeaseTypeOK, NEW h \in Nat
  PROVE  /\ Taken(h) \in [holder : Nat, token : Nat, left : 0 .. TTL]
         /\ Taken(h).holder = h /\ Taken(h).left = TTL
         /\ \/ Taken(h).token = row.token + 1
            \/ Taken(h).token = row.token /\ row.holder = h
  BY ConstantAssumption DEF LeaseTypeOK, Taken

LEMMA RowType ==
  ASSUME LeaseTypeOK, NEW h \in Nat, NEW t \in Nat
  PROVE  /\ Renewed \in [holder : Nat, token : Nat, left : 0 .. TTL]
         /\ Renewed.holder = row.holder /\ Renewed.token = row.token
         /\ Renewed.left = TTL
         /\ Released(h, t) \in [holder : Nat, token : Nat, left : 0 .. TTL]
         /\ Released(h, t).holder = row.holder
         /\ Released(h, t).token = row.token
         /\ ~(row.holder = h /\ row.token = t) => Released(h, t) = row
  BY ConstantAssumption DEF LeaseTypeOK, Renewed, Released

(* What one step may do to a replica's call of RunWithLease.               *)
LEMMA SlackRun ==
  ASSUME NEW x \in Runs, NEW n \in 0 .. Heartbeat + Delay
  PROVE  LET y == [x EXCEPT !.slack = n]
         IN  /\ y \in Runs /\ y.slack = n /\ y.beat = x.beat /\ y.phase = x.phase
             /\ y.token = x.token /\ y.cancelled = x.cancelled
  BY ConstantAssumption DEF Runs

LEMMA TickRun ==
  ASSUME LeaseTypeOK, Elapse, NEW r \in Replicas
  PROVE  /\ run'[r] \in Runs
         /\ run'[r].slack = Down1(run[r].slack)
         /\ run'[r].beat = run[r].beat /\ run'[r].phase = run[r].phase
         /\ run'[r].token = run[r].token /\ run'[r].cancelled = run[r].cancelled
<1>1. run[r] \in Runs /\ run[r].slack \in 0 .. Heartbeat + Delay
  BY DEF LeaseTypeOK, Runs
<1>2. Down1(run[r].slack) \in 0 .. Heartbeat + Delay
  BY <1>1, ConstantAssumption DEF Down1
<1>3. run'[r] = [run[r] EXCEPT !.slack = Down1(run[r].slack)]
  BY DEF Elapse
<1> QED
  BY <1>1, <1>2, <1>3, SlackRun

LEMMA InterruptRun ==
  ASSUME LeaseTypeOK, NEW r \in Replicas, Interrupt(r)
  PROVE  /\ run' = [run EXCEPT ![r] = run'[r]]
         /\ run'[r] \in Runs
         /\ run'[r].beat = "stopped" /\ run'[r].cancelled
         /\ run'[r].phase = run[r].phase /\ run'[r].token = run[r].token
<1>1. run[r] \in Runs /\ run \in [Replicas -> Runs]
  BY DEF LeaseTypeOK
<1>2. run' = [run EXCEPT ![r] = [run[r] EXCEPT !.beat = "stopped", !.cancelled = TRUE]]
  BY <1>1 DEF Interrupt
<1>3. LET y == [run[r] EXCEPT !.beat = "stopped", !.cancelled = TRUE]
      IN  y \in Runs /\ y.beat = "stopped" /\ y.cancelled
          /\ y.phase = run[r].phase /\ y.token = run[r].token
  BY <1>1, ConstantAssumption DEF Runs
<1> QED
  BY <1>1, <1>2, <1>3

LEMMA ShutdownRun ==
  ASSUME LeaseTypeOK, NEW r \in Replicas, Shutdown(r)
  PROVE  /\ run' = [run EXCEPT ![r] = run'[r]]
         /\ run'[r] \in Runs
         /\ run'[r].beat = run[r].beat /\ run'[r].slack = run[r].slack
         /\ run'[r].phase = run[r].phase /\ run'[r].token = run[r].token
         /\ ~run'[r].cancelled => run[r].phase # "body" /\ ~run[r].cancelled
<1> DEFINE c == run[r].cancelled \/ run[r].phase = "body"
           y == [run[r] EXCEPT !.cancelled = c]
<1>1. run[r] \in Runs /\ run \in [Replicas -> Runs]
  BY DEF LeaseTypeOK
<1>2. run' = [run EXCEPT ![r] = y]
  BY <1>1 DEF Shutdown
<1>3. c \in BOOLEAN
  OBVIOUS
<1> HIDE DEF c
<1>4. y \in Runs /\ y.beat = run[r].beat /\ y.slack = run[r].slack /\ y.cancelled = c
      /\ y.phase = run[r].phase /\ y.token = run[r].token
  BY <1>1, <1>3, ConstantAssumption DEF Runs
<1>5. run'[r] = y
  BY <1>1, <1>2
<1> HIDE DEF y
<1> QED
  BY <1>2, <1>4, <1>5 DEF c

LEMMA ReturnRun ==
  ASSUME LeaseTypeOK, NEW r \in Replicas, Return(r)
  PROVE  /\ run' = [run EXCEPT ![r] = run'[r]]
         /\ run'[r] \in Runs
         /\ run'[r].beat = "stopped" /\ run'[r].phase = "returned"
         /\ run'[r].token = run[r].token /\ run'[r].cancelled = run[r].cancelled
<1>1. run[r] \in Runs /\ run \in [Replicas -> Runs]
  BY DEF LeaseTypeOK
<1>2. run' = [run EXCEPT ![r] = [run[r] EXCEPT !.phase = "returned", !.beat = "stopped"]]
  BY <1>1 DEF Return
<1>3. LET y == [run[r] EXCEPT !.phase = "returned", !.beat = "stopped"]
      IN  y \in Runs /\ y.beat = "stopped" /\ y.phase = "returned"
          /\ y.token = run[r].token /\ y.cancelled = run[r].cancelled
  BY <1>1, ConstantAssumption DEF Runs, Phases
<1> QED
  BY <1>1, <1>2, <1>3

LEMMA HeartbeatRun ==
  ASSUME LeaseTypeOK, SendingIsDue, NEW r \in Replicas, HeartbeatDue(r) \/ Renew(r)
  PROVE  /\ run' = [run EXCEPT ![r] = run'[r]]
         /\ run'[r] \in Runs
         /\ run'[r].beat = "sending" => run'[r].slack <= Delay
         /\ run'[r].beat # "stopped"
         /\ run'[r].phase = run[r].phase /\ run'[r].token = run[r].token
         /\ run'[r].cancelled = run[r].cancelled
         /\ HeartbeatDue(r) => run'[r].slack = run[r].slack
<1>1. run[r] \in Runs /\ run \in [Replicas -> Runs] /\ run[r].slack \in 0 .. Heartbeat + Delay
  BY DEF LeaseTypeOK, Runs
<1>2. CASE HeartbeatDue(r)
  <2>1. run' = [run EXCEPT ![r] = [run[r] EXCEPT !.beat = "sending"]]
    BY <1>1, <1>2 DEF HeartbeatDue
  <2>2. LET y == [run[r] EXCEPT !.beat = "sending"]
        IN  y \in Runs /\ y.beat = "sending" /\ y.slack = run[r].slack
            /\ y.phase = run[r].phase /\ y.token = run[r].token
            /\ y.cancelled = run[r].cancelled
    BY <1>1, ConstantAssumption DEF Runs
  <2> QED
    BY <1>1, <1>2, <2>1, <2>2 DEF HeartbeatDue
<1>3. CASE Renew(r)
  <2>1. run[r].slack + Heartbeat \in 0 .. Heartbeat + Delay
    BY <1>1, <1>3, ConstantAssumption DEF Renew, Sending, SendingIsDue
  <2>2. run' = [run EXCEPT ![r] = [run[r] EXCEPT !.beat = "ticking", !.slack = run[r].slack + Heartbeat]]
    BY <1>1, <1>3 DEF Renew
  <2>3. LET y == [run[r] EXCEPT !.beat = "ticking", !.slack = run[r].slack + Heartbeat]
        IN  y \in Runs /\ y.beat = "ticking" /\ y.phase = run[r].phase
            /\ y.token = run[r].token /\ y.cancelled = run[r].cancelled
    BY <1>1, <2>1, ConstantAssumption DEF Runs
  <2>4. ~HeartbeatDue(r)
    BY <1>3 DEF Renew, Sending, HeartbeatDue
  <2> QED
    BY <1>1, <2>2, <2>3, <2>4
<1> QED
  BY <1>2, <1>3

LEMMA RestingRun == ASSUME NEW p \in Phases PROVE Resting(p) \in Runs
  BY ConstantAssumption DEF Resting, Runs, Phases

LEMMA OneRunMoves ==
  ASSUME LeaseTypeOK, SendingIsDue, NEW r \in Replicas,
         run' = [run EXCEPT ![r] = run'[r]], run'[r] \in Runs,
         run'[r].beat = "sending" => run'[r].slack <= Delay
  PROVE  run' \in [Replicas -> Runs] /\ SendingIsDue'
<1>1. run \in [Replicas -> Runs]
  BY DEF LeaseTypeOK
<1>2. run' \in [Replicas -> Runs]
  BY <1>1
<1>3. ASSUME NEW q \in Replicas, run'[q].beat = "sending" PROVE run'[q].slack <= Delay
  <2>1. CASE q = r
    BY <1>3, <2>1
  <2>2. CASE q # r
    BY <1>1, <1>3, <2>2 DEF SendingIsDue
  <2> QED
    BY <2>1, <2>2
<1> QED
  BY <1>2, <1>3 DEF SendingIsDue

LEMMA TypeStep == LeaseTypeOK /\ SendingIsDue /\ [LeaseNext]_leaseVars => LeaseTypeOK' /\ SendingIsDue'
<1> SUFFICES ASSUME LeaseTypeOK, SendingIsDue, [LeaseNext]_leaseVars PROVE LeaseTypeOK' /\ SendingIsDue'
  OBVIOUS
<1> USE ConstantAssumption
<1>1. CASE UNCHANGED leaseVars
  BY <1>1 DEF leaseVars, LeaseTypeOK, SendingIsDue
<1>2. CASE Tick \/ LateTick
  <2>0. Elapse
    BY <1>2 DEF Tick, LateTick
  <2>1. row' \in [holder : Nat, token : Nat, left : 0 .. TTL]
    BY <2>0 DEF Elapse, LeaseTypeOK, Down1
  <2>2. run' \in [Replicas -> Runs]
    BY <2>0, TickRun DEF Elapse
  <2>3. SendingIsDue'
    BY <2>0, TickRun DEF SendingIsDue, Down1, LeaseTypeOK, Runs
  <2>4. lates' \in Nat /\ leaseFaults' \in Nat
    BY <1>2 DEF Tick, LateTick, LeaseFault, LeaseTypeOK
  <2> QED
    BY <2>0, <2>1, <2>2, <2>3, <2>4 DEF Elapse, LeaseTypeOK
<1>3. ASSUME NEW r \in Replicas, ReplicaStep(r) PROVE LeaseTypeOK' /\ SendingIsDue'
  <2>1. run[r] \in Runs /\ id[r] \in Nat /\ run[r].token \in Nat
    BY DEF LeaseTypeOK, Runs
  <2>2. CASE Start(r)
    BY <2>1, <2>2, TakenType DEF Start, Acquire, LeaseTypeOK, SendingIsDue, Runs, Phases
  <2>3. CASE AcquireAnswerLost(r)
    BY <2>1, <2>3, TakenType DEF AcquireAnswerLost, CallFails, LeaseFault, Acquire, LeaseTypeOK, SendingIsDue
  <2>4. CASE HeartbeatDue(r)
    BY <2>4, HeartbeatRun DEF HeartbeatDue, LeaseTypeOK, SendingIsDue
  <2>5. CASE Renew(r)
    <3>1. run' \in [Replicas -> Runs] /\ SendingIsDue'
      BY <2>1, <2>5, HeartbeatRun, OneRunMoves DEF Renew
    <3> QED
      BY <2>1, <2>5, <3>1, RowType DEF Renew, LeaseTypeOK
  <2>6. CASE RenewRefused(r)
    BY <2>6, InterruptRun DEF RenewRefused, LeaseTypeOK, SendingIsDue
  <2>7. CASE RenewFails(r)
    <3>1. run' \in [Replicas -> Runs] /\ SendingIsDue'
      BY <2>1, <2>7, InterruptRun, OneRunMoves DEF RenewFails
    <3>2. row' \in [holder : Nat, token : Nat, left : 0 .. TTL]
      BY <2>1, <2>7, RowType DEF RenewFails, LeaseTypeOK
    <3>3. leaseFaults' \in Nat
      BY <2>7 DEF RenewFails, CallFails, LeaseFault, LeaseTypeOK
    <3> QED
      BY <2>7, <3>1, <3>2, <3>3 DEF RenewFails, LeaseTypeOK
  <2>8. CASE Return(r)
    <3>1. run' \in [Replicas -> Runs] /\ SendingIsDue'
      BY <2>1, <2>8, ReturnRun, OneRunMoves DEF Return
    <3> QED
      BY <2>1, <2>8, <3>1 DEF Return, LeaseTypeOK
  <2>9. CASE StrayRenew(r)
    <3>1. PICK t \in stray[r] :
            /\ stray' = [stray EXCEPT ![r] = @ \ {t}]
            /\ row' = Renewed \/ row' = row
            /\ UNCHANGED <<run, id, boots, stopping, stops, granted, lates, leaseFaults>>
      BY <2>9 DEF StrayRenew
    <3>2. row' \in [holder : Nat, token : Nat, left : 0 .. TTL]
      BY <2>1, <3>1, RowType DEF LeaseTypeOK
    <3>3. stray' \in [Replicas -> SUBSET Nat]
      BY <3>1 DEF LeaseTypeOK
    <3> QED
      BY <3>1, <3>2, <3>3 DEF LeaseTypeOK, SendingIsDue
  <2>10. CASE Release(r)
    <3>1. run' \in [Replicas -> Runs] /\ SendingIsDue'
      BY <2>10, RestingRun, OneRunMoves DEF Release, Resting, Phases, LeaseTypeOK
    <3> QED
      BY <2>1, <2>10, <3>1, RowType DEF Release, LeaseTypeOK
  <2>11. CASE ReleaseFails(r)
    <3>1. run' \in [Replicas -> Runs] /\ SendingIsDue'
      BY <2>11, RestingRun, OneRunMoves DEF ReleaseFails, Resting, Phases, LeaseTypeOK
    <3>2. row' \in [holder : Nat, token : Nat, left : 0 .. TTL]
      <4>1. Released(id[r], run[r].token) \in [holder : Nat, token : Nat, left : 0 .. TTL]
        BY <2>1, RowType
      <4> QED
        BY <2>11, <4>1 DEF ReleaseFails, LeaseTypeOK
    <3>3. leaseFaults' \in Nat
      BY <2>11 DEF ReleaseFails, CallFails, LeaseFault, LeaseTypeOK
    <3> QED
      BY <2>11, <3>1, <3>2, <3>3 DEF ReleaseFails, LeaseTypeOK
  <2>12. CASE Exit(r)
    BY <2>1, <2>12 DEF Exit, Ends, Resting, LeaseTypeOK, SendingIsDue, Runs, Phases
  <2>13. CASE Boot(r)
    BY <2>1, <2>13 DEF Boot, Resting, LeaseTypeOK, SendingIsDue, Runs, Phases
  <2>14. CASE Shutdown(r)
    <3>1. run' \in [Replicas -> Runs] /\ SendingIsDue'
      BY <2>1, <2>14, ShutdownRun, OneRunMoves DEF Shutdown, SendingIsDue
    <3> QED
      BY <2>1, <2>14, <3>1 DEF Shutdown, LeaseTypeOK
  <2>15. CASE ReplicaCrash(r)
    BY <2>1, <2>15 DEF ReplicaCrash, LeaseFault, Ends, Resting, LeaseTypeOK, SendingIsDue, Runs, Phases
  <2> QED
    BY <1>3, <2>2, <2>3, <2>4, <2>5, <2>6, <2>7, <2>8, <2>9, <2>10, <2>11, <2>12,
       <2>13, <2>14, <2>15 DEF ReplicaStep, HeartbeatStep, EndStep
<1> QED
  BY <1>1, <1>2, <1>3 DEF LeaseNext

-----------------------------------------------------------------------------
(* A replica's step leaves the other replicas' calls alone.                *)
LEMMA OthersRun ==
  ASSUME LeaseTypeOK, SendingIsDue, NEW r \in Replicas, ReplicaStep(r),
         NEW q \in Replicas, q # r
  PROVE  run'[q] = run[q] /\ id'[q] = id[q]
  BY InterruptRun, ShutdownRun, ReturnRun, HeartbeatRun
  DEF ReplicaStep, HeartbeatStep, EndStep, Start, AcquireAnswerLost, RenewRefused,
      RenewFails, StrayRenew, Release, ReleaseFails, Exit, ReplicaCrash, Ends, Boot, Shutdown,
      Renew, HeartbeatDue, Return, LeaseTypeOK

LEMMA IdsStep == Safe /\ [LeaseNext]_leaseVars => IdsDistinct'
<1> SUFFICES ASSUME Safe, [LeaseNext]_leaseVars PROVE IdsDistinct'
  OBVIOUS
<1> USE DEF Safe
<1>1. CASE UNCHANGED leaseVars
  BY <1>1 DEF leaseVars, IdsDistinct
<1>2. CASE Elapse
  <2>1. \A r \in Replicas : run'[r].phase = run[r].phase
    BY <1>2, TickRun
  <2> QED
    BY <1>2, <2>1 DEF Elapse, IdsDistinct
<1>3. ASSUME NEW r \in Replicas, ReplicaStep(r) PROVE IdsDistinct'
  <2>1. CASE Boot(r)
    <3>1. boots' = boots + 1 /\ id'[r] = boots + 1 /\ boots \in Nat
      BY <2>1 DEF Boot, LeaseTypeOK
    <3>2. \A q \in Replicas : q # r => run'[q] = run[q] /\ id'[q] = id[q]
      BY <1>3, OthersRun
    <3>3. \A q \in Replicas : id[q] \in Nat /\ id[q] <= boots
      BY DEF LeaseTypeOK, IdsDistinct
    <3> QED
      BY <3>1, <3>2, <3>3 DEF IdsDistinct
  <2>2. CASE ~Boot(r)
    <3>1. UNCHANGED <<id, boots>>
      BY <1>3, <2>2 DEF ReplicaStep, HeartbeatStep, EndStep, Start, AcquireAnswerLost,
           RenewRefused, RenewFails, StrayRenew, Release, ReleaseFails, Exit, ReplicaCrash,
           Ends, Shutdown, Renew, HeartbeatDue, Return
    <3>2. run'[r].phase # "down" => run[r].phase # "down"
      BY <1>3, <2>2, InterruptRun, ShutdownRun, ReturnRun, HeartbeatRun
      DEF ReplicaStep, HeartbeatStep, EndStep, Start, AcquireAnswerLost,
           RenewRefused, RenewFails, StrayRenew, Release, ReleaseFails, Exit, ReplicaCrash,
           Ends, Resting, LeaseTypeOK, Shutdown, Return
    <3>3. \A q \in Replicas : run'[q].phase # "down" => run[q].phase # "down"
      BY <1>3, <3>2, OthersRun
    <3> QED
      BY <3>1, <3>3 DEF IdsDistinct
  <2> QED
    BY <2>1, <2>2
<1> QED
  BY <1>1, <1>2, <1>3 DEF LeaseNext, Tick, LateTick

(* What one step does to the row: nothing, an acquisition, or a change of  *)
(* its expiry alone.                                                       *)
LEMMA RowShape ==
  ASSUME Safe, [LeaseNext]_leaseVars
  PROVE  \/ UNCHANGED <<row, granted>>
         \/ \E r \in Replicas : run[r].phase = "idle" /\ Acquire(r)
         \/ /\ row'.holder = row.holder /\ row'.token = row.token
            /\ UNCHANGED granted
<1> USE DEF Safe
<1>1. CASE UNCHANGED leaseVars
  BY <1>1 DEF leaseVars
<1>2. CASE Elapse
  BY <1>2 DEF Elapse, LeaseTypeOK
<1>3. ASSUME NEW r \in Replicas, ReplicaStep(r)
      PROVE  \/ UNCHANGED <<row, granted>>
             \/ run[r].phase = "idle" /\ Acquire(r)
             \/ /\ row'.holder = row.holder /\ row'.token = row.token
                /\ UNCHANGED granted
  <2>1. id[r] \in Nat /\ run[r].token \in Nat
    BY DEF LeaseTypeOK, Runs
  <2>2. CASE Release(r) \/ ReleaseFails(r)
    <3>1. row' = row \/ row' = Released(id[r], run[r].token)
      BY <2>2 DEF Release, ReleaseFails
    <3>2. Released(id[r], run[r].token).holder = row.holder
          /\ Released(id[r], run[r].token).token = row.token
      BY <2>1, RowType
    <3> QED
      BY <2>2, <3>1, <3>2 DEF Release, ReleaseFails
  <2>3. CASE Renew(r) \/ RenewFails(r) \/ StrayRenew(r)
    <3>1. row' = row \/ row' = Renewed
      BY <2>3 DEF Renew, RenewFails, StrayRenew
    <3>2. Renewed.holder = row.holder /\ Renewed.token = row.token
      BY <2>1, RowType
    <3> QED
      BY <2>3, <3>1, <3>2 DEF Renew, RenewFails, StrayRenew
  <2> QED
    BY <1>3, <2>2, <2>3
    DEF ReplicaStep, HeartbeatStep, EndStep, Start, AcquireAnswerLost, RenewRefused,
        Exit, ReplicaCrash, Ends, Boot, Shutdown, HeartbeatDue, Return
<1> QED
  BY <1>1, <1>2, <1>3 DEF LeaseNext, Tick, LateTick

LEMMA RowNewestStep == Safe /\ [LeaseNext]_leaseVars => RowNewest'
<1> SUFFICES ASSUME Safe, [LeaseNext]_leaseVars PROVE RowNewest'
  OBVIOUS
<1>1. row.token \in Nat /\ row.holder \in Nat /\ granted \subseteq [holder : Nat, token : Nat]
  BY DEF Safe, LeaseTypeOK
<1>2. /\ \A g \in granted' : g.token <= row'.token
      /\ \A g \in granted' : g.token = row'.token => g.holder = row'.holder
      /\ \A g, h \in granted' : g.token = h.token => g.holder = h.holder
      /\ row'.token \in Nat /\ row.token <= row'.token
  <2>1. CASE UNCHANGED <<row, granted>>
    BY <1>1, <2>1 DEF Safe, RowNewest, TokensFence
  <2>2. CASE row'.holder = row.holder /\ row'.token = row.token /\ UNCHANGED granted
    BY <1>1, <2>2 DEF Safe, RowNewest, TokensFence
  <2>3. ASSUME NEW r \in Replicas, Acquire(r)
        PROVE  <1>2!1 /\ <1>2!2 /\ <1>2!3 /\ row'.token \in Nat /\ row.token <= row'.token
    <3> DEFINE g0 == [holder |-> id[r], token |-> row'.token]
    <3>1. id[r] \in Nat
      BY DEF Safe, LeaseTypeOK
    <3>2. row' = Taken(id[r]) /\ granted' = granted \cup {g0}
      BY <2>3 DEF Acquire
    <3>3. row'.holder = id[r]
          /\ (row'.token = row.token + 1 \/ (row'.token = row.token /\ row.holder = id[r]))
      BY <3>1, <3>2, TakenType DEF Safe
    <3>4. g0.holder = id[r] /\ g0.token = row'.token
      OBVIOUS
    <3> HIDE DEF g0
    <3>5. \A g \in granted : g.token \in Nat /\ g.holder \in Nat
      BY <1>1
    <3>6. /\ \A g \in granted : g.token <= row.token
          /\ \A g \in granted : g.token = row.token => g.holder = row.holder
          /\ \A g, h \in granted : g.token = h.token => g.holder = h.holder
      BY DEF Safe, RowNewest, TokensFence
    <3>7. \A g \in granted : g.token = row'.token => g.holder = id[r]
      BY <1>1, <3>3, <3>5, <3>6
    <3> QED
      BY <1>1, <3>2, <3>3, <3>4, <3>5, <3>6, <3>7
  <2> QED
    BY <2>1, <2>2, <2>3, RowShape
<1>3. ASSUME NEW q \in Replicas PROVE run'[q].token <= row'.token
  <2>1. run[q].token \in Nat /\ run[q].token <= row.token
    BY DEF Safe, RowNewest, TokensFence, LeaseTypeOK, Runs
  <2>2. CASE UNCHANGED leaseVars
    BY <1>1, <2>1, <2>2 DEF leaseVars
  <2>3. CASE Elapse
    BY <1>1, <1>2, <2>1, <2>3, TickRun DEF Safe
  <2>4. ASSUME NEW r \in Replicas, ReplicaStep(r) PROVE run'[q].token <= row'.token
    <3>1. CASE q # r
      BY <1>1, <1>2, <2>1, <2>4, <3>1, OthersRun DEF Safe
    <3>2. CASE q = r
      <4>1. run'[r].token = run[r].token \/ run'[r].token = 0 \/ run'[r].token = row'.token
        BY <2>4, InterruptRun, ShutdownRun, ReturnRun, HeartbeatRun
        DEF Safe, ReplicaStep, HeartbeatStep, EndStep, Start, AcquireAnswerLost,
            RenewRefused, RenewFails, StrayRenew, Release, ReleaseFails, Exit, ReplicaCrash,
            Ends, Boot, Resting, LeaseTypeOK
      <4> QED
        BY <1>1, <1>2, <2>1, <3>2, <4>1
    <3> QED
      BY <3>1, <3>2
  <2> QED
    BY <2>2, <2>3, <2>4 DEF LeaseNext, Tick, LateTick
<1> QED
  BY <1>2, <1>3 DEF RowNewest, TokensFence

LEMMA LateStep == Safe /\ [LeaseNext]_leaseVars => LateIsFault'
<1> SUFFICES ASSUME Safe, [LeaseNext]_leaseVars PROVE LateIsFault'
  OBVIOUS
<1>1. leaseFaults \in Nat /\ lates \in Nat /\ lates <= leaseFaults
  BY DEF Safe, LeaseTypeOK, LateIsFault
<1>2. CASE UNCHANGED leaseVars
  BY <1>1, <1>2 DEF leaseVars, LateIsFault
<1>3. CASE Tick \/ LateTick
  BY <1>1, <1>3 DEF Tick, LateTick, LeaseFault, LateIsFault
<1>4. ASSUME NEW r \in Replicas, ReplicaStep(r) PROVE LateIsFault'
  <2>1. lates' = lates /\ (leaseFaults' = leaseFaults \/ leaseFaults' = leaseFaults + 1)
    BY <1>4 DEF ReplicaStep, HeartbeatStep, EndStep, Start, AcquireAnswerLost, RenewRefused,
       RenewFails, StrayRenew, Release, ReleaseFails, Exit, ReplicaCrash, Ends, Boot, Shutdown,
       Renew, HeartbeatDue, Return, CallFails, LeaseFault
  <2> QED
    BY <1>1, <2>1 DEF LateIsFault
<1> QED
  BY <1>2, <1>3, <1>4 DEF LeaseNext

(* The lease of a task with a live context survives every step: another    *)
(* replica's Acquire finds it live, its Renew and Release miss the row,    *)
(* and time cannot pass it before the heartbeat.                           *)
LEMMA WriterStep ==
  ASSUME Timely, Safe, WriterHolds, [LeaseNext]_leaseVars, LeaseTypeOK', IdsDistinct'
  PROVE  WriterHolds'
<1> USE DEF Safe
<1> SUFFICES ASSUME NEW q \in Replicas, Writer(q)', lates' = 0
             PROVE  /\ run'[q].beat # "stopped"
                    /\ row'.holder = id'[q] /\ row'.token = run'[q].token
                    /\ run'[q].slack < row'.left
  BY DEF WriterHolds
<1>0. /\ run[q] \in Runs /\ run[q].slack \in 0 .. Heartbeat + Delay
      /\ run[q].token \in Nat /\ id[q] \in Nat /\ row.left \in 0 .. TTL
  BY DEF LeaseTypeOK, Runs
<1>01. lates = 0 /\ ~LateTick
  <2>1. lates \in Nat
    BY DEF LeaseTypeOK
  <2>2. ~LateTick
    BY <2>1 DEF LateTick
  <2>3. ASSUME NEW r \in Replicas, ReplicaStep(r) PROVE lates' = lates
    BY <2>3 DEF ReplicaStep, HeartbeatStep, EndStep, Start, AcquireAnswerLost, RenewRefused,
       RenewFails, StrayRenew, Release, ReleaseFails, Exit, ReplicaCrash, Ends, Boot, Shutdown,
       Renew, HeartbeatDue, Return
  <2> QED
    BY <2>2, <2>3 DEF LeaseNext, Tick, leaseVars
<1>1. CASE UNCHANGED leaseVars
  BY <1>01, <1>1 DEF leaseVars, Writer, WriterHolds
<1>2. CASE Tick
  <2>1. Writer(q)
    BY <1>2, TickRun DEF Writer, Tick
  <2>0. run[q].beat # "stopped" /\ run[q].slack < row.left
    BY <1>01, <2>1 DEF WriterHolds
  <2>2. run[q].beat # "stopped" /\ run[q].slack < row.left /\ run[q].slack > 0
    BY <1>2, <2>0, <2>1 DEF Tick, Beating, Writer
  <2>3. row'.left = row.left - 1 /\ run'[q].slack = run[q].slack - 1
    <3>1. row.left # 0 /\ run[q].slack # 0
      BY <1>0, <2>2
    <3>2. row'.left = row.left - 1
      BY <1>2, <3>1 DEF Tick, Elapse, Down1, LeaseTypeOK
    <3>3. run'[q].slack = Down1(run[q].slack)
      BY <1>0, <1>2 DEF Tick, Elapse, Runs
    <3> QED
      BY <3>1, <3>2, <3>3 DEF Down1
  <2>4. row'.holder = row.holder /\ row'.token = row.token
    BY <1>2 DEF Tick, Elapse, LeaseTypeOK
  <2> QED
    BY <1>0, <1>01, <1>2, <2>1, <2>2, <2>3, <2>4, TickRun DEF WriterHolds, Tick, Elapse
<1>3. ASSUME NEW r \in Replicas, ReplicaStep(r), r # q
      PROVE  /\ run'[q].beat # "stopped"
             /\ row'.holder = id'[q] /\ row'.token = run'[q].token
             /\ run'[q].slack < row'.left
  <2>1. run'[q] = run[q] /\ id'[q] = id[q]
    BY <1>3, OthersRun
  <2>2. Writer(q) /\ id[q] # 0
    BY <2>1 DEF Writer, IdsDistinct
  <2>3. /\ run[q].beat # "stopped" /\ row.holder = id[q]
        /\ row.token = run[q].token /\ run[q].slack < row.left
    BY <1>01, <2>2 DEF WriterHolds
  <2>4. id[r] # row.holder /\ id[r] \in Nat /\ run[r].token \in Nat
    BY <1>3, <2>2, <2>3 DEF IdsDistinct, LeaseTypeOK, Runs
  <2>5. ~Takeable(id[r]) /\ \A t \in Nat : ~Renewable(id[r], t)
    BY <1>0, <2>3, <2>4 DEF Takeable, Renewable
  <2>6. Released(id[r], run[r].token) = row
    BY <2>4, RowType
  <2>7. row' = row
    <3>1. CASE StrayRenew(r)
      BY <2>5, <3>1 DEF StrayRenew, LeaseTypeOK
    <3> QED
      BY <1>3, <2>4, <2>5, <2>6, <3>1
      DEF ReplicaStep, HeartbeatStep, EndStep, Start, AcquireAnswerLost, Acquire,
          RenewRefused, RenewFails, Release, ReleaseFails, Exit, ReplicaCrash, Ends, Boot,
          Shutdown, Renew, HeartbeatDue, Return
  <2> QED
    BY <2>1, <2>3, <2>7
<1>4. CASE ReplicaStep(q)
  <2>1. run'[q].phase = "body" /\ ~run'[q].cancelled
    BY DEF Writer
  <2>2. CASE Start(q)
    <3>1. run'[q].beat = "ticking" /\ run'[q].slack = Heartbeat + Delay
          /\ run'[q].token = row'.token /\ row' = Taken(id[q])
      BY <2>2 DEF Start, Acquire, LeaseTypeOK
    <3>2. row'.holder = id[q] /\ row'.left = TTL
      BY <1>0, <3>1, TakenType
    <3> QED
      BY <2>2, <3>1, <3>2 DEF Start, Timely
  <2>3. CASE HeartbeatDue(q)
    BY <1>01, <2>1, <2>3, HeartbeatRun DEF HeartbeatDue, Writer, WriterHolds
  <2>4. CASE Renew(q)
    <3>1. row'.holder = row.holder /\ row'.token = row.token /\ row'.left = TTL
      BY <1>0, <2>4, RowType DEF Renew
    <3>2. /\ run'[q].slack \in 0 .. Heartbeat + Delay
          /\ run'[q].beat # "stopped" /\ run'[q].token = run[q].token
      BY <2>4, HeartbeatRun DEF Runs
    <3>3. run'[q].slack < TTL
      BY <3>2, ConstantAssumption DEF Timely
    <3>4. row.holder = id[q] /\ row.token = run[q].token /\ id'[q] = id[q]
      BY <2>4 DEF Renew, Renewable
    <3> QED
      BY <3>1, <3>2, <3>3, <3>4
  <2>5. CASE StrayRenew(q)
    <3>1. Writer(q) /\ run' = run /\ id' = id
      BY <2>1, <2>5 DEF StrayRenew, Writer
    <3>2. row' = row \/ row' = Renewed
      BY <2>5 DEF StrayRenew
    <3>3. /\ run[q].beat # "stopped" /\ row.holder = id[q]
          /\ row.token = run[q].token /\ run[q].slack < row.left
      BY <1>01, <3>1 DEF WriterHolds
    <3>4. Renewed.holder = row.holder /\ Renewed.token = row.token /\ Renewed.left = TTL
      BY <1>0, RowType
    <3>5. run[q].slack < TTL
      BY <1>0, <3>3, ConstantAssumption
    <3> QED
      BY <3>1, <3>2, <3>3, <3>4, <3>5
  <2>6. ~(RenewRefused(q) \/ RenewFails(q))
    BY <2>1, InterruptRun DEF RenewRefused, RenewFails
  <2>7. ~(AcquireAnswerLost(q) \/ Return(q) \/ Release(q) \/ ReleaseFails(q) \/ Exit(q)
          \/ Boot(q) \/ ReplicaCrash(q))
    BY <2>1, ReturnRun DEF AcquireAnswerLost, Release, ReleaseFails, Exit, Boot, ReplicaCrash,
       Ends, Resting, LeaseTypeOK
  <2>8. ~Shutdown(q)
    BY <2>1, ShutdownRun
  <2> QED
    BY <1>4, <2>2, <2>3, <2>4, <2>5, <2>6, <2>7, <2>8
    DEF ReplicaStep, HeartbeatStep, EndStep
<1>5. ~LateTick
  BY DEF LateTick, LeaseTypeOK
<1> QED
  BY <1>1, <1>2, <1>3, <1>4, <1>5 DEF LeaseNext

(* A task is interrupted by a refused renewal only if its lease was lost,  *)
(* which WriterHolds excludes, else by a failing call or a shutdown.       *)
LEMMA InterruptStep ==
  ASSUME Safe, WriterHolds, InterruptedOnlyByFault, [LeaseNext]_leaseVars
  PROVE  InterruptedOnlyByFault'
<1> USE DEF Safe
<1> SUFFICES ASSUME NEW q \in Replicas, run'[q].cancelled
             PROVE  leaseFaults' > 0 \/ q \in stopping'
  BY DEF InterruptedOnlyByFault
<1>0. leaseFaults \in Nat /\ (run[q].cancelled => leaseFaults > 0 \/ q \in stopping)
  BY DEF LeaseTypeOK, InterruptedOnlyByFault
<1>1. CASE UNCHANGED leaseVars
  BY <1>0, <1>1 DEF leaseVars
<1>2. CASE Tick \/ LateTick
  <2>1. run'[q].cancelled = run[q].cancelled
    BY <1>2, TickRun DEF Tick, LateTick
  <2> QED
    BY <1>0, <1>2, <2>1 DEF Tick, LateTick, Elapse, LeaseFault
<1>3. ASSUME NEW r \in Replicas, ReplicaStep(r) PROVE leaseFaults' > 0 \/ q \in stopping'
  <2>1. leaseFaults' = leaseFaults \/ leaseFaults' = leaseFaults + 1
    BY <1>3 DEF ReplicaStep, HeartbeatStep, EndStep, Start, AcquireAnswerLost, RenewRefused,
       RenewFails, StrayRenew, Release, ReleaseFails, Exit, ReplicaCrash, Boot, Shutdown, Renew,
       HeartbeatDue, Return, CallFails, LeaseFault
  <2>2. CASE r # q
    <3>1. run[q].cancelled
      BY <1>3, <2>2, OthersRun
    <3>2. q \in stopping => q \in stopping'
      BY <1>3, <2>2 DEF ReplicaStep, HeartbeatStep, EndStep, Start, AcquireAnswerLost,
         RenewRefused, RenewFails, StrayRenew, Release, ReleaseFails, Exit, ReplicaCrash, Ends,
         Boot, Shutdown, Renew, HeartbeatDue, Return
    <3> QED
      BY <1>0, <2>1, <3>1, <3>2
  <2>3. CASE r = q
    <3>1. CASE RenewRefused(q)
      <4>1. lates # 0 \/ ~Writer(q)
        BY <3>1 DEF RenewRefused, Renewable, WriterHolds, LeaseTypeOK, Runs
      <4>2. leaseFaults > 0 \/ run[q].cancelled
        BY <3>1, <4>1 DEF RenewRefused, Sending, Writer, LateIsFault, LeaseTypeOK
      <4> QED
        BY <1>0, <3>1, <4>2 DEF RenewRefused
    <3>2. CASE RenewFails(q)
      BY <1>0, <3>2 DEF RenewFails, CallFails, LeaseFault
    <3>3. CASE Shutdown(q)
      BY <3>3 DEF Shutdown
    <3>4. CASE HeartbeatDue(q) \/ Renew(q) \/ Return(q)
      BY <1>0, <3>4, HeartbeatRun, ReturnRun DEF HeartbeatDue, Renew, Return
    <3>5. CASE AcquireAnswerLost(q) \/ StrayRenew(q)
      BY <1>0, <2>1, <3>5 DEF AcquireAnswerLost, StrayRenew
    <3>6. ~(Start(q) \/ Release(q) \/ ReleaseFails(q) \/ Exit(q) \/ Boot(q) \/ ReplicaCrash(q))
      BY DEF Start, Release, ReleaseFails, Exit, Boot, ReplicaCrash, Ends, Resting, LeaseTypeOK
    <3> QED
      BY <1>3, <2>3, <3>1, <3>2, <3>3, <3>4, <3>5, <3>6
      DEF ReplicaStep, HeartbeatStep, EndStep
  <2> QED
    BY <2>2, <2>3
<1> QED
  BY <1>1, <1>2, <1>3 DEF LeaseNext

-----------------------------------------------------------------------------
LEMMA SafeInvariant == LeaseSpec => []Safe
<1>1. LeaseInit => Safe
  BY TypeInit
<1>2. Safe /\ [LeaseNext]_leaseVars => Safe'
  BY TypeStep, IdsStep, RowNewestStep, LateStep DEF Safe
<1> QED
  BY <1>1, <1>2, PTL DEF LeaseSpec

(* Every variable keeps its type.                                          *)
THEOREM LeaseTypeCorrect == LeaseSpec => []LeaseTypeOK
<1>1. Safe => LeaseTypeOK
  BY DEF Safe
<1> QED
  BY <1>1, SafeInvariant, PTL

(* A fencing token names one process, however heartbeats and calls fare.   *)
THEOREM TokensFenceAlways == LeaseSpec => []TokensFence
<1>1. Safe => TokensFence
  BY DEF Safe, RowNewest
<1> QED
  BY <1>1, SafeInvariant, PTL

LEMMA TimelyInvariant == ASSUME Timely PROVE LeaseSpec => []IInv
<1>1. LeaseInit => IInv
  BY TypeInit DEF IInv
<1>2. IInv /\ [LeaseNext]_leaseVars => IInv'
  <2>1. Safe /\ [LeaseNext]_leaseVars => Safe'
    BY TypeStep, IdsStep, RowNewestStep, LateStep DEF Safe
  <2> QED
    BY <2>1, WriterStep, InterruptStep DEF IInv, Safe
<1> QED
  BY <1>1, <1>2, PTL DEF LeaseSpec

(* Mutual exclusion of the scheduled task, for every TTL, heartbeat period *)
(* and lateness with Heartbeat + Delay < TTL, under crashes, lost answers  *)
(* and shutdowns, as long as no heartbeat is later than that.              *)
THEOREM MutualExclusion == ASSUME Timely PROVE LeaseSpec => []OneReplicaRuns
<1>1. IInv => OneReplicaRuns
  BY DEF IInv, Safe, WriterHolds, OneReplicaRuns, IdsDistinct, Writer
<1> QED
  BY <1>1, TimelyInvariant, PTL

(* With timely heartbeats only a fault or a shutdown interrupts a task.    *)
THEOREM NoNeedlessInterrupt == ASSUME Timely PROVE LeaseSpec => []InterruptedOnlyByFault
<1>1. IInv => InterruptedOnlyByFault
  BY DEF IInv
<1> QED
  BY <1>1, TimelyInvariant, PTL

(* A live lease stays with its holder, and time alone or its holder's      *)
(* Release ends it.                                                        *)
THEOREM LiveLeaseKept == LeaseSpec => LiveLeaseYields
<1> DEFINE Yields == row.left > 0 =>
             /\ row'.holder = row.holder
             /\ row'.left < row.left - 1 =>
                   \E r \in Replicas : id[r] = row.holder /\ run[r].phase = "returned"
<1>1. Safe /\ [LeaseNext]_leaseVars => [Yields]_leaseVars
  <2> SUFFICES ASSUME Safe, LeaseNext, row.left > 0
               PROVE  /\ row'.holder = row.holder
                      /\ row'.left < row.left - 1 =>
                            \E r \in Replicas : id[r] = row.holder /\ run[r].phase = "returned"
    OBVIOUS
  <2>0. row \in [holder : Nat, token : Nat, left : 0 .. TTL] /\ row.left \in 0 .. TTL
    BY DEF Safe, LeaseTypeOK
  <2>1. CASE Elapse
    <3>1. row'.holder = row.holder /\ row'.left = Down1(row.left)
      BY <2>0, <2>1 DEF Elapse
    <3> QED
      BY <2>0, <3>1, ConstantAssumption DEF Down1
  <2>2. ASSUME NEW r \in Replicas, ReplicaStep(r)
        PROVE  /\ row'.holder = row.holder
               /\ row'.left < row.left - 1 => id[r] = row.holder /\ run[r].phase = "returned"
    <3>1. id[r] \in Nat /\ run[r].token \in Nat
      BY DEF Safe, LeaseTypeOK, Runs
    <3>2. CASE row' = row
      BY <2>0, <3>2, ConstantAssumption
    <3>3. CASE row' = Renewed
      BY <2>0, <3>1, <3>3, RowType, ConstantAssumption DEF Safe
    <3>4. CASE Acquire(r)
      <4>1. row' = Taken(id[r]) /\ row.holder = id[r]
        BY <2>0, <3>4 DEF Acquire, Takeable
      <4> QED
        BY <2>0, <3>1, <4>1, TakenType, ConstantAssumption DEF Safe
    <3>5. CASE row' = Released(id[r], run[r].token) /\ run[r].phase = "returned"
      <4>1. CASE row.holder = id[r]
        BY <3>1, <3>5, <4>1, RowType DEF Safe
      <4>2. CASE row.holder # id[r]
        <5>1. row' = row
          BY <3>1, <3>5, <4>2, RowType DEF Safe
        <5> QED
          BY <3>2, <5>1
      <4> QED
        BY <4>1, <4>2
    <3> QED
      BY <2>2, <3>2, <3>3, <3>4, <3>5
      DEF ReplicaStep, HeartbeatStep, EndStep, Start, AcquireAnswerLost, RenewRefused,
          RenewFails, StrayRenew, Release, ReleaseFails, Exit, ReplicaCrash, Ends, Boot,
          Shutdown, Renew, HeartbeatDue, Return
  <2> QED
    BY <2>1, <2>2 DEF LeaseNext, Tick, LateTick
<1> QED
  BY <1>1, SafeInvariant, PTL DEF LeaseSpec, LiveLeaseYields

-----------------------------------------------------------------------------
(* Why an idle replica leaves no live lease behind.  While a call of       *)
(* RunWithLease lasts, a row held by its replica carries its token, so its *)
(* Release ends the lease; a stray renewal cannot revive an ended one.     *)
HolderKnown == row.holder <= boots

RunOwnsRow ==
    \A r \in Replicas :
        run[r].phase \in {"body", "returned"} /\ row.holder = id[r] =>
            run[r].token = row.token

Ended == HolderKnown /\ RunOwnsRow /\ LeaseEndsWithRun

LEMMA EndedInit == LeaseInit => Ended
  BY DEF LeaseInit, Ended, HolderKnown, RunOwnsRow, LeaseEndsWithRun, Resting

(* What a replica's step does to the row, beside an acquisition.           *)
LEMMA RowStep ==
  ASSUME Safe, NEW r \in Replicas, ReplicaStep(r)
  PROVE  \/ row' = Taken(id[r]) /\ (Start(r) \/ AcquireAnswerLost(r))
         \/ /\ row'.holder = row.holder /\ row'.token = row.token
            /\ row'.left > 0 => row.left > 0
            /\ ~(Start(r) \/ AcquireAnswerLost(r))
<1> USE DEF Safe
<1>1. id[r] \in Nat /\ run[r].token \in Nat /\ row.left \in Nat
  BY DEF LeaseTypeOK, Runs
<1>2. ~(Start(r) /\ ~Acquire(r)) /\ ~(AcquireAnswerLost(r) /\ ~Acquire(r))
  BY DEF Start, AcquireAnswerLost
<1>3. CASE Start(r) \/ AcquireAnswerLost(r)
  BY <1>2, <1>3 DEF Acquire
<1>4. CASE ~(Start(r) \/ AcquireAnswerLost(r))
  <2>1. CASE Renew(r) \/ RenewFails(r) \/ StrayRenew(r)
    <3>1. row' = row \/ (row' = Renewed /\ row.left > 0)
      BY <2>1 DEF Renew, RenewFails, StrayRenew, Renewable
    <3> QED
      BY <1>1, <1>4, <3>1, RowType
  <2>2. CASE Release(r) \/ ReleaseFails(r)
    <3>1. row' = row \/ row' = Released(id[r], run[r].token)
      BY <2>2 DEF Release, ReleaseFails
    <3>2. row' = row \/ row'.left = 0
      <4>1. row \in [holder : Nat, token : Nat, left : 0 .. TTL]
        BY DEF LeaseTypeOK
      <4>2. Released(id[r], run[r].token) = row \/ Released(id[r], run[r].token).left = 0
        BY <4>1 DEF Released
      <4> QED
        BY <3>1, <4>2
    <3>3. /\ Released(id[r], run[r].token).holder = row.holder
          /\ Released(id[r], run[r].token).token = row.token
      BY <1>1, RowType
    <3>4. row'.holder = row.holder /\ row'.token = row.token
      BY <3>1, <3>3
    <3> QED
      BY <1>1, <1>4, <3>2, <3>4
  <2>3. CASE UNCHANGED row
    BY <1>4, <2>3
  <2> QED
    BY <1>4, <2>1, <2>2, <2>3
    DEF ReplicaStep, HeartbeatStep, EndStep, RenewRefused, Exit, ReplicaCrash, Ends, Boot,
        Shutdown, HeartbeatDue, Return
<1> QED
  BY <1>3, <1>4

(* What it does to the counters and to the replica's own process.          *)
LEMMA OwnStep ==
  ASSUME Safe, NEW r \in Replicas, ReplicaStep(r)
  PROVE  /\ boots' \in Nat /\ boots' >= boots
         /\ leaseFaults' \in Nat /\ leaseFaults' >= leaseFaults
         /\ \A q \in Replicas \ {r} : q \in stopping => q \in stopping'
         /\ Boot(r) \/ id' = id
<1>1. boots \in Nat /\ leaseFaults \in Nat
  BY DEF Safe, LeaseTypeOK
<1>2. Boot(r) \/ (id' = id /\ boots' = boots)
  BY DEF ReplicaStep, HeartbeatStep, EndStep, Start, AcquireAnswerLost, RenewRefused,
     RenewFails, StrayRenew, Release, ReleaseFails, Exit, ReplicaCrash, Ends, Shutdown, Renew,
     HeartbeatDue, Return
<1>3. leaseFaults' = leaseFaults \/ leaseFaults' = leaseFaults + 1
  BY DEF ReplicaStep, HeartbeatStep, EndStep, Start, AcquireAnswerLost, RenewRefused,
     RenewFails, StrayRenew, Release, ReleaseFails, Exit, ReplicaCrash, Boot, Shutdown, Renew,
     HeartbeatDue, Return, CallFails, LeaseFault
<1>4. \A q \in Replicas \ {r} : q \in stopping => q \in stopping'
  BY DEF ReplicaStep, HeartbeatStep, EndStep, Start, AcquireAnswerLost, RenewRefused,
     RenewFails, StrayRenew, Release, ReleaseFails, Exit, ReplicaCrash, Ends, Boot, Shutdown,
     Renew, HeartbeatDue, Return
<1>5. Boot(r) => boots' = boots + 1
  BY DEF Boot
<1> QED
  BY <1>1, <1>2, <1>3, <1>4, <1>5

LEMMA EndedStep == Safe /\ Ended /\ [LeaseNext]_leaseVars => Ended'
<1> SUFFICES ASSUME Safe, Ended, [LeaseNext]_leaseVars PROVE Ended'
  OBVIOUS
<1> USE DEF Safe
<1>0. /\ row.holder \in Nat /\ row.token \in Nat /\ row.left \in Nat /\ boots \in Nat
      /\ \A r \in Replicas : id[r] \in Nat /\ id[r] <= boots
  BY DEF LeaseTypeOK, IdsDistinct
<1>1. CASE UNCHANGED leaseVars
  BY <1>1 DEF leaseVars, Ended, HolderKnown, RunOwnsRow, LeaseEndsWithRun
<1>2. CASE Tick \/ LateTick
  <2>1. Elapse /\ (leaseFaults' = leaseFaults \/ leaseFaults' = leaseFaults + 1) /\ leaseFaults \in Nat
    BY <1>2 DEF Tick, LateTick, LeaseFault, LeaseTypeOK
  <2>2. /\ row'.holder = row.holder /\ row'.token = row.token
        /\ row'.left > 0 => row.left > 0
    BY <1>0, <2>1 DEF Elapse, Down1, LeaseTypeOK
  <2>3. \A r \in Replicas : run'[r].phase = run[r].phase /\ run'[r].token = run[r].token
    BY <2>1, TickRun
  <2>4. UNCHANGED <<id, boots, stopping>>
    BY <2>1 DEF Elapse
  <2> QED
    BY <2>1, <2>2, <2>3, <2>4 DEF Ended, HolderKnown, RunOwnsRow, LeaseEndsWithRun
<1>3. ASSUME NEW r \in Replicas, ReplicaStep(r) PROVE Ended'
  <2>0. /\ id[r] \in Nat /\ run[r].token \in Nat
        /\ row'.holder = row.holder \/ row'.holder = id[r]
    BY <1>0, <1>3, RowStep, TakenType DEF LeaseTypeOK, Runs
  <2>1. HolderKnown'
    BY <1>0, <1>3, <2>0, OwnStep DEF HolderKnown, Ended
  <2>2. ASSUME NEW q \in Replicas, q # r, run[q].phase # "down", row' = Taken(id[r])
        PROVE  row'.holder # id[q]
    BY <2>0, <2>2, TakenType DEF IdsDistinct
  <2>3. ASSUME NEW q \in Replicas, run'[q].phase \in {"body", "returned"},
               row'.holder = id'[q]
        PROVE  run'[q].token = row'.token
    <3>1. CASE q # r
      <4>1. run'[q] = run[q] /\ id'[q] = id[q]
        BY <1>3, <3>1, OthersRun
      <4>2. row'.holder = row.holder /\ row'.token = row.token
        BY <1>3, <2>2, <2>3, <3>1, <4>1, RowStep
      <4> QED
        BY <2>3, <4>1, <4>2 DEF Ended, RunOwnsRow
    <3>2. CASE q = r /\ Start(r)
      BY <3>2 DEF Start, LeaseTypeOK
    <3>3. CASE q = r /\ ~Start(r)
      <4>1. /\ run[r].phase \in {"body", "returned"} /\ run'[r].token = run[r].token
            /\ ~AcquireAnswerLost(r) /\ id' = id
        <5>1. run[r].phase \in {"body", "returned"} /\ run'[r].token = run[r].token
          BY <1>3, <2>3, <3>3, InterruptRun, ShutdownRun, ReturnRun, HeartbeatRun, SMTT(30)
          DEF ReplicaStep, HeartbeatStep, EndStep, AcquireAnswerLost, RenewRefused,
              RenewFails, StrayRenew, Release, ReleaseFails, Exit, ReplicaCrash, Ends, Boot,
              Resting, LeaseTypeOK, Return, HeartbeatDue, Renew, Sending
        <5> QED
          BY <1>3, <5>1, OwnStep DEF AcquireAnswerLost, Boot
      <4>2. row'.holder = row.holder /\ row'.token = row.token
        BY <1>3, <3>3, <4>1, RowStep
      <4> QED
        BY <2>3, <3>3, <4>1, <4>2 DEF Ended, RunOwnsRow
    <3> QED
      BY <3>1, <3>2, <3>3
  <2>4. ASSUME NEW q \in Replicas, run'[q].phase = "idle", row'.holder = id'[q],
               row'.left > 0
        PROVE  leaseFaults' > 0 \/ q \in stopping'
    <3>0. leaseFaults \in Nat /\ leaseFaults' \in Nat /\ leaseFaults' >= leaseFaults
      BY <1>3, OwnStep DEF LeaseTypeOK
    <3>1. CASE q # r
      <4>1. run'[q] = run[q] /\ id'[q] = id[q] /\ (q \in stopping => q \in stopping')
        BY <1>3, <3>1, OthersRun, OwnStep
      <4>2. row'.holder = row.holder /\ row.left > 0
        BY <1>3, <2>2, <2>4, <3>1, <4>1, RowStep
      <4> QED
        BY <2>4, <3>0, <4>1, <4>2 DEF Ended, LeaseEndsWithRun
    <3>2. CASE q = r
      <4>1. CASE AcquireAnswerLost(r) \/ ReleaseFails(r)
        BY <3>0, <3>2, <4>1 DEF AcquireAnswerLost, ReleaseFails, CallFails, LeaseFault
      <4>2. CASE StrayRenew(r)
        <5>1. UNCHANGED <<run, id, stopping>> /\ (row' = row \/ (row' = Renewed /\ row.left > 0))
          BY <4>2 DEF StrayRenew, Renewable
        <5>2. Renewed.holder = row.holder
          BY <2>0, RowType
        <5>3. row'.holder = row.holder /\ row.left > 0
          BY <2>4, <5>1, <5>2
        <5>4. /\ run[r].phase = "idle" /\ row.holder = id[r]
              /\ leaseFaults > 0 \/ r \in stopping => leaseFaults' > 0 \/ r \in stopping'
          BY <2>4, <3>0, <3>2, <5>1, <5>3
        <5> QED
          BY <3>2, <5>3, <5>4 DEF Ended, LeaseEndsWithRun
      <4>3. CASE Release(r)
        <5>1. row' = Released(id[r], run[r].token) /\ id' = id /\ run[r].phase = "returned"
          BY <4>3 DEF Release
        <5>2. row.holder = id[r]
          BY <2>0, <2>4, <3>2, <5>1, RowType
        <5>3. run[r].token = row.token
          BY <5>1, <5>2 DEF Ended, RunOwnsRow
        <5>4. row'.left = 0
          BY <5>1, <5>2, <5>3 DEF Released, LeaseTypeOK
        <5> QED
          BY <2>4, <5>4
      <4>4. CASE Boot(r)
        <5>1. id'[r] = boots + 1 /\ row' = row
          BY <4>4 DEF Boot, LeaseTypeOK
        <5>2. row.holder <= boots
          BY DEF Ended, HolderKnown
        <5> QED
          BY <1>0, <2>4, <3>2, <5>1, <5>2
      <4>5. CASE Shutdown(r)
        BY <3>2, <4>5 DEF Shutdown
      <4>6. CASE HeartbeatStep(r) \/ Return(r) \/ Start(r) \/ Exit(r) \/ ReplicaCrash(r)
        <5>1. run'[r].phase # "idle"
          BY <4>6, InterruptRun, ReturnRun, HeartbeatRun
          DEF HeartbeatStep, HeartbeatDue, Renew, RenewRefused, RenewFails, Sending,
              Start, Exit, ReplicaCrash, Ends, Resting, LeaseTypeOK
        <5> QED
          BY <2>4, <3>2, <5>1
      <4> QED
        BY <1>3, <4>1, <4>2, <4>3, <4>4, <4>5, <4>6 DEF ReplicaStep, EndStep
    <3> QED
      BY <3>1, <3>2
  <2>5. RunOwnsRow' /\ LeaseEndsWithRun'
    BY <2>3, <2>4 DEF RunOwnsRow, LeaseEndsWithRun
  <2> QED
    BY <2>1, <2>5 DEF Ended
<1> QED
  BY <1>1, <1>2, <1>3 DEF LeaseNext

(* A run's lease ends with it, whatever renewal of it is still in flight,  *)
(* unless a call failed or the process is shutting down.                   *)
THEOREM RunsEndTheirLease == LeaseSpec => []LeaseEndsWithRun
<1>1. Ended => LeaseEndsWithRun
  BY DEF Ended
<1> QED
  BY <1>1, EndedInit, EndedStep, SafeInvariant, PTL DEF LeaseSpec

-----------------------------------------------------------------------------
(* The refinement of TaskLease.  WriterHolds says what a task has while no *)
(* heartbeat was late; what remains once one was is that a row it still    *)
(* holds outlives its next heartbeat, so that only a LateTick ends it.     *)
WriterOutlived ==
    \A r \in Replicas : Writer(r) =>
        /\ run[r].beat # "stopped"
        /\ row.holder = id[r] /\ row.left > 0 => run[r].slack < row.left

Held == boots <= MaxBoots /\ WriterOutlived

LEMMA HeldInit == LeaseInit => Held
  BY ConstantAssumption DEF LeaseInit, Held, WriterOutlived, Writer, Resting

(* A replica whose process does not hold the row cannot change it, save by *)
(* taking it.                                                              *)
LEMMA NotMine ==
  ASSUME Safe, NEW r \in Replicas, ReplicaStep(r), id[r] # row.holder, row'.holder # id[r]
  PROVE  row' = row
<1> USE DEF Safe
<1>1. id[r] \in Nat /\ run[r].token \in Nat
  BY DEF LeaseTypeOK, Runs
<1>2. ~(Start(r) \/ AcquireAnswerLost(r))
  BY <1>1, TakenType DEF Start, AcquireAnswerLost, Acquire
<1>3. \A t \in Nat : ~Renewable(id[r], t)
  BY DEF Renewable
<1>4. Released(id[r], run[r].token) = row
  BY <1>1, RowType
<1>5. CASE StrayRenew(r)
  BY <1>3, <1>5 DEF StrayRenew, LeaseTypeOK
<1> QED
  BY <1>1, <1>2, <1>3, <1>4, <1>5
  DEF ReplicaStep, HeartbeatStep, EndStep, RenewRefused, RenewFails, Release, ReleaseFails, Exit,
      ReplicaCrash, Ends, Boot, Shutdown, Renew, HeartbeatDue, Return

LEMMA OutlivedStep ==
  ASSUME Timely, Safe, WriterOutlived, [LeaseNext]_leaseVars, IdsDistinct'
  PROVE  WriterOutlived'
<1> USE DEF Safe
<1> DEFINE Outlived(q) ==
             /\ run'[q].beat # "stopped"
             /\ row'.holder = id'[q] /\ row'.left > 0 => run'[q].slack < row'.left
<1> SUFFICES ASSUME NEW q \in Replicas, Writer(q)' PROVE Outlived(q)
  BY DEF WriterOutlived
<1>0. /\ run[q] \in Runs /\ run[q].slack \in 0 .. Heartbeat + Delay
      /\ run[q].token \in Nat /\ id[q] \in Nat /\ row.left \in 0 .. TTL
  BY DEF LeaseTypeOK, Runs
<1>1. CASE UNCHANGED leaseVars
  BY <1>1 DEF leaseVars, Writer, WriterOutlived
<1>2. CASE Elapse
  <2>1. Writer(q)
    BY <1>2, TickRun DEF Writer
  <2>2. /\ run'[q].slack = Down1(run[q].slack) /\ run'[q].beat = run[q].beat
        /\ id'[q] = id[q] /\ row'.holder = row.holder /\ row'.left = Down1(row.left)
    BY <1>2, TickRun DEF Elapse, LeaseTypeOK
  <2>3. /\ run[q].beat # "stopped"
        /\ row.holder = id[q] /\ row.left > 0 => run[q].slack < row.left
    BY <2>1 DEF WriterOutlived
  <2> QED
    BY <1>0, <2>2, <2>3, ConstantAssumption DEF Down1
<1>3. ASSUME NEW r \in Replicas, ReplicaStep(r), r # q PROVE Outlived(q)
  <2>1. run'[q] = run[q] /\ id'[q] = id[q]
    BY <1>3, OthersRun
  <2>2. Writer(q) /\ id[q] # 0
    BY <2>1 DEF Writer, IdsDistinct
  <2>3. /\ run[q].beat # "stopped"
        /\ row.holder = id[q] /\ row.left > 0 => run[q].slack < row.left
    BY <2>2 DEF WriterOutlived
  <2>4. id[r] # id[q] /\ id[r] \in Nat
    BY <1>3, <2>2 DEF IdsDistinct, LeaseTypeOK
  <2>5. ASSUME row'.holder = id[q], row'.left > 0 PROVE row' = row
    <3>1. row.holder = id[q]
      BY <1>3, <2>4, <2>5, RowStep, TakenType
    <3> QED
      BY <1>3, <2>4, <2>5, <3>1, NotMine
  <2> QED
    BY <2>1, <2>3, <2>5
<1>4. CASE ReplicaStep(q)
  <2>1. run'[q].phase = "body" /\ ~run'[q].cancelled
    BY DEF Writer
  <2>2. CASE Start(q)
    <3>1. run'[q].beat = "ticking" /\ run'[q].slack = Heartbeat + Delay /\ row' = Taken(id[q])
      BY <2>2 DEF Start, Acquire, LeaseTypeOK
    <3>2. row'.left = TTL
      BY <1>0, <3>1, TakenType
    <3> QED
      BY <3>1, <3>2 DEF Timely
  <2>3. CASE HeartbeatDue(q)
    <3>1. Writer(q) /\ row' = row /\ id' = id
      BY <2>1, <2>3, HeartbeatRun DEF HeartbeatDue, Writer
    <3>2. run'[q].beat # "stopped" /\ run'[q].slack = run[q].slack
      BY <2>3, HeartbeatRun
    <3> QED
      BY <3>1, <3>2 DEF WriterOutlived
  <2>4. CASE Renew(q)
    <3>1. row'.left = TTL
      BY <1>0, <2>4, RowType DEF Renew
    <3>2. run'[q].slack \in 0 .. Heartbeat + Delay /\ run'[q].beat # "stopped"
      BY <2>4, HeartbeatRun DEF Runs
    <3> QED
      BY <3>1, <3>2, ConstantAssumption DEF Timely
  <2>5. CASE StrayRenew(q)
    <3>1. Writer(q) /\ run' = run /\ id' = id
      BY <2>1, <2>5 DEF StrayRenew, Writer
    <3>2. row' = row \/ row' = Renewed
      BY <2>5 DEF StrayRenew
    <3>3. /\ run[q].beat # "stopped"
          /\ row.holder = id[q] /\ row.left > 0 => run[q].slack < row.left
      BY <3>1 DEF WriterOutlived
    <3>4. Renewed.left = TTL
      BY <1>0, RowType
    <3>5. run[q].slack < TTL
      BY <1>0, ConstantAssumption DEF Timely
    <3> QED
      BY <3>1, <3>2, <3>3, <3>4, <3>5
  <2>6. ~(RenewRefused(q) \/ RenewFails(q))
    BY <2>1, InterruptRun DEF RenewRefused, RenewFails
  <2>7. ~(AcquireAnswerLost(q) \/ Return(q) \/ Release(q) \/ ReleaseFails(q) \/ Exit(q)
          \/ Boot(q) \/ ReplicaCrash(q))
    BY <2>1, ReturnRun DEF AcquireAnswerLost, Release, ReleaseFails, Exit, Boot, ReplicaCrash,
       Ends, Resting, LeaseTypeOK
  <2>8. ~Shutdown(q)
    BY <2>1, ShutdownRun
  <2> QED
    BY <1>4, <2>2, <2>3, <2>4, <2>5, <2>6, <2>7, <2>8
    DEF ReplicaStep, HeartbeatStep, EndStep
<1> QED
  BY <1>1, <1>2, <1>3, <1>4 DEF LeaseNext, Tick, LateTick

LEMMA BootsBounded == Safe /\ boots <= MaxBoots /\ [LeaseNext]_leaseVars => boots' <= MaxBoots
<1> SUFFICES ASSUME Safe, boots <= MaxBoots, [LeaseNext]_leaseVars, boots' # boots
             PROVE  boots' <= MaxBoots
  OBVIOUS
<1>1. PICK r \in Replicas : Boot(r)
  BY DEF leaseVars, LeaseNext, Tick, LateTick, Elapse, ReplicaStep, HeartbeatStep, EndStep, Start,
         AcquireAnswerLost, RenewRefused, RenewFails, StrayRenew, Release, ReleaseFails, Exit,
         ReplicaCrash, Ends, Shutdown, Renew, HeartbeatDue, Return
<1> QED
  BY <1>1, ConstantAssumption DEF Boot, Safe, LeaseTypeOK

LEMMA HeldInvariant == ASSUME Timely PROVE LeaseSpec => [](Safe /\ Ended /\ Held)
<1>1. LeaseInit => Safe /\ Ended /\ Held
  BY TypeInit, EndedInit, HeldInit
<1>2. Safe /\ Ended /\ Held /\ [LeaseNext]_leaseVars => Safe' /\ Ended' /\ Held'
  <2>1. Safe /\ [LeaseNext]_leaseVars => Safe'
    BY TypeStep, IdsStep, RowNewestStep, LateStep DEF Safe
  <2> QED
    BY <2>1, EndedStep, OutlivedStep, BootsBounded DEF Held, Safe
<1> QED
  BY <1>1, <1>2, PTL DEF LeaseSpec

(* What a step does to the set of running processes.                       *)
LEMMA RunnersKept ==
  ASSUME \A q \in Replicas : Writer(q)' <=> Writer(q),
         \A q \in Replicas : Writer(q) => id'[q] = id[q]
  PROVE  runningNow' = runningNow
  BY DEF runningNow

LEMMA RunnerStops ==
  ASSUME Safe, NEW r \in Replicas, Writer(r), ~Writer(r)', id' = id,
         \A q \in Replicas : q # r => run'[q] = run[q]
  PROVE  id[r] \in runningNow /\ runningNow' = runningNow \ {id[r]}
<1>1. \A q \in Replicas : Writer(q) /\ q # r => id[q] # id[r]
  BY DEF Safe, IdsDistinct, Writer
<1>2. \A q \in Replicas : Writer(q)' <=> Writer(q) /\ q # r
  BY DEF Writer
<1> QED
  BY <1>1, <1>2 DEF runningNow

LEMMA RunnerStarts ==
  ASSUME NEW r \in Replicas, Writer(r)', id' = id,
         \A q \in Replicas : q # r => run'[q] = run[q]
  PROVE  runningNow' = runningNow \cup {id[r]}
<1>1. \A q \in Replicas : Writer(q)' <=> Writer(q) \/ q = r
  <2>1. ASSUME NEW q \in Replicas, q # r PROVE Writer(q)' <=> Writer(q)
    BY <2>1 DEF Writer
  <2>2. CASE Writer(r)
    BY <2>1, <2>2
  <2> QED
    BY <2>1
<1> QED
  BY <1>1 DEF runningNow

LEMMA NotRunning ==
  ASSUME Safe, NEW r \in Replicas, run[r].phase # "down", ~Writer(r)
  PROVE  id[r] \notin runningNow
  BY DEF Safe, IdsDistinct, runningNow, Writer

(* A replica that may stop running, with the row as it was or renewed.     *)
LEMMA MayStop ==
  ASSUME Safe, Held, NEW r \in Replicas, ~Writer(r)', id' = id, lates' = lates,
         holderNow' = holderNow, \A q \in Replicas : q # r => run'[q] = run[q]
  PROVE  [Lease!Next]_(Lease!vars)
<1>1. CASE Writer(r)
  <2>1. id[r] \in runningNow /\ runningNow' = runningNow \ {id[r]}
    BY <1>1, RunnerStops
  <2>2. id[r] \in 1 .. MaxBoots
    BY <1>1, ConstantAssumption DEF Writer, Safe, IdsDistinct, LeaseTypeOK, Held
  <2>3. Lease!Stop(id[r])
    BY <2>1 DEF Lease!Stop
  <2> QED
    BY <2>2, <2>3 DEF Lease!Next
<1>2. CASE ~Writer(r)
  <2>1. runningNow' = runningNow
    BY <1>2, RunnersKept DEF Writer
  <2> QED
    BY <2>1 DEF Lease!vars
<1> QED
  BY <1>1, <1>2

LEMMA RowKeptOrRenewed ==
  ASSUME Safe, \/ row' = row
               \/ row' = Renewed /\ row.left > 0
  PROVE  holderNow' = holderNow
<1>1. Renewed.holder = row.holder /\ Renewed.left = TTL
  BY RowType, 0 \in Nat DEF Safe
<1>2. CASE row' = Renewed /\ row.left > 0
  BY <1>1, <1>2, ConstantAssumption DEF holderNow
<1>3. CASE row' = row
  BY <1>3 DEF holderNow
<1> QED
  BY <1>2, <1>3

LEMMA TimeImplementsLease ==
  ASSUME Safe, Held, Tick \/ LateTick
  PROVE  [Lease!Next]_(Lease!vars)
<1>0. row \in [holder : Nat, token : Nat, left : 0 .. TTL] /\ lates \in Nat
  BY DEF Safe, LeaseTypeOK
<1>1. Elapse
  BY DEF Tick, LateTick
<1>2. row'.holder = row.holder /\ row'.left = Down1(row.left) /\ id' = id
  BY <1>0, <1>1 DEF Elapse
<1>3. runningNow' = runningNow
  <2>1. \A q \in Replicas : Writer(q)' <=> Writer(q)
    BY <1>1, TickRun DEF Writer, Safe
  <2> QED
    BY <1>2, <2>1, RunnersKept
<1>4. holderNow' \in {holderNow, 0}
  BY <1>0, <1>2, ConstantAssumption DEF holderNow, Down1
<1>5. CASE LateTick
  BY <1>3, <1>4, <1>5 DEF LateTick, Lease!Lag, Lease!Next
<1>6. CASE Tick /\ holderNow' # holderNow
  <2>1. row.left = 1 /\ holderNow = row.holder
    BY <1>0, <1>2, <1>6, ConstantAssumption DEF holderNow, Down1
  <2>2. ASSUME NEW q \in Replicas, Writer(q), id[q] = row.holder PROVE FALSE
    <3>1. run[q].beat # "stopped" /\ run[q].slack < 1 /\ run[q].slack \in Nat
      BY <2>1, <2>2, ConstantAssumption DEF Held, WriterOutlived, Safe, LeaseTypeOK, Runs
    <3> QED
      BY <1>6, <2>2, <3>1 DEF Tick, Beating, Writer
  <2>3. holderNow \notin runningNow
    BY <2>1, <2>2 DEF runningNow
  <2> QED
    BY <1>3, <1>4, <1>6, <2>3 DEF Tick, Lease!Free, Lease!Next
<1>7. CASE Tick /\ holderNow' = holderNow
  BY <1>3, <1>7 DEF Tick, Lease!vars
<1> QED
  BY <1>5, <1>6, <1>7

LEMMA StepImplementsLease ==
  ASSUME Safe, Ended, Held, [LeaseNext]_leaseVars
  PROVE  [Lease!Next]_(Lease!vars)
<1> USE DEF Safe
<1>1. CASE UNCHANGED leaseVars
  <2>1. UNCHANGED <<holderNow, runningNow, lates>>
    BY <1>1 DEF leaseVars, holderNow, runningNow, Writer
  <2> QED
    BY <2>1 DEF Lease!vars
<1>2. ASSUME NEW r \in Replicas, ReplicaStep(r) PROVE [Lease!Next]_(Lease!vars)
  <2>0. /\ run[r] \in Runs /\ id[r] \in Nat /\ run[r].token \in Nat
        /\ row \in [holder : Nat, token : Nat, left : 0 .. TTL]
    BY DEF LeaseTypeOK, Runs
  <2>1. \A q \in Replicas : q # r => run'[q] = run[q] /\ id'[q] = id[q]
    BY <1>2, OthersRun
  <2>2. CASE Start(r) \/ AcquireAnswerLost(r)
    <3>1. /\ run[r].phase = "idle" /\ Takeable(id[r]) /\ row' = Taken(id[r])
          /\ id' = id /\ lates' = lates
      BY <2>2 DEF Start, AcquireAnswerLost, Acquire
    <3>2. id[r] \in 1 .. MaxBoots /\ id[r] \notin runningNow
      BY <2>0, <3>1, NotRunning, ConstantAssumption DEF IdsDistinct, Held, Writer, LeaseTypeOK
    <3>3. holderNow \in {0, id[r]} /\ holderNow' = id[r]
      BY <2>0, <3>1, TakenType, ConstantAssumption DEF Takeable, holderNow
    <3>4. runningNow' \in {runningNow, runningNow \cup {id[r]}}
      <4>1. CASE Start(r)
        <5>1. Writer(r)'
          BY <4>1 DEF Start, Writer, LeaseTypeOK
        <5> QED
          BY <2>1, <3>1, <5>1, RunnerStarts
      <4>2. CASE AcquireAnswerLost(r)
        <5>1. run' = run
          BY <4>2 DEF AcquireAnswerLost
        <5>2. runningNow' = runningNow
          BY <3>1, <5>1, RunnersKept DEF Writer
        <5> QED
          BY <5>2
      <4> QED
        BY <2>2, <4>1, <4>2
    <3>5. Lease!Take(id[r])
      BY <3>1, <3>2, <3>3, <3>4 DEF Lease!Take
    <3> QED
      BY <3>2, <3>5 DEF Lease!Next
  <2>3. CASE HeartbeatDue(r) \/ Renew(r)
    <3>1. holderNow' = holderNow
      BY <2>3, RowKeptOrRenewed DEF HeartbeatDue, Renew, Renewable
    <3>2. id' = id /\ lates' = lates
      BY <2>3 DEF HeartbeatDue, Renew
    <3>3. Writer(r)' <=> Writer(r)
      BY <2>3, HeartbeatRun DEF Writer
    <3>4. runningNow' = runningNow
      BY <2>1, <3>2, <3>3, RunnersKept DEF Writer
    <3> QED
      BY <3>1, <3>2, <3>4 DEF Lease!vars
  <2>4. CASE RenewRefused(r) \/ RenewFails(r)
    <3>1. holderNow' = holderNow
      BY <2>4, RowKeptOrRenewed DEF RenewRefused, RenewFails, Renewable
    <3>2. id' = id /\ lates' = lates
      BY <2>4 DEF RenewRefused, RenewFails
    <3>3. ~Writer(r)'
      BY <2>4, InterruptRun DEF RenewRefused, RenewFails, Writer
    <3> QED
      BY <2>1, <3>1, <3>2, <3>3, MayStop
  <2>5. CASE Return(r) \/ Shutdown(r) \/ ReplicaCrash(r) \/ Exit(r)
    <3>1. holderNow' = holderNow /\ id' = id /\ lates' = lates
      BY <2>5 DEF Return, Shutdown, ReplicaCrash, Exit, Ends, holderNow
    <3>2. ~Writer(r)'
      BY <2>5, ReturnRun, ShutdownRun
      DEF ReplicaCrash, Exit, Ends, Resting, Writer, LeaseTypeOK
    <3> QED
      BY <2>1, <3>1, <3>2, MayStop
  <2>6. CASE StrayRenew(r)
    <3>1. holderNow' = holderNow
      BY <2>6, RowKeptOrRenewed DEF StrayRenew, Renewable
    <3>2. run' = run /\ id' = id /\ lates' = lates
      BY <2>6 DEF StrayRenew
    <3>3. runningNow' = runningNow
      BY <3>2, RunnersKept DEF Writer
    <3> QED
      BY <3>1, <3>2, <3>3 DEF Lease!vars
  <2>7. CASE Release(r) \/ ReleaseFails(r)
    <3>1. /\ run[r].phase = "returned" /\ id' = id /\ lates' = lates
          /\ row' = row \/ row' = Released(id[r], run[r].token)
      BY <2>7 DEF Release, ReleaseFails
    <3>2. ~Writer(r) /\ ~Writer(r)'
      BY <2>7, <3>1 DEF Release, ReleaseFails, Resting, Writer, LeaseTypeOK
    <3>3. runningNow' = runningNow
      BY <2>1, <3>1, <3>2, RunnersKept DEF Writer
    <3>4. CASE row.holder = id[r] /\ row' # row
      <4>1. row'.left = 0
        BY <2>0, <3>1, <3>4 DEF Released
      <4>2. holderNow \notin runningNow
        <5>1. holderNow \in {0, id[r]} /\ id[r] \notin runningNow
          BY <3>1, <3>2, <3>4, NotRunning DEF holderNow
        <5>2. 0 \notin runningNow
          BY DEF runningNow, Writer, IdsDistinct
        <5> QED
          BY <5>1, <5>2
      <4>3. Lease!Free
        BY <3>1, <3>3, <4>1, <4>2 DEF Lease!Free, holderNow
      <4> QED
        BY <4>3 DEF Lease!Next
    <3>5. CASE row' = row
      BY <3>1, <3>3, <3>5 DEF holderNow, Lease!vars
    <3>6. row.holder = id[r] \/ row' = row
      BY <2>0, <3>1, RowType
    <3> QED
      BY <3>4, <3>5, <3>6
  <2>8. CASE Boot(r)
    <3>1. ~Writer(r) /\ ~Writer(r)'
      BY <2>8 DEF Boot, Resting, Writer, LeaseTypeOK
    <3>2. runningNow' = runningNow
      BY <2>1, <3>1, RunnersKept DEF Writer
    <3> QED
      BY <2>8, <3>2 DEF Boot, holderNow, Lease!vars
  <2> QED
    BY <1>2, <2>2, <2>3, <2>4, <2>5, <2>6, <2>7, <2>8 DEF ReplicaStep, HeartbeatStep, EndStep
<1> QED
  BY <1>1, <1>2, TimeImplementsLease DEF LeaseNext

(* The scheduler's task implements the abstract lease for every number of  *)
(* replicas, starts, crashes, lost answers, shutdowns and late heartbeats: *)
(* a live lease ends under a task that runs by a late heartbeat alone.     *)
THEOREM TaskImplementsLease == ASSUME Timely PROVE LeaseSpec => ImplementsLease
<1>1. LeaseInit => Lease!Init
  BY DEF LeaseInit, Lease!Init, holderNow, runningNow, Writer, Resting
<1>2. Safe /\ Ended /\ Held /\ [LeaseNext]_leaseVars => [Lease!Next]_(Lease!vars)
  BY StepImplementsLease
<1> QED
  BY <1>1, <1>2, HeldInvariant, PTL DEF LeaseSpec, ImplementsLease, Lease!Spec

(* What the lease promises: without a lag only its holder runs.            *)
THEOREM LeaseExcludes == Lease!Spec => []Lease!OnlyHolderRuns
<1> DEFINE Counts == lates \in Nat /\ runningNow \subseteq 1 .. MaxBoots
<1>1. Lease!Init => Counts /\ Lease!OnlyHolderRuns
  BY DEF Lease!Init, Lease!OnlyHolderRuns
<1>2. Counts /\ Lease!OnlyHolderRuns /\ [Lease!Next]_(Lease!vars)
        => Counts' /\ Lease!OnlyHolderRuns'
  <2> SUFFICES ASSUME Counts, Lease!OnlyHolderRuns, [Lease!Next]_(Lease!vars)
               PROVE  Counts' /\ Lease!OnlyHolderRuns'
    OBVIOUS
  <2>1. CASE Lease!Lag
    BY <2>1 DEF Lease!Lag, Lease!OnlyHolderRuns
  <2>2. CASE Lease!Free
    BY <2>2 DEF Lease!Free, Lease!OnlyHolderRuns
  <2>3. ASSUME NEW w \in 1 .. MaxBoots, Lease!Take(w)
        PROVE  Counts' /\ Lease!OnlyHolderRuns'
    BY <2>3 DEF Lease!Take, Lease!OnlyHolderRuns
  <2>4. ASSUME NEW w \in 1 .. MaxBoots, Lease!Stop(w)
        PROVE  Counts' /\ Lease!OnlyHolderRuns'
    BY <2>4 DEF Lease!Stop, Lease!OnlyHolderRuns
  <2>5. CASE UNCHANGED Lease!vars
    BY <2>5 DEF Lease!vars, Lease!OnlyHolderRuns
  <2> QED
    BY <2>1, <2>2, <2>3, <2>4, <2>5 DEF Lease!Next
<1> QED
  BY <1>1, <1>2, PTL DEF Lease!Spec
=============================================================================
