----------------------------- MODULE RulesProofs -----------------------------
(***************************************************************************)
(* Proofs about Aggregator, QuietHours and Failover: for any number of     *)
(* replicas, events, channels, crashes and errors, and any length of a day;*)
(* and that Aggregator implements the abstract EventNotices.               *)
(***************************************************************************)
EXTENDS Aggregator, QuietHours, Failover, FiniteSetTheorems, TLAPS

-----------------------------------------------------------------------------
(* Quiet hours: the row keeps what it was decided from.                    *)

Decided ==
    /\ QuietTypeOK
    /\ ~Before(LocalNow, row.at)
    /\ row.critical => ~row.deferred
    /\ row.deferred => InQuiet(row.under, row.at.minute) /\ row.due = ResumeAt(row.under, row.at)

(* What DecideQuietHours returns is of the row's type and as decided.      *)
LEMMA DecidedRow ==
  ASSUME NEW q \in Configs, NEW critical \in BOOLEAN, NEW t \in Instants
  PROVE  LET d == DecideQuietHours(q, critical, t) IN
         /\ d \in [deferred : BOOLEAN, critical : BOOLEAN, under : Configs,
                   at : Instants, due : Instants]
         /\ d.at = t
         /\ d.critical => ~d.deferred
         /\ d.deferred => InQuiet(d.under, d.at.minute) /\ d.due = ResumeAt(d.under, d.at)
<1>1. Deferring(q, critical, t) \in BOOLEAN
  BY DEF Deferring, InQuiet
<1>2. ResumeAt(q, t) \in Instants
  BY QuietHoursAssumption DEF ResumeAt, At, Instants, Configs, Minutes
<1> QED
  BY <1>1, <1>2 DEF DecideQuietHours, Deferring

LEMMA QuietBase == QuietInit => Decided
<1> SUFFICES ASSUME QuietInit PROVE Decided
  OBVIOUS
<1>1. LocalNow \in Instants
  BY QuietHoursAssumption DEF QuietInit, LocalNow, At, Instants, Minutes
<1>2. row = DecideQuietHours(quiet, TRUE, LocalNow) /\ quiet \in Configs
  BY DEF QuietInit
<1>3. ~Before(LocalNow, LocalNow)
  BY QuietHoursAssumption DEF QuietInit, LocalNow, At, Before
<1>4. day \in 0..LastDay /\ minute \in Minutes
  BY QuietHoursAssumption DEF QuietInit, Minutes
<1> QED
  BY <1>1, <1>2, <1>3, <1>4, DecidedRow DEF Decided, QuietTypeOK

(* Time only grows later than the row; a new row is as of now.             *)
LEMMA QuietStep == Decided /\ [QuietNext]_quietVars => Decided'
<1> SUFFICES ASSUME Decided, [QuietNext]_quietVars PROVE Decided'
  OBVIOUS
<1>0. LocalNow \in Instants
  BY QuietHoursAssumption DEF Decided, QuietTypeOK, LocalNow, At, Instants, Minutes
<1>1. CASE WriteRow
  <2>1. LocalNow' = LocalNow
    BY <1>1 DEF WriteRow, LocalNow
  <2>2. ~Before(LocalNow, LocalNow)
    BY DEF LocalNow, At, Before, Decided, QuietTypeOK, Minutes
  <2> QED
    BY <1>0, <1>1, <2>1, <2>2, DecidedRow DEF WriteRow, Decided, QuietTypeOK
<1>2. CASE SaveQuietHours
  BY <1>2 DEF SaveQuietHours, Decided, QuietTypeOK, LocalNow
<1>3. CASE MinutePasses
  <2>1. day' \in 0..LastDay /\ minute' \in Minutes /\ row' = row /\ quiet' = quiet
    BY <1>3, QuietHoursAssumption DEF MinutePasses, Decided, QuietTypeOK, Minutes
  <2>2. ~Before(LocalNow, row.at)'
    BY <1>3, QuietHoursAssumption
    DEF MinutePasses, Decided, QuietTypeOK, LocalNow, At, Before, Instants, Minutes
  <2> QED
    BY <2>1, <2>2 DEF Decided, QuietTypeOK
<1>4. CASE UNCHANGED quietVars
  BY <1>4 DEF quietVars, Decided, QuietTypeOK, LocalNow
<1> QED
  BY <1>1, <1>2, <1>3, <1>4 DEF QuietNext

THEOREM QuietInductive == QuietSpec => []Decided
  BY QuietBase, QuietStep, PTL DEF QuietSpec

(* A row held back is due later than it was written, at the first minute   *)
(* outside the window it was held back for (EvaluateQuietHours in          *)
(* rules/quiet_hours.go), and a critical alert never waits.                *)
THEOREM DeferredExactlyAlways == QuietSpec => []DeferredExactly
<1>1. Decided => DeferredExactly
  BY QuietHoursAssumption
  DEF Decided, DeferredExactly, QuietTypeOK, Before, LocalNow, At, InQuiet, ResumeAt,
      Configs, Instants, Minutes
<1> QED
  BY <1>1, QuietInductive, PTL

-----------------------------------------------------------------------------
(* Channel failover: a row being sent has a worker and a channel, and the  *)
(* attempts of a row stay below what losses have added to its limit.       *)

Sent(i) == holder[i] \in Workers /\ effective[i] \in Targets

AttemptsLeft(i) ==
    /\ tries[i] <= MaxAttempts + losses
    /\ state[i] = "pending" => tries[i] < MaxAttempts + losses

FailoverInv ==
    /\ FailoverTypeOK
    /\ \A i \in Items : AttemptsLeft(i) /\ (state[i] = "sending" => Sent(i))

LEMMA ResolvedTarget ==
  ASSUME NEW w \in Workers, NEW p \in Targets
  PROVE  Resolved(w, p) \in Targets
<1> DEFINE Walks == [at : Targets, seen : SUBSET (Targets \cup {Nobody})]
<1>1. ASSUME NEW walk \in Walks PROVE Hop(w, walk) \in Walks
  BY <1>1, FailoverAssumption DEF Hop
<1>2. [at |-> p, seen |-> {p}] \in Walks
  OBVIOUS
<1> HIDE DEF Walks
<1>3. Hop(w, Hop(w, Hop(w, [at |-> p, seen |-> {p}]))) \in Walks
  BY <1>1, <1>2
<1> QED
  BY <1>3 DEF Walks, Resolved

LEMMA FailoverBase == FailoverInit => FailoverInv
  BY FailoverAssumption
  DEF FailoverInit, FailoverInv, FailoverTypeOK, AttemptsLeft

LEMMA FailoverStep == FailoverInv /\ [FailoverNext]_failoverVars => FailoverInv'
<1> SUFFICES ASSUME FailoverInv, [FailoverNext]_failoverVars PROVE FailoverInv'
  OBVIOUS
<1> USE FailoverAssumption DEF FailoverInv, FailoverTypeOK, AttemptsLeft, Sent
<1>1. ASSUME NEW w \in Workers, NEW i \in Items, Claim(w, i) PROVE FailoverInv'
  <2>1. Resolved(w, primary[i]) \in Targets
    BY ResolvedTarget
  <2> QED
    BY <1>1, <2>1 DEF Claim, Claimed
<1>2. ASSUME NEW i \in Items, Delivered(i) PROVE FailoverInv'
  BY <1>2 DEF Delivered, Settle, RecordSuccess
<1>3. ASSUME NEW i \in Items, Refused(i) PROVE FailoverInv'
  BY <1>3 DEF Refused, Unsent, Settle, RecordFailure, Counted
<1>4. ASSUME NEW i \in Items, MarkLost(i) PROVE FailoverInv'
  BY <1>4 DEF MarkLost, Settle, Loss, Troubled
<1>5. ASSUME NEW i \in Items, NewRow(i) PROVE FailoverInv'
  BY <1>5 DEF NewRow
<1>6. ASSUME NEW c \in Targets, Outage(c) \/ Recovery(c) PROVE FailoverInv'
  BY <1>6 DEF Outage, Recovery, Troubled
<1>7. ASSUME NEW w \in Workers, Restart(w) PROVE FailoverInv'
  BY <1>7 DEF Restart, Loss, Troubled
<1>8. CASE UNCHANGED failoverVars
  BY <1>8 DEF failoverVars
<1>9. ASSUME NEW w \in Workers, NEW i \in Items, LookupFails(w, i) PROVE FailoverInv'
  BY <1>9 DEF LookupFails, Claimed, Troubled
<1>10. ASSUME NEW w \in Workers, NEW i \in Items, ChannelUnread(w, i) PROVE FailoverInv'
  BY <1>10 DEF ChannelUnread, Counted, Troubled
<1>11. ASSUME NEW i \in Items, RefusalLost(i) PROVE FailoverInv'
  BY <1>11 DEF RefusalLost, Unsent, Settle, RecordFailure, Counted, Loss, Troubled
<1> QED
  BY <1>1, <1>2, <1>3, <1>4, <1>5, <1>6, <1>7, <1>8, <1>9, <1>10, <1>11 DEF FailoverNext, Deliver

(* Every variable of the failover keeps its type: a row in flight has one  *)
(* worker and one channel, and no row is tried more often than its limit   *)
(* and the losses allow (deliver and handleFailure in notify/worker.go).   *)
THEOREM FailoverTypeCorrect == FailoverSpec => []FailoverTypeOK
<1>1. FailoverInv => FailoverTypeOK
  BY DEF FailoverInv
<1> QED
  BY <1>1, FailoverBase, FailoverStep, PTL DEF FailoverSpec

-----------------------------------------------------------------------------
(* A row outlives an outage.  The attempts of a row are paid for: by what  *)
(* each process has counted against its channel while that is down, by     *)
(* MaxFailures of every process for each recovery, by the losses and the   *)
(* failed reads, and, on its way, by the count or the fallback it will     *)
(* come to.                                                                *)

Tallied(p) == {x \in Workers \X (1..MaxFailures) : x[2] <= health[x[1]][p]}
Tally(p) == IF p \in up THEN 0 ELSE Cardinality(Tallied(p))
Granted == losses + unrouted + MaxFailures * (losses + recoveries * Cardinality(Workers))
OnItsWay(i) ==
    IF /\ holder[i] # Nobody
       /\ \/ effective[i] # primary[i]
          \/ primary[i] \in up
          \/ health[holder[i]][primary[i]] < MaxFailures
    THEN 1 ELSE 0

Paid(i) ==
    state[i] \in {"pending", "sending"} /\ i \notin fellBack /\ primary[i] \notin Misconfigured =>
        tries[i] <= Granted + Tally(primary[i]) + OnItsWay(i)

HeldIfSending ==
    \A i \in Items : RouteMap[primary[i]] # Nobody /\ (holder[i] # Nobody <=> state[i] = "sending")

DivertedIInv == FailoverInv /\ HeldIfSending /\ (\A i \in Items : Paid(i)) /\ DivertedInTime

(* A failing channel with a fallback is not the one resolved.              *)
LEMMA ResolvedLeaves ==
    ASSUME NEW w \in Workers, NEW p \in Targets, Failing(w, p), RouteMap[p] # Nobody
    PROVE  Resolved(w, p) # p
<1>1. ASSUME NEW walk, p \in walk.seen, walk.at # p
      PROVE  p \in Hop(w, walk).seen /\ Hop(w, walk).at # p
  BY <1>1 DEF Hop
<1> DEFINE start == [at |-> p, seen |-> {p}]
<1>2. p \in Hop(w, start).seen /\ Hop(w, start).at # p
  BY FailoverAssumption DEF Hop
<1> HIDE DEF start
<1>3. p \in Hop(w, Hop(w, start)).seen /\ Hop(w, Hop(w, start)).at # p
  BY <1>1, <1>2
<1>4. Hop(w, Hop(w, Hop(w, start))).at # p
  BY <1>1, <1>3
<1> QED
  BY <1>4 DEF Resolved, start

LEMMA FailoverNumbers ==
    ASSUME FailoverInv
    PROVE  /\ MaxFailures \in Nat \ {0} /\ MaxAttempts \in Nat
           /\ Cardinality(Workers) \in Nat
           /\ losses \in Nat /\ recoveries \in Nat /\ unrouted \in Nat
           /\ recoveries * Cardinality(Workers) \in Nat
           /\ MaxFailures * Cardinality(Workers) \in Nat
           /\ Granted \in Nat
           /\ \A i \in Items : tries[i] \in Nat /\ OnItsWay(i) \in {0, 1}
<1>1. MaxFailures \in Nat \ {0} /\ MaxAttempts \in Nat /\ Cardinality(Workers) \in Nat
  BY FailoverAssumption, FS_CardinalityType
<1>2. losses \in Nat /\ recoveries \in Nat /\ unrouted \in Nat /\ \A i \in Items : tries[i] \in Nat
  BY FailoverAssumption DEF FailoverInv, FailoverTypeOK
<1>3. recoveries * Cardinality(Workers) \in Nat /\ MaxFailures * Cardinality(Workers) \in Nat
  BY <1>1, <1>2
<1>4. losses + recoveries * Cardinality(Workers) \in Nat
  BY <1>2, <1>3
<1>5. Granted \in Nat
  <2> DEFINE n == losses + recoveries * Cardinality(Workers)
  <2>1. n \in Nat
    BY <1>4
  <2> HIDE DEF n
  <2>2. losses + unrouted + MaxFailures * n \in Nat
    BY <1>1, <1>2, <2>1
  <2> QED
    BY <2>2 DEF Granted, n
<1>6. \A i \in Items : OnItsWay(i) \in {0, 1}
  BY DEF OnItsWay
<1> QED
  BY <1>1, <1>2, <1>3, <1>5, <1>6

(* What a loss, a recovery, or a failed read adds.                         *)
LEMMA GrantedMore ==
    ASSUME FailoverInv
    PROVE  /\ losses' = losses + 1 /\ recoveries' = recoveries /\ unrouted' = unrouted =>
                  Granted' = Granted + 1 + MaxFailures
           /\ losses' = losses /\ recoveries' = recoveries + 1 /\ unrouted' = unrouted =>
                  Granted' = Granted + MaxFailures * Cardinality(Workers)
           /\ losses' = losses /\ recoveries' = recoveries /\ unrouted' = unrouted + 1 =>
                  Granted' = Granted + 1
           /\ losses' = losses /\ recoveries' = recoveries /\ unrouted' = unrouted =>
                  Granted' = Granted
<1> DEFINE W == Cardinality(Workers)
           n == losses + recoveries * W
<1>1. /\ MaxFailures \in Nat /\ W \in Nat /\ losses \in Nat /\ recoveries \in Nat
      /\ recoveries * W \in Nat /\ unrouted \in Nat
  BY FailoverNumbers
<1>2. n \in Nat /\ (n + 1) * MaxFailures = n * MaxFailures + MaxFailures
  BY <1>1
<1>3. (recoveries + 1) * W = recoveries * W + W
  BY <1>1
<1>4. MaxFailures * (n + W) = MaxFailures * n + MaxFailures * W /\ MaxFailures * (n + 1) = MaxFailures * n + MaxFailures
  BY <1>1, <1>2
<1>5. MaxFailures * n \in Nat /\ MaxFailures * W \in Nat
  BY <1>1, <1>2
<1>6. Granted = losses + unrouted + MaxFailures * n
  BY DEF Granted
<1>7. ASSUME losses' = losses + 1, recoveries' = recoveries, unrouted' = unrouted
      PROVE  Granted' = Granted + 1 + MaxFailures
  <2>1. Granted' = (losses + 1) + unrouted + MaxFailures * ((losses + 1) + recoveries * W)
    BY <1>7 DEF Granted
  <2>2. (losses + 1) + recoveries * W = n + 1
    BY <1>1
  <2>3. Granted' = (losses + 1) + unrouted + MaxFailures * (n + 1)
    BY <2>1, <2>2
  <2> HIDE DEF n, W
  <2> QED
    BY <1>1, <1>4, <1>5, <1>6, <2>3
<1>8. ASSUME losses' = losses, recoveries' = recoveries + 1, unrouted' = unrouted
      PROVE  Granted' = Granted + MaxFailures * W
  <2>1. Granted' = losses + unrouted + MaxFailures * (losses + (recoveries + 1) * W)
    BY <1>8 DEF Granted
  <2>2. losses + (recoveries + 1) * W = n + W
    BY <1>1, <1>3
  <2>3. Granted' = losses + unrouted + MaxFailures * (n + W)
    BY <2>1, <2>2
  <2> HIDE DEF n, W
  <2> QED
    BY <1>1, <1>4, <1>5, <1>6, <2>3
<1>9. ASSUME losses' = losses, recoveries' = recoveries, unrouted' = unrouted + 1
      PROVE  Granted' = Granted + 1
  <2>1. Granted' = losses + (unrouted + 1) + MaxFailures * n
    BY <1>9 DEF Granted
  <2> HIDE DEF n, W
  <2> QED
    BY <1>1, <1>5, <1>6, <2>1
<1>10. losses' = losses /\ recoveries' = recoveries /\ unrouted' = unrouted => Granted' = Granted
  BY DEF Granted
<1> QED
  BY <1>7, <1>8, <1>9, <1>10

LEMMA DivertedBound ==
    ASSUME FailoverInv
    PROVE  losses + unrouted + MaxFailures * (losses + (recoveries + 1) * Cardinality(Workers))
           = Granted + MaxFailures * Cardinality(Workers)
<1> DEFINE W == Cardinality(Workers)
           n == losses + recoveries * W
           extra == losses + unrouted
<1>1. /\ MaxFailures \in Nat /\ W \in Nat /\ losses \in Nat /\ recoveries \in Nat
      /\ recoveries * W \in Nat /\ extra \in Nat
  BY FailoverNumbers
<1>2. losses + (recoveries + 1) * W = n + W /\ n \in Nat
  BY <1>1
<1>3. MaxFailures * (n + W) = MaxFailures * n + MaxFailures * W
  BY <1>1, <1>2
<1>4. extra + MaxFailures * (losses + (recoveries + 1) * W) = extra + MaxFailures * (n + W)
  BY <1>2
<1>5. MaxFailures * n \in Nat /\ MaxFailures * W \in Nat /\ Granted = extra + MaxFailures * n
  BY <1>1, <1>2 DEF Granted
<1> HIDE DEF n, extra
<1>6. extra + MaxFailures * (losses + (recoveries + 1) * W) = Granted + MaxFailures * W
  BY <1>1, <1>3, <1>4, <1>5
<1> QED
  BY <1>6 DEF extra

LEMMA CountsOfOne ==
    IsFiniteSet(1..MaxFailures) /\ Cardinality(1..MaxFailures) = MaxFailures
<1>1. 1 \in Int /\ MaxFailures \in Int /\ ~(1 > MaxFailures) /\ MaxFailures - 1 + 1 = MaxFailures
  BY FailoverAssumption
<1>2. /\ IsFiniteSet(1..MaxFailures)
      /\ Cardinality(1..MaxFailures) = IF 1 > MaxFailures THEN 0 ELSE MaxFailures - 1 + 1
  BY <1>1, FS_Interval, ZenonT(30)
<1> QED
  BY <1>1, <1>2

LEMMA CountedBounded ==
    ASSUME NEW S \in SUBSET (Workers \X (1..MaxFailures))
    PROVE  /\ IsFiniteSet(S) /\ Cardinality(S) \in Nat
           /\ Cardinality(S) <= MaxFailures * Cardinality(Workers)
<1>1. IsFiniteSet(Workers) /\ Cardinality(Workers) \in Nat /\ MaxFailures \in Nat \ {0}
  BY FailoverAssumption, FS_CardinalityType
<1>2. IsFiniteSet(1..MaxFailures) /\ Cardinality(1..MaxFailures) = MaxFailures
  BY CountsOfOne
<1>3. /\ IsFiniteSet(Workers \X (1..MaxFailures))
      /\ Cardinality(Workers \X (1..MaxFailures)) = Cardinality(Workers) * MaxFailures
  BY <1>1, <1>2, FS_Product
<1>4. IsFiniteSet(S) /\ Cardinality(S) <= Cardinality(Workers) * MaxFailures
  BY <1>3, FS_Subset
<1>5. Cardinality(S) \in Nat
  BY <1>4, FS_CardinalityType
<1>6. Cardinality(Workers) * MaxFailures = MaxFailures * Cardinality(Workers)
  BY <1>1
<1> QED
  BY <1>4, <1>5, <1>6

LEMMA TallyIn ==
    ASSUME NEW p
    PROVE  /\ Tally(p) \in Nat /\ Tally(p) <= MaxFailures * Cardinality(Workers)
           /\ Tally(p)' \in Nat /\ Tally(p)' <= MaxFailures * Cardinality(Workers)
<1>1. /\ Tallied(p) \in SUBSET (Workers \X (1..MaxFailures))
      /\ Tallied(p)' \in SUBSET (Workers \X (1..MaxFailures))
  BY DEF Tallied
<1>2. MaxFailures * Cardinality(Workers) \in Nat
  BY FailoverAssumption, FS_CardinalityType
<1>3. Cardinality(Tallied(p)) \in Nat /\ Cardinality(Tallied(p)) <= MaxFailures * Cardinality(Workers)
  BY <1>1, CountedBounded
<1>4. Cardinality(Tallied(p)') \in Nat /\ Cardinality(Tallied(p)') <= MaxFailures * Cardinality(Workers)
  BY <1>1, CountedBounded
<1> QED
  BY <1>2, <1>3, <1>4 DEF Tally

LEMMA TallySame ==
    ASSUME NEW p, p \in up <=> p \in up', \A w \in Workers : p \notin up => health'[w][p] = health[w][p]
    PROVE  Tally(p)' = Tally(p)
<1>1. CASE p \in up
  BY <1>1 DEF Tally
<1>2. CASE p \notin up
  <2>1. Tallied(p)' = Tallied(p)
    BY <1>2 DEF Tallied
  <2> QED
    BY <1>2, <2>1 DEF Tally
<1> QED
  BY <1>1, <1>2

LEMMA TallyGrows ==
    ASSUME FailoverInv, FailoverInv', NEW p \in Targets, up' = up,
           \A v \in Workers : health[v][p] <= health'[v][p]
    PROVE  Tally(p) <= Tally(p)'
<1>1. /\ health \in [Workers -> [Targets -> 0..MaxFailures]] /\ MaxFailures \in Nat
      /\ health' \in [Workers -> [Targets -> 0..MaxFailures]]
  BY FailoverAssumption DEF FailoverInv, FailoverTypeOK
<1>2. Tallied(p) \subseteq Tallied(p)'
  <2> SUFFICES ASSUME NEW y \in Tallied(p) PROVE y \in Tallied(p)'
    OBVIOUS
  <2>1. /\ y \in Workers \X (1..MaxFailures) /\ y[1] \in Workers /\ y[2] \in 1..MaxFailures
        /\ y[2] <= health[y[1]][p]
    BY DEF Tallied
  <2>2. /\ health[y[1]][p] \in 0..MaxFailures /\ health'[y[1]][p] \in 0..MaxFailures
        /\ health[y[1]][p] <= health'[y[1]][p]
    BY <1>1, <2>1
  <2>3. y[2] <= health'[y[1]][p]
    BY <1>1, <2>1, <2>2
  <2> QED
    BY <2>1, <2>3 DEF Tallied
<1>3. Tallied(p)' \in SUBSET (Workers \X (1..MaxFailures))
  BY DEF Tallied
<1>4. IsFiniteSet(Tallied(p)')
  BY <1>3, CountedBounded
<1>5. Cardinality(Tallied(p)) <= Cardinality(Tallied(p)')
  BY <1>2, <1>4, FS_Subset
<1> QED
  BY <1>5 DEF Tally

(* A row that an action leaves where it is stays paid for, and a row that  *)
(* was given up stays given up in time, when the budget does not shrink.   *)
StaysPut(i) ==
    /\ state'[i] \in {"pending", "sending"} => state[i] \in {"pending", "sending"}
    /\ i \notin fellBack' => i \notin fellBack
    /\ tries'[i] = tries[i]

LEMMA PaidKept ==
    ASSUME FailoverInv, FailoverInv', primary' = primary, NEW i \in Items, Paid(i),
           StaysPut(i), NEW p, p = primary[i],
           i \notin fellBack' /\ p \notin Misconfigured =>
               Granted + Tally(p) + OnItsWay(i) <= Granted' + Tally(p)' + OnItsWay(i)'
    PROVE  Paid(i)'
<1>1. /\ tries[i] \in Nat /\ Granted \in Nat /\ Tally(p) \in Nat /\ OnItsWay(i) \in {0, 1}
  BY FailoverNumbers, TallyIn
<1>2. Tally(p)' \in Nat /\ OnItsWay(i)' \in {0, 1} /\ tries'[i] = tries[i]
  BY TallyIn DEF OnItsWay, StaysPut
<1>3. Granted' \in Nat
  <2>1. /\ losses' \in Nat /\ recoveries' \in Nat /\ unrouted' \in Nat
        /\ MaxFailures \in Nat /\ Cardinality(Workers) \in Nat
    BY FailoverAssumption, FS_CardinalityType DEF FailoverInv, FailoverTypeOK
  <2> DEFINE m == losses' + recoveries' * Cardinality(Workers)
  <2>2. m \in Nat
    BY <2>1
  <2> HIDE DEF m
  <2>3. MaxFailures * m \in Nat
    BY <2>1, <2>2
  <2>4. Granted' = losses' + unrouted' + MaxFailures * m
    BY DEF Granted, m
  <2> QED
    BY <2>1, <2>3, <2>4
<1>4. SUFFICES ASSUME state'[i] \in {"pending", "sending"}, i \notin fellBack', p \notin Misconfigured
               PROVE  tries'[i] <= Granted' + Tally(p)' + OnItsWay(i)'
  <2>1. Tally(primary[i])' = Tally(p)'
    BY DEF Tally, Tallied
  <2> QED
    BY <2>1 DEF Paid
<1>5. tries[i] <= Granted + Tally(p) + OnItsWay(i)
  BY <1>4 DEF Paid, StaysPut
<1>6. Granted + Tally(p) + OnItsWay(i) <= Granted' + Tally(p)' + OnItsWay(i)'
  BY <1>4
<1> QED
  BY <1>1, <1>2, <1>3, <1>5, <1>6

LEMMA UnsentPaid ==
    ASSUME DivertedIInv, FailoverInv', NEW i \in Items, NEW to, Unsent(i, to),
           NEW j \in Items,
           NEW p, p = primary[j], p \notin Misconfigured, j \notin fellBack'
    PROVE  Tally(p) + OnItsWay(j) <= Tally(p)' + OnItsWay(j)'
<1> DEFINE w == holder[i]
           c == effective[i]
<1>1. /\ w \in Workers /\ c \in Targets /\ c \notin up \ Misconfigured
      /\ p \in Targets /\ MaxFailures \in Nat \ {0}
      /\ health \in [Workers -> [Targets -> 0..MaxFailures]]
      /\ holder \in [Items -> Workers \cup {Nobody}] /\ effective \in [Items -> Targets \cup {Nobody}]
  BY FailoverAssumption DEF DivertedIInv, FailoverInv, FailoverTypeOK, Unsent, Sent
<1>2. /\ up' = up /\ primary' = primary
      /\ health' = [health EXCEPT ![w][c] = IF @ < MaxFailures THEN @ + 1 ELSE @]
      /\ holder' = [holder EXCEPT ![i] = Nobody] /\ effective' = [effective EXCEPT ![i] = Nobody]
  BY DEF Unsent, RecordFailure, Counted, Settle
<1>3. j = i => c = p
  BY <1>2 DEF Unsent
<1>5. OnItsWay(j) \in {0, 1} /\ OnItsWay(j)' \in {0, 1}
  BY DEF OnItsWay
<1>6. Tally(p) \in Nat /\ Tally(p)' \in Nat
  BY TallyIn
<1>7. CASE p # c
  <2>1. \A v \in Workers : health'[v][p] = health[v][p]
    BY <1>1, <1>2, <1>7
  <2>2. Tally(p)' = Tally(p)
    BY <2>1, <1>2, TallySame
  <2>3. OnItsWay(j)' = OnItsWay(j)
    <3>1. holder'[j] = holder[j] /\ effective'[j] = effective[j]
      BY <1>1, <1>2, <1>3, <1>7
    <3>2. holder[j] # Nobody => health'[holder[j]][p] = health[holder[j]][p]
      BY <1>1, <2>1
    <3> QED
      BY <1>2, <3>1, <3>2 DEF OnItsWay
  <2> QED
    BY <2>2, <2>3, <1>5, <1>6
<1>8. CASE p = c /\ health[w][c] < MaxFailures
  <2> DEFINE x == <<w, health[w][c] + 1>>
  <2>1. p \notin up /\ p \notin up'
    BY <1>1, <1>2, <1>8
  <2>2. health[w][c] \in 0..MaxFailures /\ health'[w][c] = health[w][c] + 1
    BY <1>1, <1>2, <1>8
  <2>3. x \in Workers \X (1..MaxFailures) /\ x \notin Tallied(p) /\ x \in Tallied(p)'
    BY <1>1, <1>8, <2>2 DEF Tallied
  <2>4. \A v \in Workers : health[v][p] <= health'[v][p]
    <3> TAKE v \in Workers
    <3>1. health[v][p] \in Nat
      BY <1>1
    <3>2. CASE v = w
      BY <1>1, <1>8, <2>2, <3>1, <3>2
    <3>3. CASE v # w
      <4>1. health'[v] = health[v]
        BY <1>1, <1>2, <3>3
      <4> QED
        BY <3>1, <4>1
    <3> QED
      BY <3>2, <3>3
  <2>5. Tallied(p) \cup {x} \subseteq Tallied(p)'
    <3> SUFFICES ASSUME NEW y \in Tallied(p) PROVE y \in Tallied(p)'
      BY <2>3
    <3>1. /\ y \in Workers \X (1..MaxFailures) /\ y[1] \in Workers /\ y[2] \in 1..MaxFailures
          /\ y[2] <= health[y[1]][p]
      BY DEF Tallied
    <3>2. health[y[1]][p] \in 0..MaxFailures /\ health'[y[1]][p] \in 0..MaxFailures
      BY <1>1, <3>1 DEF FailoverInv, FailoverTypeOK
    <3>3. y[2] \in Nat /\ health[y[1]][p] <= health'[y[1]][p]
      BY <1>1, <2>4, <3>1
    <3>4. y[2] <= health'[y[1]][p]
      BY <3>1, <3>2, <3>3
    <3> QED
      BY <3>1, <3>4 DEF Tallied
  <2>6. /\ Tallied(p) \in SUBSET (Workers \X (1..MaxFailures))
        /\ Tallied(p)' \in SUBSET (Workers \X (1..MaxFailures))
    BY DEF Tallied
  <2>7. IsFiniteSet(Tallied(p)) /\ IsFiniteSet(Tallied(p)')
    BY <2>6, CountedBounded
  <2>8. /\ IsFiniteSet(Tallied(p) \cup {x})
        /\ Cardinality(Tallied(p) \cup {x}) = Cardinality(Tallied(p)) + 1
    BY <2>3, <2>7, FS_AddElement
  <2>9. Cardinality(Tallied(p) \cup {x}) <= Cardinality(Tallied(p)')
    BY <2>5, <2>7, FS_Subset
  <2>10. Tally(p) = Cardinality(Tallied(p)) /\ Tally(p)' = Cardinality(Tallied(p)')
    BY <2>1 DEF Tally
  <2>11. Tally(p) + 1 <= Tally(p)'
    BY <1>6, <2>8, <2>9, <2>10
  <2> QED
    BY <1>5, <1>6, <2>11
<1>9. CASE p = c /\ ~(health[w][c] < MaxFailures)
  <2>1. p \notin up /\ p \notin up'
    BY <1>1, <1>2, <1>9
  <2>2. health' = health
    BY <1>1, <1>2, <1>9
  <2>3. Tally(p)' = Tally(p)
    BY <2>2, <1>2, TallySame
  <2>4. j # i => OnItsWay(j)' = OnItsWay(j)
    BY <1>1, <1>2, <2>2 DEF OnItsWay
  <2>5. j = i => OnItsWay(j) = 0
    BY <1>1, <1>9, <2>1 DEF OnItsWay
  <2> QED
    BY <1>5, <1>6, <2>3, <2>4, <2>5
<1> QED
  BY <1>7, <1>8, <1>9

(* A failure counted without a message sent: no row that is on its way     *)
(* there by the same process is touched, there is none.                    *)
LEMMA UnreadPaid ==
    ASSUME DivertedIInv, FailoverInv', NEW w \in Workers, NEW i \in Items, ChannelUnread(w, i),
           NEW j \in Items, NEW p, p = primary[j]
    PROVE  Tally(p) <= Tally(p)' /\ OnItsWay(j)' = OnItsWay(j)
<1> DEFINE c == primary[i]
<1>1. /\ p \in Targets /\ c \in Targets /\ MaxFailures \in Nat \ {0}
      /\ health \in [Workers -> [Targets -> 0..MaxFailures]]
      /\ holder \in [Items -> Workers \cup {Nobody}]
  BY FailoverAssumption DEF DivertedIInv, FailoverInv, FailoverTypeOK
<1>2. /\ UNCHANGED <<primary, up, holder, effective>> /\ ~(holder[j] = w /\ p = c)
      /\ health' = [health EXCEPT ![w][c] = IF @ < MaxFailures THEN @ + 1 ELSE @]
  BY DEF ChannelUnread, Counted, Busy
<1> HIDE DEF c
<1>3. \A v \in Workers : health[v][p] <= health'[v][p]
  <2> TAKE v \in Workers
  <2>1. health[v][p] \in Nat
    BY <1>1
  <2>2. CASE v = w /\ p = c
    <3>1. health'[v][p] = IF health[v][p] < MaxFailures THEN health[v][p] + 1 ELSE health[v][p]
      BY <1>1, <1>2, <2>2
    <3> QED
      BY <2>1, <3>1
  <2>3. CASE ~(v = w /\ p = c)
    <3>1. health'[v][p] = health[v][p]
      BY <1>1, <1>2, <2>3
    <3> QED
      BY <2>1, <3>1
  <2> QED
    BY <2>2, <2>3
<1>4. Tally(p) <= Tally(p)'
  BY <1>1, <1>2, <1>3, TallyGrows DEF DivertedIInv
<1>5. holder[j] # Nobody => health'[holder[j]][p] = health[holder[j]][p]
  <2> SUFFICES ASSUME holder[j] # Nobody PROVE health'[holder[j]][p] = health[holder[j]][p]
    OBVIOUS
  <2>1. holder[j] \in Workers
    BY <1>1
  <2>2. CASE holder[j] # w
    BY <1>1, <1>2, <2>1, <2>2
  <2>3. CASE p # c
    BY <1>1, <1>2, <2>1, <2>3
  <2> QED
    BY <1>2, <2>2, <2>3
<1>6. OnItsWay(j)' = OnItsWay(j)
  BY <1>2, <1>5 DEF OnItsWay
<1> QED
  BY <1>4, <1>6

LEMMA OutagePaid ==
    ASSUME DivertedIInv, FailoverInv', NEW c \in Targets, Outage(c), NEW j \in Items,
           NEW p, p = primary[j]
    PROVE  Tally(p) + OnItsWay(j) <= Tally(p)' + OnItsWay(j)'
<1>1. /\ p \in Targets /\ MaxFailures \in Nat \ {0}
      /\ health \in [Workers -> [Targets -> 0..MaxFailures]]
      /\ holder \in [Items -> Workers \cup {Nobody}]
  BY FailoverAssumption DEF DivertedIInv, FailoverInv, FailoverTypeOK
<1>2. /\ c \in up /\ up' = up \ {c} /\ UNCHANGED <<primary, health, holder, effective>>
  BY DEF Outage
<1>3. OnItsWay(j) \in {0, 1} /\ OnItsWay(j)' \in {0, 1}
  BY DEF OnItsWay
<1>4. Tally(p) \in Nat /\ Tally(p)' \in Nat
  BY TallyIn
<1>5. CASE p # c
  <2>1. Tally(p)' = Tally(p)
    BY <1>2, <1>5, TallySame
  <2>2. OnItsWay(j)' = OnItsWay(j)
    BY <1>2, <1>5 DEF OnItsWay
  <2> QED
    BY <1>3, <1>4, <2>1, <2>2
<1>6. CASE p = c
  <2>1. Tally(p) = 0
    BY <1>2, <1>6 DEF Tally
  <2>2. CASE OnItsWay(j)' >= OnItsWay(j)
    BY <1>3, <1>4, <2>1, <2>2
  <2>3. CASE ~(OnItsWay(j)' >= OnItsWay(j))
    <3> DEFINE x == <<holder[j], 1>>
    <3>1. OnItsWay(j) = 1 /\ OnItsWay(j)' = 0
      BY <1>3, <2>3
    <3>2. holder[j] \in Workers
      BY <1>1, <3>1 DEF OnItsWay
    <3>3. health[holder[j]][p] \in 0..MaxFailures /\ ~(health[holder[j]][p] < MaxFailures)
      BY <1>1, <1>2, <3>1, <3>2 DEF OnItsWay
    <3>4. x \in Tallied(p)'
      BY <1>1, <1>2, <3>2, <3>3 DEF Tallied
    <3>5. Tallied(p)' \in SUBSET (Workers \X (1..MaxFailures))
      BY DEF Tallied
    <3>6. Cardinality(Tallied(p)') \in Nat /\ IsFiniteSet(Tallied(p)')
      BY <3>5, CountedBounded
    <3>7. Cardinality(Tallied(p)') # 0
      BY <3>4, <3>6, FS_EmptySet
    <3>8. Tally(p)' = Cardinality(Tallied(p)')
      BY <1>2, <1>6 DEF Tally
    <3> QED
      BY <1>3, <1>4, <2>1, <3>6, <3>7, <3>8
  <2> QED
    BY <2>2, <2>3
<1> QED
  BY <1>5, <1>6

(* A restart forgets what one process has counted.                         *)
LEMMA RestartPaid ==
    ASSUME DivertedIInv, FailoverInv', NEW w \in Workers, Restart(w), NEW p \in Targets
    PROVE  Tally(p) <= Tally(p)' + MaxFailures
<1>1. MaxFailures \in Nat \ {0} /\ health \in [Workers -> [Targets -> 0..MaxFailures]]
  BY FailoverAssumption DEF DivertedIInv, FailoverInv, FailoverTypeOK
<1>2. up' = up /\ health' = [health EXCEPT ![w] = [c \in Targets |-> 0]]
  BY DEF Restart
<1>3. Tally(p) \in Nat /\ Tally(p)' \in Nat
  BY TallyIn
<1>4. CASE p \in up
  BY <1>1, <1>3, <1>4 DEF Tally
<1>5. CASE p \notin up
  <2> DEFINE own == {w} \X (1..MaxFailures)
  <2>1. Tallied(p) \subseteq Tallied(p)' \cup own
    <3> SUFFICES ASSUME NEW y \in Tallied(p), y[1] # w PROVE y \in Tallied(p)'
      BY DEF Tallied
    <3>1. y \in Workers \X (1..MaxFailures) /\ y[1] \in Workers /\ y[2] <= health[y[1]][p]
      BY DEF Tallied
    <3>2. health'[y[1]] = health[y[1]]
      BY <1>1, <1>2, <3>1
    <3> QED
      BY <3>1, <3>2 DEF Tallied
  <2>2. Tallied(p)' \in SUBSET (Workers \X (1..MaxFailures))
    BY DEF Tallied
  <2>3. IsFiniteSet(Tallied(p)') /\ Cardinality(Tallied(p)') \in Nat
    BY <2>2, CountedBounded
  <2>4. IsFiniteSet(1..MaxFailures) /\ Cardinality(1..MaxFailures) = MaxFailures
    BY CountsOfOne
  <2>5. IsFiniteSet({w}) /\ Cardinality({w}) = 1
    BY FS_Singleton
  <2>6. IsFiniteSet(own) /\ Cardinality(own) = 1 * MaxFailures
    <3>1. /\ IsFiniteSet(own)
          /\ Cardinality(own) = Cardinality({w}) * Cardinality(1..MaxFailures)
      BY <2>4, <2>5, FS_Product, ZenonT(30)
    <3> HIDE DEF own
    <3> QED
      BY <2>4, <2>5, <3>1
  <2> HIDE DEF own
  <2>7. /\ IsFiniteSet(Tallied(p)' \cup own)
        /\ Cardinality(Tallied(p)' \cup own) =
             Cardinality(Tallied(p)') + Cardinality(own) - Cardinality(Tallied(p)' \cap own)
    BY <2>3, <2>6, FS_Union
  <2>8. Cardinality(Tallied(p)' \cap own) \in Nat
    BY <2>3, FS_Intersection, FS_CardinalityType
  <2>9. Cardinality(Tallied(p)) <= Cardinality(Tallied(p)' \cup own)
    BY <2>1, <2>7, FS_Subset
  <2>10. Tally(p) = Cardinality(Tallied(p)) /\ Tally(p)' = Cardinality(Tallied(p)')
    BY <1>2, <1>5 DEF Tally
  <2> QED
    BY <1>1, <1>3, <2>3, <2>6, <2>7, <2>8, <2>9, <2>10
<1> QED
  BY <1>4, <1>5

(* A row is given up in time: what DivertedInTime allows is what has been  *)
(* granted and MaxFailures more of each process.                           *)
GivenUpInTime ==
    \A i \in Items : state[i] = "dead" /\ i \notin fellBack /\ primary[i] \notin Misconfigured =>
        MaxAttempts <= Granted + MaxFailures * Cardinality(Workers)

LEMMA GivenUpDiverted == FailoverInv => (DivertedInTime <=> GivenUpInTime)
  BY DivertedBound DEF DivertedInTime, GivenUpInTime

LEMMA GivenUpKept ==
    ASSUME FailoverInv, FailoverInv', GivenUpInTime, primary' = primary,
           Granted' \in Nat, Granted <= Granted',
           NEW i \in Items,
           state'[i] = "dead" /\ i \notin fellBack' => state[i] = "dead" /\ i \notin fellBack
    PROVE  state'[i] = "dead" /\ i \notin fellBack' /\ primary[i] \notin Misconfigured =>
               MaxAttempts <= Granted' + MaxFailures * Cardinality(Workers)
<1>1. /\ MaxAttempts \in Nat /\ Granted \in Nat /\ MaxFailures * Cardinality(Workers) \in Nat
  BY FailoverNumbers
<1> QED
  BY <1>1 DEF GivenUpInTime

Budgeted == HeldIfSending /\ (\A i \in Items : Paid(i)) /\ GivenUpInTime

LEMMA BudgetStep ==
    ASSUME DivertedIInv, GivenUpInTime, FailoverInv', [FailoverNext]_failoverVars
    PROVE  Budgeted'
<1>1. /\ primary \in [Items -> Targets] /\ state \in [Items -> {"pending", "sending", "sent", "dead"}]
      /\ tries \in [Items -> Nat] /\ holder \in [Items -> Workers \cup {Nobody}]
      /\ effective \in [Items -> Targets \cup {Nobody}]
      /\ health \in [Workers -> [Targets -> 0..MaxFailures]] /\ MaxFailures \in Nat \ {0}
      /\ Nobody \notin Workers
  BY FailoverAssumption DEF DivertedIInv, FailoverInv, FailoverTypeOK
<1>2. /\ FailoverInv /\ HeldIfSending
      /\ \A i \in Items : Paid(i)
  BY DEF DivertedIInv
<1>3. MaxFailures * Cardinality(Workers) \in Nat /\ Granted \in Nat /\ MaxAttempts \in Nat
  BY <1>2, FailoverNumbers
<1>4. \A i \in Items : OnItsWay(i) \in {0, 1} /\ OnItsWay(i)' \in {0, 1}
  BY DEF OnItsWay
(* What is left to show of an action that keeps the routes and does not    *)
(* take anything back.                                                     *)
<1>5. ASSUME primary' = primary, HeldIfSending', Granted' \in Nat, Granted <= Granted',
             \A i \in Items : StaysPut(i) /\ (state'[i] = "dead" => state[i] = "dead"),
             \A i \in Items, p \in Targets : p = primary[i] /\ i \notin fellBack' /\ p \notin Misconfigured =>
                 Granted + Tally(p) + OnItsWay(i) <= Granted' + Tally(p)' + OnItsWay(i)'
      PROVE  Budgeted'
  <2>1. ASSUME NEW i \in Items PROVE Paid(i)'
    <3>1. PICK p \in Targets : p = primary[i]
      BY <1>1
    <3> QED
      BY <1>2, <1>5, <3>1, PaidKept
  <2>2. ASSUME NEW i \in Items
        PROVE  state'[i] = "dead" /\ i \notin fellBack' /\ primary[i] \notin Misconfigured =>
                   MaxAttempts <= Granted' + MaxFailures * Cardinality(Workers)
    BY <1>2, <1>5, GivenUpKept DEF StaysPut
  <2>3. GivenUpInTime'
    BY <1>5, <2>2 DEF GivenUpInTime
  <2> QED
    BY <1>5, <2>1, <2>3 DEF Budgeted
<1>6. ASSUME NEW w \in Workers, NEW i \in Items, Claim(w, i) PROVE Budgeted'
  <2>1. /\ UNCHANGED <<primary, health, up, recoveries, losses, unrouted, fellBack>>
        /\ state[i] = "pending" /\ state' = [state EXCEPT ![i] = "sending"]
        /\ tries' = [tries EXCEPT ![i] = @ + 1] /\ holder' = [holder EXCEPT ![i] = w]
        /\ effective' = [effective EXCEPT ![i] = Resolved(w, primary[i])]
    BY <1>6 DEF Claim, Claimed
  <2>2. Granted' = Granted /\ \A p \in Targets : Tally(p)' = Tally(p) /\ Tally(p) \in Nat
    BY <1>2, <2>1, GrantedMore, TallySame, TallyIn
  <2>3. HeldIfSending'
    BY <1>1, <1>2, <2>1 DEF HeldIfSending
  <2>4. GivenUpInTime'
    BY <1>1, <2>1, <2>2 DEF GivenUpInTime
  <2>5. ASSUME NEW j \in Items, j # i PROVE Paid(j)'
    <3>1. PICK p \in Targets : p = primary[j]
      BY <1>1
    <3>2. OnItsWay(j)' = OnItsWay(j) /\ StaysPut(j)
      BY <1>1, <2>1, <2>5 DEF OnItsWay, StaysPut
    <3>3. Granted + Tally(p) + OnItsWay(j) <= Granted' + Tally(p)' + OnItsWay(j)'
      BY <1>3, <1>4, <2>2, <3>2
    <3> QED
      BY <1>2, <2>1, <3>1, <3>2, <3>3, PaidKept
  <2>6. Paid(i)'
    <3>1. PICK p \in Targets : p = primary[i]
      BY <1>1
    <3>2. holder[i] = Nobody /\ OnItsWay(i) = 0
      BY <1>1, <1>2, <2>1 DEF HeldIfSending, OnItsWay
    <3>3. OnItsWay(i)' = 1
      <4>1. Failing(w, p) => Resolved(w, p) # p
        BY <1>2, <3>1, ResolvedLeaves DEF HeldIfSending
      <4>2. health[w][p] \in 0..MaxFailures
        BY <1>1
      <4>3. Resolved(w, p) # p \/ health[w][p] < MaxFailures
        BY <1>1, <4>1, <4>2 DEF Failing
      <4>4. holder'[i] = w /\ effective'[i] = Resolved(w, p) /\ primary' = primary /\ health' = health
        BY <1>1, <2>1, <3>1
      <4> QED
        BY <1>1, <3>1, <4>3, <4>4 DEF OnItsWay
    <3>4. tries'[i] = tries[i] + 1 /\ tries[i] \in Nat
      BY <1>1, <2>1
    <3>5. Tally(primary[i])' = Tally(p)'
      BY <2>1, <3>1 DEF Tally, Tallied
    <3> SUFFICES ASSUME i \notin fellBack, p \notin Misconfigured
                 PROVE  tries'[i] <= Granted' + Tally(p)' + OnItsWay(i)'
      BY <2>1, <3>1, <3>5 DEF Paid
    <3>6. tries[i] <= Granted + Tally(p) + OnItsWay(i)
      BY <1>2, <2>1, <3>1 DEF Paid
    <3> QED
      BY <1>3, <2>2, <3>2, <3>3, <3>4, <3>6
  <2> QED
    BY <2>3, <2>4, <2>5, <2>6 DEF Budgeted
<1>7. ASSUME NEW i \in Items, Delivered(i) PROVE Budgeted'
  <2> DEFINE w == holder[i]
             c == effective[i]
  <2>1. /\ UNCHANGED <<primary, tries, up, recoveries, losses, unrouted, fellBack>>
        /\ state' = [state EXCEPT ![i] = "sent"] /\ holder' = [holder EXCEPT ![i] = Nobody]
        /\ effective' = [effective EXCEPT ![i] = Nobody] /\ c \in up
        /\ health' = [health EXCEPT ![w][c] = 0] /\ state[i] = "sending"
    BY <1>7 DEF Delivered, Settle, RecordSuccess
  <2>2. w \in Workers /\ c \in Targets
    BY <1>2, <2>1 DEF FailoverInv, Sent
  <2> HIDE DEF w, c
  <2>3. \A v \in Workers, p \in Targets : p \notin up => health'[v][p] = health[v][p]
    BY <1>1, <2>1, <2>2
  <2>4. Granted' = Granted /\ \A p \in Targets : Tally(p)' = Tally(p) /\ Tally(p) \in Nat
    <3>1. Granted' = Granted
      BY <1>2, <2>1, GrantedMore
    <3>2. ASSUME NEW p \in Targets PROVE Tally(p)' = Tally(p) /\ Tally(p) \in Nat
      BY <2>1, <2>3, TallySame, TallyIn
    <3> QED
      BY <3>1, <3>2
  <2>5. HeldIfSending'
    BY <1>1, <1>2, <2>1 DEF HeldIfSending
  <2>6. GivenUpInTime'
    BY <1>1, <2>1, <2>4 DEF GivenUpInTime
  <2>7. Paid(i)'
    BY <1>1, <2>1 DEF Paid
  <2>8. ASSUME NEW j \in Items, j # i PROVE Paid(j)'
    <3>1. PICK p \in Targets : p = primary[j]
      BY <1>1
    <3>2. /\ holder'[j] = holder[j] /\ effective'[j] = effective[j] /\ primary'[j] = p /\ up' = up
          /\ StaysPut(j)
      BY <1>1, <2>1, <2>8, <3>1 DEF StaysPut
    <3>3. p \notin up /\ holder[j] # Nobody => health'[holder[j]][p] = health[holder[j]][p]
      BY <1>1, <2>3
    <3>4. OnItsWay(j)' = OnItsWay(j)
      BY <3>1, <3>2, <3>3 DEF OnItsWay
    <3>5. Granted + Tally(p) + OnItsWay(j) <= Granted' + Tally(p)' + OnItsWay(j)'
      BY <1>3, <1>4, <2>4, <3>4
    <3> QED
      BY <1>2, <2>1, <3>1, <3>2, <3>5, PaidKept
  <2> QED
    BY <2>5, <2>6, <2>7, <2>8 DEF Budgeted
<1>8. ASSUME NEW i \in Items, MarkLost(i) PROVE Budgeted'
  <2>1. /\ UNCHANGED <<primary, tries, health, up, fellBack, recoveries, unrouted>> /\ losses' = losses + 1
        /\ state' = [state EXCEPT ![i] = "pending"] /\ holder' = [holder EXCEPT ![i] = Nobody]
        /\ state[i] = "sending"
    BY <1>8 DEF MarkLost, Settle, Loss
  <2>2. Granted' = Granted + 1 + MaxFailures
    BY <1>2, <2>1, GrantedMore
  <2>3. \A p \in Targets : Tally(p)' = Tally(p) /\ Tally(p) \in Nat
    BY <2>1, TallySame, TallyIn
  <2>4. HeldIfSending'
    BY <1>1, <1>2, <2>1 DEF HeldIfSending
  <2>5. Granted' \in Nat /\ Granted <= Granted'
    BY <1>1, <1>3, <2>2
  <2>6. \A j \in Items : StaysPut(j) /\ (state'[j] = "dead" => state[j] = "dead")
    BY <1>1, <2>1 DEF StaysPut
  <2>7. \A j \in Items, p \in Targets :
          Granted + Tally(p) + OnItsWay(j) <= Granted' + Tally(p)' + OnItsWay(j)'
    BY <1>1, <1>3, <1>4, <2>2, <2>3
  <2> QED
    BY <1>5, <2>1, <2>4, <2>5, <2>6, <2>7
<1>9. ASSUME NEW i \in Items, Refused(i) PROVE Budgeted'
  <2> DEFINE to == IF effective[i] \in Misconfigured \/ tries[i] >= MaxAttempts THEN "dead" ELSE "pending"
  <2>1. /\ UNCHANGED <<primary, tries, up, recoveries, losses, unrouted>>
        /\ state' = [state EXCEPT ![i] = to] /\ holder' = [holder EXCEPT ![i] = Nobody]
        /\ effective[i] \notin up \ Misconfigured
        /\ fellBack' = IF effective[i] # primary[i] THEN fellBack \cup {i} ELSE fellBack
        /\ state[i] = "sending"
    BY <1>9 DEF Refused, Unsent, Settle
  <2>2. ASSUME NEW j \in Items, NEW p \in Targets, p = primary[j], p \notin Misconfigured, j \notin fellBack'
        PROVE  Tally(p) + OnItsWay(j) <= Tally(p)' + OnItsWay(j)'
    BY <1>9, <2>2, UnsentPaid DEF Refused
  <2>3. Granted' = Granted
    BY <1>2, <2>1, GrantedMore
  <2>4. HeldIfSending'
    BY <1>1, <1>2, <2>1 DEF HeldIfSending
  <2>5. \A j \in Items : StaysPut(j) /\ (j # i /\ state'[j] = "dead" => state[j] = "dead")
    BY <1>1, <2>1 DEF StaysPut
  <2>6. ASSUME NEW j \in Items PROVE Paid(j)'
    <3>1. PICK p \in Targets : p = primary[j]
      BY <1>1
    <3>2. Tally(p) \in Nat /\ Tally(p)' \in Nat
      BY TallyIn
    <3>3. j \notin fellBack' /\ p \notin Misconfigured =>
            Granted + Tally(p) + OnItsWay(j) <= Granted' + Tally(p)' + OnItsWay(j)'
      BY <1>3, <1>4, <2>2, <2>3, <3>1, <3>2
    <3> QED
      BY <1>2, <2>1, <2>5, <3>1, <3>3, PaidKept
  <2>7. ASSUME state'[i] = "dead", i \notin fellBack', primary[i] \notin Misconfigured
        PROVE  MaxAttempts <= Granted' + MaxFailures * Cardinality(Workers)
    <3>1. PICK p \in Targets : p = primary[i]
      BY <1>1
    <3>2. effective[i] = p /\ i \notin fellBack
      BY <2>1, <2>7, <3>1
    <3>3. tries[i] >= MaxAttempts
      BY <1>1, <2>1, <2>7, <3>1, <3>2
    <3>4. tries[i] <= Granted + Tally(p) + OnItsWay(i)
      BY <1>2, <2>1, <2>7, <3>1, <3>2 DEF Paid
    <3>5. OnItsWay(i)' = 0
      BY <1>1, <2>1 DEF OnItsWay
    <3>6. Tally(p) + OnItsWay(i) <= Tally(p)' + 0
      BY <2>2, <2>7, <3>1, <3>5
    <3>7. /\ Tally(p) \in Nat /\ Tally(p)' \in Nat
          /\ Tally(p)' <= MaxFailures * Cardinality(Workers) /\ tries[i] \in Nat
      BY <1>1, TallyIn
    <3> QED
      BY <1>3, <1>4, <2>3, <3>3, <3>4, <3>6, <3>7
  <2>8. GivenUpInTime'
    <3>1. ASSUME NEW j \in Items, state'[j] = "dead", j \notin fellBack', primary[j] \notin Misconfigured
          PROVE  MaxAttempts <= Granted' + MaxFailures * Cardinality(Workers)
      <4>1. CASE j = i
        BY <2>7, <3>1, <4>1
      <4>2. CASE j # i
        BY <2>3, <2>5, <3>1, <4>2 DEF GivenUpInTime, StaysPut
      <4> QED
        BY <4>1, <4>2
    <3> QED
      BY <2>1, <3>1 DEF GivenUpInTime
  <2> QED
    BY <2>4, <2>6, <2>8 DEF Budgeted
<1>10. ASSUME NEW i \in Items, NewRow(i) PROVE Budgeted'
  <2>1. /\ UNCHANGED <<primary, holder, effective, health, up, recoveries, losses, unrouted>>
        /\ state' = [state EXCEPT ![i] = "pending"] /\ tries' = [tries EXCEPT ![i] = 0]
        /\ fellBack' = fellBack \ {i} /\ state[i] = "sent"
    BY <1>10 DEF NewRow
  <2>2. Granted' = Granted /\ \A p \in Targets : Tally(p)' = Tally(p) /\ Tally(p) \in Nat
    BY <1>2, <2>1, GrantedMore, TallySame, TallyIn
  <2>3. HeldIfSending'
    BY <1>1, <1>2, <2>1 DEF HeldIfSending
  <2>4. GivenUpInTime'
    BY <1>1, <2>1, <2>2 DEF GivenUpInTime
  <2>5. \A j \in Items : OnItsWay(j)' = OnItsWay(j)
    BY <2>1 DEF OnItsWay
  <2>6. Paid(i)'
    <3>1. PICK p \in Targets : p = primary[i]
      BY <1>1
    <3>2. Tally(primary[i])' = Tally(p) /\ Tally(p) \in Nat
      BY <2>1, <2>2, <3>1 DEF Tally, Tallied
    <3>3. tries'[i] = 0 /\ OnItsWay(i)' \in {0, 1}
      BY <1>1, <1>4, <2>1
    <3>4. 0 <= Granted' + Tally(primary[i])' + OnItsWay(i)'
      BY <1>3, <2>2, <3>2, <3>3
    <3> QED
      BY <3>3, <3>4 DEF Paid
  <2>7. ASSUME NEW j \in Items, j # i PROVE Paid(j)'
    <3>1. PICK p \in Targets : p = primary[j]
      BY <1>1
    <3>2. StaysPut(j)
      BY <1>1, <2>1, <2>7 DEF StaysPut
    <3>3. Granted + Tally(p) + OnItsWay(j) <= Granted' + Tally(p)' + OnItsWay(j)'
      BY <1>3, <1>4, <2>2, <2>5
    <3> QED
      BY <1>2, <2>1, <3>1, <3>2, <3>3, PaidKept
  <2> QED
    BY <2>3, <2>4, <2>6, <2>7 DEF Budgeted
<1>11. ASSUME NEW c \in Targets, Outage(c) PROVE Budgeted'
  <2>1. UNCHANGED <<primary, state, tries, holder, effective, health, recoveries, losses, unrouted,
                    fellBack>>
    BY <1>11 DEF Outage
  <2>2. Granted' = Granted /\ HeldIfSending'
    BY <1>2, <2>1, GrantedMore DEF HeldIfSending
  <2>3. \A j \in Items : StaysPut(j) /\ (state'[j] = "dead" => state[j] = "dead")
    BY <2>1 DEF StaysPut
  <2>4. ASSUME NEW j \in Items, NEW p \in Targets, p = primary[j]
        PROVE  Granted + Tally(p) + OnItsWay(j) <= Granted' + Tally(p)' + OnItsWay(j)'
    <3>1. Tally(p) + OnItsWay(j) <= Tally(p)' + OnItsWay(j)'
      BY <1>11, <2>4, OutagePaid
    <3>2. Tally(p) \in Nat /\ Tally(p)' \in Nat
      BY TallyIn
    <3> QED
      BY <1>3, <1>4, <2>2, <3>1, <3>2
  <2>5. Granted' \in Nat /\ Granted <= Granted'
    BY <1>3, <2>2
  <2> QED
    BY <1>5, <2>1, <2>2, <2>3, <2>4, <2>5
<1>12. ASSUME NEW c \in Targets, Recovery(c) PROVE Budgeted'
  <2>1. /\ UNCHANGED <<primary, state, tries, holder, effective, health, losses, unrouted, fellBack>>
        /\ recoveries' = recoveries + 1 /\ up' = up \cup {c}
    BY <1>12 DEF Recovery
  <2>2. Granted' = Granted + MaxFailures * Cardinality(Workers) /\ HeldIfSending'
    BY <1>2, <2>1, GrantedMore DEF HeldIfSending
  <2>3. \A j \in Items : StaysPut(j) /\ (state'[j] = "dead" => state[j] = "dead")
    BY <2>1 DEF StaysPut
  <2>4. ASSUME NEW j \in Items, NEW p \in Targets, p = primary[j]
        PROVE  Granted + Tally(p) + OnItsWay(j) <= Granted' + Tally(p)' + OnItsWay(j)'
    <3>1. OnItsWay(j) <= OnItsWay(j)'
      <4>1. OnItsWay(j) = 1 => OnItsWay(j)' = 1
        BY <2>1 DEF OnItsWay
      <4> QED
        BY <1>4, <4>1
    <3>2. Tally(p) \in Nat /\ Tally(p)' \in Nat /\ Tally(p) <= MaxFailures * Cardinality(Workers)
      BY TallyIn
    <3> QED
      BY <1>3, <1>4, <2>2, <3>1, <3>2
  <2>5. Granted' \in Nat /\ Granted <= Granted'
    BY <1>3, <2>2
  <2> QED
    BY <1>5, <2>1, <2>2, <2>3, <2>4, <2>5
<1>13. ASSUME NEW w \in Workers, Restart(w) PROVE Budgeted'
  <2>1. /\ UNCHANGED <<primary, tries, up, fellBack, recoveries, unrouted>> /\ losses' = losses + 1
        /\ state' = [i \in Items |-> IF holder[i] = w THEN "pending" ELSE state[i]]
        /\ holder' = [i \in Items |-> IF holder[i] = w THEN Nobody ELSE holder[i]]
    BY <1>13 DEF Restart, Loss
  <2>2. Granted' = Granted + 1 + MaxFailures
    BY <1>2, <2>1, GrantedMore
  <2>3. HeldIfSending'
    BY <1>1, <1>2, <2>1 DEF HeldIfSending
  <2>4. \A j \in Items : StaysPut(j) /\ (state'[j] = "dead" => state[j] = "dead")
    BY <1>1, <1>2, <2>1 DEF StaysPut, HeldIfSending
  <2>5. ASSUME NEW j \in Items, NEW p \in Targets, p = primary[j]
        PROVE  Granted + Tally(p) + OnItsWay(j) <= Granted' + Tally(p)' + OnItsWay(j)'
    <3>1. Tally(p) <= Tally(p)' + MaxFailures
      BY <1>13, RestartPaid
    <3>2. Tally(p) \in Nat /\ Tally(p)' \in Nat
      BY TallyIn
    <3> QED
      BY <1>1, <1>3, <1>4, <2>2, <3>1, <3>2
  <2>6. Granted' \in Nat /\ Granted <= Granted'
    BY <1>1, <1>3, <2>2
  <2> QED
    BY <1>5, <2>1, <2>3, <2>4, <2>5, <2>6
<1>14. CASE UNCHANGED failoverVars
  <2>1. UNCHANGED <<primary, state, tries, holder, effective, health, up, recoveries, losses, unrouted,
                    fellBack>>
    BY <1>14 DEF failoverVars
  <2>2. Granted' = Granted /\ HeldIfSending'
    BY <1>2, <2>1, GrantedMore DEF HeldIfSending
  <2>3. \A j \in Items : StaysPut(j) /\ (state'[j] = "dead" => state[j] = "dead") /\ OnItsWay(j)' = OnItsWay(j)
    BY <2>1 DEF StaysPut, OnItsWay
  <2>4. \A p \in Targets : Tally(p)' = Tally(p) /\ Tally(p) \in Nat
    BY <2>1, TallySame, TallyIn
  <2>5. \A j \in Items, p \in Targets :
          Granted + Tally(p) + OnItsWay(j) <= Granted' + Tally(p)' + OnItsWay(j)'
    BY <1>3, <1>4, <2>2, <2>3, <2>4
  <2>6. Granted' \in Nat /\ Granted <= Granted'
    BY <1>3, <2>2
  <2> QED
    BY <1>5, <2>1, <2>2, <2>3, <2>5, <2>6
<1>15. ASSUME NEW w \in Workers, NEW i \in Items, LookupFails(w, i) PROVE Budgeted'
  <2>1. /\ UNCHANGED <<primary, health, up, recoveries, losses, fellBack>> /\ unrouted' = unrouted + 1
        /\ state[i] = "pending" /\ state' = [state EXCEPT ![i] = "sending"]
        /\ tries' = [tries EXCEPT ![i] = @ + 1] /\ holder' = [holder EXCEPT ![i] = w]
        /\ effective' = [effective EXCEPT ![i] = primary[i]]
    BY <1>15 DEF LookupFails, Claimed
  <2>2. Granted' = Granted + 1 /\ \A p \in Targets : Tally(p)' = Tally(p) /\ Tally(p) \in Nat
    BY <1>2, <2>1, GrantedMore, TallySame, TallyIn
  <2>3. HeldIfSending'
    BY <1>1, <1>2, <2>1 DEF HeldIfSending
  <2>4. GivenUpInTime'
    <3>1. \A j \in Items : state'[j] = "dead" => state[j] = "dead"
      BY <1>1, <2>1
    <3> QED
      BY <1>3, <2>1, <2>2, <3>1 DEF GivenUpInTime
  <2>5. ASSUME NEW j \in Items, j # i PROVE Paid(j)'
    <3>1. PICK p \in Targets : p = primary[j]
      BY <1>1
    <3>2. OnItsWay(j)' = OnItsWay(j) /\ StaysPut(j)
      BY <1>1, <2>1, <2>5 DEF OnItsWay, StaysPut
    <3>3. Granted + Tally(p) + OnItsWay(j) <= Granted' + Tally(p)' + OnItsWay(j)'
      BY <1>3, <1>4, <2>2, <3>2
    <3> QED
      BY <1>2, <2>1, <3>1, <3>2, <3>3, PaidKept
  <2>6. Paid(i)'
    <3>1. PICK p \in Targets : p = primary[i]
      BY <1>1
    <3>2. OnItsWay(i) = 0
      BY <1>1, <1>2, <2>1 DEF HeldIfSending, OnItsWay
    <3>3. tries'[i] = tries[i] + 1 /\ tries[i] \in Nat
      BY <1>1, <2>1
    <3>4. Tally(primary[i])' = Tally(p)'
      BY <2>1, <3>1 DEF Tally, Tallied
    <3> SUFFICES ASSUME i \notin fellBack, p \notin Misconfigured
                 PROVE  tries'[i] <= Granted' + Tally(p)' + OnItsWay(i)'
      BY <2>1, <3>1, <3>4 DEF Paid
    <3>5. tries[i] <= Granted + Tally(p) + OnItsWay(i)
      BY <1>2, <2>1, <3>1 DEF Paid
    <3> QED
      BY <1>3, <1>4, <2>2, <3>2, <3>3, <3>5
  <2> QED
    BY <2>3, <2>4, <2>5, <2>6 DEF Budgeted
<1>16. ASSUME NEW w \in Workers, NEW i \in Items, ChannelUnread(w, i) PROVE Budgeted'
  <2>1. /\ UNCHANGED <<primary, holder, effective, up, recoveries, losses, fellBack>>
        /\ unrouted' = unrouted + 1 /\ state[i] = "pending"
        /\ tries' = [tries EXCEPT ![i] = @ + 1]
        /\ state' = [state EXCEPT ![i] = IF tries'[i] >= MaxAttempts THEN "dead" ELSE "pending"]
    BY <1>16 DEF ChannelUnread
  <2>2. Granted' = Granted + 1
    BY <1>2, <2>1, GrantedMore
  <2>3. HeldIfSending'
    BY <1>1, <1>2, <2>1 DEF HeldIfSending
  <2>4. ASSUME NEW j \in Items, NEW p \in Targets, p = primary[j]
        PROVE  Tally(p) <= Tally(p)' /\ OnItsWay(j)' = OnItsWay(j) /\ Tally(p) \in Nat /\ Tally(p)' \in Nat
    BY <1>16, <2>4, UnreadPaid, TallyIn
  <2>5. ASSUME NEW j \in Items, j # i PROVE Paid(j)'
    <3>1. PICK p \in Targets : p = primary[j]
      BY <1>1
    <3>2. StaysPut(j)
      BY <1>1, <2>1, <2>5 DEF StaysPut
    <3>3. Granted + Tally(p) + OnItsWay(j) <= Granted' + Tally(p)' + OnItsWay(j)'
      BY <1>3, <1>4, <2>2, <2>4, <3>1
    <3> QED
      BY <1>2, <2>1, <3>1, <3>2, <3>3, PaidKept
  <2>6. PICK p \in Targets : p = primary[i]
    BY <1>1
  <2>7. OnItsWay(i) = 0 /\ tries'[i] = tries[i] + 1 /\ tries[i] \in Nat
    BY <1>1, <1>2, <2>1 DEF HeldIfSending, OnItsWay
  <2>8. i \notin fellBack /\ p \notin Misconfigured => tries'[i] <= Granted' + Tally(p)
    <3>1. i \notin fellBack /\ p \notin Misconfigured => tries[i] <= Granted + Tally(p) + OnItsWay(i)
      BY <1>2, <2>1, <2>6 DEF Paid
    <3> QED
      BY <1>3, <2>2, <2>4, <2>6, <2>7, <3>1
  <2>9. Paid(i)'
    <3>1. Tally(primary[i])' = Tally(p)'
      BY <2>1, <2>6 DEF Tally, Tallied
    <3> SUFFICES ASSUME i \notin fellBack, p \notin Misconfigured
                 PROVE  tries'[i] <= Granted' + Tally(p)' + OnItsWay(i)'
      BY <2>1, <2>6, <3>1 DEF Paid
    <3> QED
      BY <1>3, <1>4, <2>2, <2>4, <2>6, <2>7, <2>8
  <2>10. GivenUpInTime'
    <3>1. ASSUME NEW j \in Items, state'[j] = "dead", j \notin fellBack', primary[j] \notin Misconfigured
          PROVE  MaxAttempts <= Granted' + MaxFailures * Cardinality(Workers)
      <4>1. CASE j = i
        <5>1. tries'[i] >= MaxAttempts /\ tries'[i] <= Granted' + Tally(p)
          BY <1>1, <2>1, <2>6, <2>8, <3>1, <4>1
        <5>2. Tally(p) \in Nat /\ Tally(p) <= MaxFailures * Cardinality(Workers)
          BY TallyIn
        <5> QED
          BY <1>3, <2>2, <2>7, <5>1, <5>2
      <4>2. CASE j # i
        <5>1. state[j] = "dead" /\ j \notin fellBack
          BY <1>1, <2>1, <3>1, <4>2
        <5> QED
          BY <1>3, <2>2, <3>1, <5>1 DEF GivenUpInTime
      <4> QED
        BY <4>1, <4>2
    <3> QED
      BY <2>1, <3>1 DEF GivenUpInTime
  <2> QED
    BY <2>3, <2>5, <2>9, <2>10 DEF Budgeted
<1>17. ASSUME NEW i \in Items, RefusalLost(i) PROVE Budgeted'
  <2>1. /\ UNCHANGED <<primary, tries, up, recoveries, unrouted>> /\ losses' = losses + 1
        /\ state' = [state EXCEPT ![i] = "pending"] /\ holder' = [holder EXCEPT ![i] = Nobody]
        /\ fellBack' = IF effective[i] # primary[i] THEN fellBack \cup {i} ELSE fellBack
        /\ state[i] = "sending"
    BY <1>17 DEF RefusalLost, Unsent, Settle, Loss
  <2>2. Granted' = Granted + 1 + MaxFailures
    BY <1>2, <2>1, GrantedMore
  <2>3. HeldIfSending'
    BY <1>1, <1>2, <2>1 DEF HeldIfSending
  <2>4. Granted' \in Nat /\ Granted <= Granted'
    BY <1>1, <1>3, <2>2
  <2>5. \A j \in Items : StaysPut(j) /\ (state'[j] = "dead" => state[j] = "dead")
    BY <1>1, <2>1 DEF StaysPut
  <2>6. ASSUME NEW j \in Items, NEW p \in Targets, p = primary[j], j \notin fellBack', p \notin Misconfigured
        PROVE  Granted + Tally(p) + OnItsWay(j) <= Granted' + Tally(p)' + OnItsWay(j)'
    <3>1. Tally(p) + OnItsWay(j) <= Tally(p)' + OnItsWay(j)'
      BY <1>17, <2>6, UnsentPaid DEF RefusalLost
    <3>2. Tally(p) \in Nat /\ Tally(p)' \in Nat
      BY TallyIn
    <3> QED
      BY <1>3, <1>4, <2>4, <3>1, <3>2
  <2> QED
    BY <1>5, <2>1, <2>3, <2>4, <2>5, <2>6
<1> QED
  BY <1>6, <1>7, <1>8, <1>9, <1>10, <1>11, <1>12, <1>13, <1>14, <1>15, <1>16, <1>17
  DEF FailoverNext, Deliver

LEMMA DivertedBase == FailoverInit => DivertedIInv
<1> SUFFICES ASSUME FailoverInit PROVE DivertedIInv
  OBVIOUS
<1>1. FailoverInv
  BY FailoverBase
<1>2. HeldIfSending /\ DivertedInTime
  BY FailoverAssumption DEF FailoverInit, HeldIfSending, DivertedInTime
<1>3. ASSUME NEW i \in Items PROVE Paid(i)
  <2>1. Granted \in Nat /\ OnItsWay(i) \in {0, 1} /\ Tally(primary[i]) \in Nat /\ tries[i] = 0
    BY <1>1, FailoverNumbers, TallyIn DEF FailoverInit
  <2>2. tries[i] <= Granted + Tally(primary[i]) + OnItsWay(i)
    BY <2>1
  <2> QED
    BY <2>2 DEF Paid
<1> QED
  BY <1>1, <1>2, <1>3 DEF DivertedIInv

LEMMA DivertedStep == DivertedIInv /\ [FailoverNext]_failoverVars => DivertedIInv'
<1> SUFFICES ASSUME DivertedIInv, [FailoverNext]_failoverVars PROVE DivertedIInv'
  OBVIOUS
<1>1. FailoverInv /\ FailoverInv'
  BY FailoverStep DEF DivertedIInv
<1>2. GivenUpInTime
  BY <1>1, GivenUpDiverted DEF DivertedIInv
<1>3. Budgeted'
  BY <1>1, <1>2, BudgetStep
<1>4. FailoverInv' => (DivertedInTime' <=> GivenUpInTime')
  BY GivenUpDiverted, PTL
<1> QED
  BY <1>1, <1>3, <1>4 DEF Budgeted, DivertedIInv

(* The outage of a channel alone loses no row: a row that is given up      *)
(* without a fallback having refused it, and whose channel is configured   *)
(* as it should be, has been tried MaxFailures times by each process, and  *)
(* again after every recovery and every restart, not counting one attempt  *)
(* for each lost mark, each restart and each time its channel or the one   *)
(* to fall back on could not be read (ResolveChannel in                    *)
(* notify/failover.go, deliver in notify/worker.go, recordFailure in       *)
(* notify/doctor.go).                                                      *)
THEOREM OutagesDiverted == FailoverSpec => []DivertedInTime
<1>1. DivertedIInv => DivertedInTime
  BY DEF DivertedIInv
<1> QED
  BY <1>1, DivertedBase, DivertedStep, PTL DEF FailoverSpec

-----------------------------------------------------------------------------
(* The aggregator.  Every variable keeps its type.                         *)

SettingsTyped ==
    /\ horizon \in Nat /\ now \in 0..horizon
    /\ feature \in BOOLEAN /\ muted \in BOOLEAN
    /\ enabled \subseteq Channels
    /\ threshold \in Nat \ {0} /\ judged \subseteq Events
    /\ budget \in Nat /\ flips \in 0..budget /\ troubles \in 0..budget

EventsTyped ==
    /\ outcome \in [Events -> {"new", "prepared", "skipped", "refused", "suppressed",
                               "bucketed", "bursting", "announcing", "announced", "folded"}]
    /\ home \in [Events -> Replicas \cup {NoOne}]
    /\ chans \in [Events -> SUBSET Channels]
    /\ stamp \in [Events -> Nat]
    /\ todo \in [Events -> SUBSET Channels]
    /\ slot \in [Events -> Int]

BucketsTyped ==
    /\ bucket \in [Replicas -> SUBSET Events]
    /\ first \in [Replicas -> Events \cup {NoOne}]
    /\ armed \in [Replicas -> BOOLEAN]
    /\ fired \in [Replicas -> SUBSET Events]
    /\ spawned \in [Replicas -> SUBSET Events]
    /\ bursts \in [Replicas -> SUBSET Events]
    /\ notified \in [Replicas -> Int]
    /\ flushed \in [Replicas -> SUBSET Int]

RowsTyped ==
    /\ batches \in [Replicas -> SUBSET Batches]
    /\ outbox \subseteq Rows

(* What is under way has a replica it happens at.                          *)
Homed == \A e \in Events : outcome[e] # "new" => home[e] \in Replicas

(* The map holds no empty bucket, and its timer is that of its first event. *)
Opened ==
    \A r \in Replicas :
        /\ bucket[r] # {} => first[r] \in bucket[r]
        /\ armed[r] => bucket[r] # {}

LEMMA Typed == AggTypeOK <=> SettingsTyped /\ EventsTyped /\ BucketsTyped /\ RowsTyped
  BY DEF AggTypeOK, SettingsTyped, EventsTyped, BucketsTyped, RowsTyped

LEMMA TimeBucketInt ==
  ASSUME NEW t \in Nat, NEW w \in Nat \ {0}
  PROVE  TimeBucket(t, w) \in Int
  BY DEF TimeBucket

(* The settings.                                                           *)
LEMMA SettingsStep ==
  ASSUME SettingsTyped, [AggNext]_aggVars
  PROVE  SettingsTyped'
<1> USE DEF SettingsTyped, settings, Prepared, Count, Summary, Trouble, OnBatch
<1>1. ASSUME NEW e \in Events, outcome[e] = "new", home[e] # NoOne, PrepareSkipped(e)
      PROVE  SettingsTyped'
  BY <1>1 DEF PrepareSkipped
<1>2. ASSUME NEW e \in Events, outcome[e] = "new", home[e] # NoOne, PrepareRefused(e)
      PROVE  SettingsTyped'
  BY <1>2 DEF PrepareRefused
<1>3. ASSUME NEW e \in Events, outcome[e] = "new", home[e] # NoOne, PreparePassed(e)
      PROVE  SettingsTyped'
  BY <1>3 DEF PreparePassed
<1>4. ASSUME NEW e \in Events, outcome[e] = "new", home[e] # NoOne, PrepareSuppressed(e)
      PROVE  SettingsTyped'
  <2>1. (troubles' = troubles \/ Trouble) /\ UNCHANGED <<now, settings>>
    BY <1>4 DEF PrepareSuppressed
  <2> QED
    BY <1>4, <2>1 DEF SettingsTyped
<1>5. ASSUME NEW e \in Events, outcome[e] = "prepared", Fold(e)
      PROVE  SettingsTyped'
  BY <1>5 DEF Fold
<1>6. ASSUME NEW e \in Events, outcome[e] = "prepared", StartSummary(e)
      PROVE  SettingsTyped'
  BY <1>6 DEF StartSummary
<1>7. ASSUME NEW e \in Events, outcome[e] = "prepared", OpenBucket(e)
      PROVE  SettingsTyped'
  BY <1>7 DEF OpenBucket
<1>8. ASSUME NEW e \in Events, outcome[e] = "prepared", AddToBucket(e)
      PROVE  SettingsTyped'
  BY <1>8 DEF AddToBucket
<1>9. ASSUME NEW e \in Events, SummaryRead(e) PROVE SettingsTyped'
  BY <1>9 DEF SummaryRead
<1>10. ASSUME NEW e \in Events, SummaryWrite(e) PROVE SettingsTyped'
  BY <1>10 DEF SummaryWrite
<1>11. ASSUME NEW e \in Events, SummaryFails(e) PROVE SettingsTyped'
  BY <1>11 DEF SummaryFails
<1>12. ASSUME NEW r \in Replicas, TimerFires(r) PROVE SettingsTyped'
  BY <1>12 DEF TimerFires
<1>13. ASSUME NEW r \in Replicas, NEW x \in Events, Flush(r, x)
      PROVE  SettingsTyped'
  BY <1>13 DEF Flush
<1>14. ASSUME NEW r \in Replicas, NEW b \in batches[r], ReadSingle(r, b)
      PROVE  SettingsTyped'
  BY <1>14 DEF ReadSingle
<1>15. ASSUME NEW r \in Replicas, NEW b \in batches[r], ReadMerged(r, b)
      PROVE  SettingsTyped'
  BY <1>15 DEF ReadMerged
<1>16. ASSUME NEW r \in Replicas, NEW b \in batches[r], Write(r, b)
      PROVE  SettingsTyped'
  BY <1>16 DEF Write
<1>17. ASSUME NEW r \in Replicas, NEW b \in batches[r], FlushFails(r, b)
      PROVE  SettingsTyped'
  BY <1>17 DEF FlushFails
<1>18. ASSUME NEW r \in Replicas, ReplicaDies(r) PROVE SettingsTyped'
  BY <1>18 DEF ReplicaDies
<1>19. CASE Tick
  BY <1>19 DEF Tick
<1>20. CASE Switch
  <2>1. flips' \in 0..budget /\ UNCHANGED <<now, threshold, judged, horizon, budget, troubles>>
    BY <1>20 DEF Switch
  <2>2. feature' \in BOOLEAN /\ muted' \in BOOLEAN /\ enabled' \subseteq Channels
    BY <1>20 DEF Switch
  <2> QED
    BY <1>20, <2>1, <2>2 DEF Switch
<1>21. CASE UNCHANGED aggVars
  BY <1>21 DEF aggVars
<1> QED
  BY <1>1, <1>2, <1>3, <1>4, <1>5, <1>6, <1>7, <1>8, <1>9, <1>10, <1>11,
     <1>12, <1>13, <1>14, <1>15, <1>16, <1>17, <1>18, <1>19, <1>20, <1>21
  DEF AggNext, Prepare, Admit, Progress


(* What is known of each event.                                            *)
LEMMA EventsStep ==
  ASSUME SettingsTyped, EventsTyped, Homed, [AggNext]_aggVars
  PROVE  (EventsTyped /\ Homed)'
<1> USE AggregatorAssumption, TimeBucketInt
     DEF SettingsTyped, EventsTyped, Homed, perEvent, Prepared, Count, Summary,
         OnBatch, Selections
<1>1. ASSUME NEW e \in Events, outcome[e] = "new", home[e] # NoOne, PrepareSkipped(e)
      PROVE  (EventsTyped /\ Homed)'
  BY <1>1 DEF PrepareSkipped
<1>2. ASSUME NEW e \in Events, outcome[e] = "new", home[e] # NoOne, PrepareRefused(e)
      PROVE  (EventsTyped /\ Homed)'
  BY <1>2 DEF PrepareRefused
<1>3. ASSUME NEW e \in Events, outcome[e] = "new", home[e] # NoOne, PreparePassed(e)
      PROVE  (EventsTyped /\ Homed)'
  BY <1>3 DEF PreparePassed
<1>4. ASSUME NEW e \in Events, outcome[e] = "new", home[e] # NoOne, PrepareSuppressed(e)
      PROVE  (EventsTyped /\ Homed)'
  BY <1>4 DEF PrepareSuppressed
<1>5. ASSUME NEW e \in Events, outcome[e] = "prepared", Fold(e)
      PROVE  (EventsTyped /\ Homed)'
  BY <1>5 DEF Fold
<1>6. ASSUME NEW e \in Events, outcome[e] = "prepared", StartSummary(e)
      PROVE  (EventsTyped /\ Homed)'
  BY <1>6 DEF StartSummary
<1>7. ASSUME NEW e \in Events, outcome[e] = "prepared", OpenBucket(e)
      PROVE  (EventsTyped /\ Homed)'
  BY <1>7 DEF OpenBucket
<1>8. ASSUME NEW e \in Events, outcome[e] = "prepared", AddToBucket(e)
      PROVE  (EventsTyped /\ Homed)'
  BY <1>8 DEF AddToBucket
<1>9. ASSUME NEW e \in Events, SummaryRead(e) PROVE (EventsTyped /\ Homed)'
  BY <1>9 DEF SummaryRead
<1>10. ASSUME NEW e \in Events, SummaryWrite(e) PROVE (EventsTyped /\ Homed)'
  BY <1>10 DEF SummaryWrite
<1>11. ASSUME NEW e \in Events, SummaryFails(e) PROVE (EventsTyped /\ Homed)'
  BY <1>11 DEF SummaryFails
<1>12. ASSUME NEW r \in Replicas, TimerFires(r) PROVE (EventsTyped /\ Homed)'
  BY <1>12 DEF TimerFires
<1>13. ASSUME NEW r \in Replicas, NEW x \in Events, Flush(r, x)
      PROVE  (EventsTyped /\ Homed)'
  BY <1>13 DEF Flush
<1>14. ASSUME NEW r \in Replicas, NEW b \in batches[r], ReadSingle(r, b)
      PROVE  (EventsTyped /\ Homed)'
  BY <1>14 DEF ReadSingle
<1>15. ASSUME NEW r \in Replicas, NEW b \in batches[r], ReadMerged(r, b)
      PROVE  (EventsTyped /\ Homed)'
  BY <1>15 DEF ReadMerged
<1>16. ASSUME NEW r \in Replicas, NEW b \in batches[r], Write(r, b)
      PROVE  (EventsTyped /\ Homed)'
  BY <1>16 DEF Write
<1>17. ASSUME NEW r \in Replicas, NEW b \in batches[r], FlushFails(r, b)
      PROVE  (EventsTyped /\ Homed)'
  BY <1>17 DEF FlushFails
<1>18. ASSUME NEW r \in Replicas, ReplicaDies(r) PROVE (EventsTyped /\ Homed)'
  BY <1>18 DEF ReplicaDies
<1>19. CASE Tick
  BY <1>19 DEF Tick
<1>20. CASE Switch
  BY <1>20 DEF Switch
<1>21. CASE UNCHANGED aggVars
  BY <1>21 DEF aggVars
<1> QED
  BY <1>1, <1>2, <1>3, <1>4, <1>5, <1>6, <1>7, <1>8, <1>9, <1>10, <1>11,
     <1>12, <1>13, <1>14, <1>15, <1>16, <1>17, <1>18, <1>19, <1>20, <1>21
  DEF AggNext, Prepare, Admit, Progress


LEMMA CountedTyped ==
  ASSUME BucketsTyped, NEW e \in Events, NEW to, Count(e, to)
  PROVE  bursts' \in [Replicas -> SUBSET Events] /\ UNCHANGED flushed
<1>1. CASE home[e] \in Replicas
  <2>1. Recent(home[e], now) \cup {e} \subseteq Events
    BY <1>1 DEF BucketsTyped, Recent
  <2> QED
    BY <2>1 DEF BucketsTyped, Count
<1>2. CASE home[e] \notin Replicas
  BY <1>2 DEF BucketsTyped, Count
<1> QED
  BY <1>1, <1>2

(* A flush takes the bucket it was made for, or nothing.                   *)
LEMMA FlushTyped ==
  ASSUME BucketsTyped, Opened, NEW r \in Replicas, NEW x \in Events, Flush(r, x)
  PROVE  (BucketsTyped /\ Opened)'
<1>1. \/ fired' = [fired EXCEPT ![r] = @ \ {x}] /\ spawned' = spawned
      \/ spawned' = [spawned EXCEPT ![r] = @ \ {x}] /\ fired' = fired
  BY DEF Flush
<1>2. fired' \in [Replicas -> SUBSET Events] /\ spawned' \in [Replicas -> SUBSET Events]
  BY <1>1 DEF BucketsTyped
<1>3. \/ UNCHANGED <<bucket, first, armed>>
      \/ /\ bucket' = [bucket EXCEPT ![r] = {}]
         /\ first' = [first EXCEPT ![r] = NoOne]
         /\ armed' = [armed EXCEPT ![r] = FALSE]
  BY DEF Flush, TakeBucket
<1>4. bucket' \in [Replicas -> SUBSET Events] /\ first' \in [Replicas -> Events \cup {NoOne}]
  BY <1>3 DEF BucketsTyped
<1>5. armed' \in [Replicas -> BOOLEAN] /\ Opened'
  BY <1>3 DEF BucketsTyped, Opened
<1>6. UNCHANGED <<bursts, notified, flushed>>
  BY DEF Flush, counters
<1> QED
  BY <1>2, <1>4, <1>5, <1>6 DEF BucketsTyped

(* The memory of each replica.                                             *)
LEMMA BucketsStep ==
  ASSUME AggTypeOK, Homed, Opened, [AggNext]_aggVars
  PROVE  (BucketsTyped /\ Opened)'
<1> USE AggregatorAssumption, TimeBucketInt, Typed
     DEF SettingsTyped, EventsTyped, BucketsTyped, Homed, Opened, Recent, EarlyFlush,
         buckets, counters, Prepared, Summary, OnBatch
<1>1. ASSUME NEW e \in Events, outcome[e] = "new", home[e] # NoOne, PrepareSkipped(e)
      PROVE  (BucketsTyped /\ Opened)'
  BY <1>1 DEF PrepareSkipped
<1>2. ASSUME NEW e \in Events, outcome[e] = "new", home[e] # NoOne, PrepareRefused(e)
      PROVE  (BucketsTyped /\ Opened)'
  BY <1>2 DEF PrepareRefused
<1>3. ASSUME NEW e \in Events, outcome[e] = "new", home[e] # NoOne, PreparePassed(e)
      PROVE  (BucketsTyped /\ Opened)'
  BY <1>3 DEF PreparePassed
<1>4. ASSUME NEW e \in Events, outcome[e] = "new", home[e] # NoOne, PrepareSuppressed(e)
      PROVE  (BucketsTyped /\ Opened)'
  BY <1>4 DEF PrepareSuppressed
<1>5. ASSUME NEW e \in Events, outcome[e] = "prepared", Fold(e)
      PROVE  (BucketsTyped /\ Opened)'
  <2>1. bursts' \in [Replicas -> SUBSET Events] /\ UNCHANGED flushed
    BY <1>5, CountedTyped DEF Fold
  <2> QED
    BY <1>5, <2>1 DEF Fold
<1>6. ASSUME NEW e \in Events, outcome[e] = "prepared", StartSummary(e)
      PROVE  (BucketsTyped /\ Opened)'
  <2>1. bursts' \in [Replicas -> SUBSET Events] /\ UNCHANGED flushed
    BY <1>6, CountedTyped DEF StartSummary
  <2>2. TimeBucket(now, BurstWindow) \in Int
    BY <1>6 DEF StartSummary
  <2> QED
    BY <1>6, <2>1, <2>2 DEF StartSummary
<1>7. ASSUME NEW e \in Events, outcome[e] = "prepared", OpenBucket(e)
      PROVE  (BucketsTyped /\ Opened)'
  <2>1. bursts' \in [Replicas -> SUBSET Events] /\ UNCHANGED flushed
    BY <1>7, CountedTyped DEF OpenBucket
  <2>2. home[e] \in Replicas
    BY <1>7 DEF OpenBucket
  <2>3. bucket' \in [Replicas -> SUBSET Events] /\ first' \in [Replicas -> Events \cup {NoOne}]
    BY <1>7, <2>2 DEF OpenBucket
  <2>4. fired' \in [Replicas -> SUBSET Events] /\ spawned' \in [Replicas -> SUBSET Events] /\ UNCHANGED notified
    BY <1>7, <2>2 DEF OpenBucket
  <2>5. armed' \in [Replicas -> BOOLEAN]
    BY <1>7, <2>2 DEF OpenBucket
  <2>6. Opened'
    BY <1>7, <2>2 DEF OpenBucket
  <2> QED
    BY <1>7, <2>1, <2>3, <2>4, <2>5, <2>6 DEF OpenBucket
<1>8. ASSUME NEW e \in Events, outcome[e] = "prepared", AddToBucket(e)
      PROVE  (BucketsTyped /\ Opened)'
  <2>1. bursts' \in [Replicas -> SUBSET Events] /\ UNCHANGED flushed
    BY <1>8, CountedTyped DEF AddToBucket
  <2>2. home[e] \in Replicas
    BY <1>8 DEF AddToBucket
  <2>3. bucket' \in [Replicas -> SUBSET Events] /\ first' \in [Replicas -> Events \cup {NoOne}]
    BY <1>8, <2>2 DEF AddToBucket
  <2>4. fired' \in [Replicas -> SUBSET Events] /\ spawned' \in [Replicas -> SUBSET Events] /\ UNCHANGED notified
    BY <1>8, <2>2 DEF AddToBucket
  <2>5. armed' \in [Replicas -> BOOLEAN]
    BY <1>8, <2>2 DEF AddToBucket
  <2>6. Opened'
    BY <1>8, <2>2 DEF AddToBucket
  <2> QED
    BY <1>8, <2>1, <2>3, <2>4, <2>5, <2>6 DEF AddToBucket
<1>9. ASSUME NEW e \in Events, SummaryRead(e) PROVE (BucketsTyped /\ Opened)'
  BY <1>9 DEF SummaryRead
<1>10. ASSUME NEW e \in Events, SummaryWrite(e) PROVE (BucketsTyped /\ Opened)'
  BY <1>10 DEF SummaryWrite
<1>11. ASSUME NEW e \in Events, SummaryFails(e) PROVE (BucketsTyped /\ Opened)'
  BY <1>11 DEF SummaryFails
<1>12. ASSUME NEW r \in Replicas, TimerFires(r) PROVE (BucketsTyped /\ Opened)'
  BY <1>12 DEF TimerFires
<1>13. ASSUME NEW r \in Replicas, NEW x \in Events, Flush(r, x)
      PROVE  (BucketsTyped /\ Opened)'
  <2> QED
    BY <1>13, FlushTyped
<1>14. ASSUME NEW r \in Replicas, NEW b \in batches[r], ReadSingle(r, b)
      PROVE  (BucketsTyped /\ Opened)'
  BY <1>14 DEF ReadSingle
<1>15. ASSUME NEW r \in Replicas, NEW b \in batches[r], ReadMerged(r, b)
      PROVE  (BucketsTyped /\ Opened)'
  BY <1>15 DEF ReadMerged
<1>16. ASSUME NEW r \in Replicas, NEW b \in batches[r], Write(r, b)
      PROVE  (BucketsTyped /\ Opened)'
  BY <1>16 DEF Write
<1>17. ASSUME NEW r \in Replicas, NEW b \in batches[r], FlushFails(r, b)
      PROVE  (BucketsTyped /\ Opened)'
  BY <1>17 DEF FlushFails
<1>18. ASSUME NEW r \in Replicas, ReplicaDies(r)
      PROVE  (BucketsTyped /\ Opened)'
  BY <1>18 DEF ReplicaDies
<1>19. CASE Tick
  BY <1>19 DEF Tick
<1>20. CASE Switch
  BY <1>20 DEF Switch
<1>21. CASE UNCHANGED aggVars
  BY <1>21 DEF aggVars
<1> QED
  BY <1>1, <1>2, <1>3, <1>4, <1>5, <1>6, <1>7, <1>8, <1>9, <1>10, <1>11,
     <1>12, <1>13, <1>14, <1>15, <1>16, <1>17, <1>18, <1>19, <1>20, <1>21
  DEF AggNext, Prepare, Admit, Progress


LEMMA CreateTyped ==
  ASSUME RowsTyped, NEW rows \in SUBSET Rows, Create(rows)
  PROVE  outbox' \subseteq Rows
  BY DEF RowsTyped, Create

LEMMA BecomesTyped ==
  ASSUME RowsTyped, NEW r \in Replicas, NEW b, NEW b2 \in Batches, Becomes(r, b, b2)
  PROVE  batches' \in [Replicas -> SUBSET Batches]
<1>1. (batches[r] \ {b}) \cup (IF b2.left = {} THEN {} ELSE {b2}) \subseteq Batches
  BY DEF RowsTyped
<1> QED
  BY <1>1 DEF RowsTyped, Becomes

LEMMA KeyTyped ==
  ASSUME NEW kind \in Kinds, NEW at \in Int, NEW tag \in Events \cup {NoOne}
  PROVE  Key(kind, at, tag) \in RowKeys
  BY DEF Key, RowKeys

LEMMA RowTyped ==
  ASSUME NEW c \in Channels, NEW key \in RowKeys, NEW es \in SUBSET Events,
         NEW m \in BOOLEAN,
         NEW d \in BOOLEAN
  PROVE  Row(c, key, es, m, d) \in Rows
  BY DEF Row, Rows

(* The one event of a batch that goes back through the engine.             *)
LEMMA OnlyOne ==
  ASSUME NEW S, IsFiniteSet(S), Cardinality(S) = 1
  PROVE  S = {CHOOSE x \in S : TRUE}
  BY FS_Singleton

(* What a batch becomes when it is read is a batch again.                  *)
LEMMA ReadTyped ==
  ASSUME NEW b \in Batches, NEW key \in RowKeys, NEW left \in SUBSET Channels,
         NEW m \in BOOLEAN,
         NEW stage \in {"single", "merged"}
  PROVE  [b EXCEPT !.stage = stage, !.left = left, !.muted = m, !.key = key] \in Batches
  BY DEF Batches

LEMMA WrittenTyped ==
  ASSUME NEW b \in Batches, NEW c
  PROVE  [b EXCEPT !.left = @ \ {c}] \in Batches
<1>1. b.left \ {c} \in SUBSET Channels
  BY DEF Batches
<1> QED
  BY <1>1 DEF Batches

(* An event Evaluate took on is at one place of the memory of its replica.  *)
PlacedAt(r) ==
    /\ IsFiniteSet(bucket[r])
    /\ \A e \in bucket[r] : outcome[e] = "bucketed" /\ home[e] = r
    /\ \A e \in fired[r] \cup spawned[r] : outcome[e] = "bucketed"
    /\ \A b \in batches[r] :
        /\ IsFiniteSet(b.items)
        /\ \A e \in b.items : outcome[e] = "bucketed" /\ home[e] = r /\ e \notin bucket[r]
    /\ \A b, b2 \in batches[r] : b # b2 => b.items \cap b2.items = {}

Placed == \A r \in Replicas : PlacedAt(r)

(* Reading a batch of one event.                                           *)
LEMMA ReadSingleTyped ==
  ASSUME SettingsTyped, RowsTyped, Placed, NEW r \in Replicas, NEW b \in batches[r],
         ReadSingle(r, b)
  PROVE  batches' \in [Replicas -> SUBSET Batches]
<1> DEFINE e == CHOOSE x \in b.items : TRUE
           left == IF feature THEN chans[e] \cap enabled ELSE {}
           key == Key(IF muted THEN "suppressed" ELSE "realtime", 0, e)
           b2 == [b EXCEPT !.stage = "single", !.left = left, !.muted = muted, !.key = key]
<1>1. b \in Batches
  BY DEF RowsTyped
<1>2. b.items = {e}
  BY OnlyOne DEF Placed, PlacedAt, ReadSingle
<1>3. e \in Events
  BY <1>1, <1>2 DEF Batches
<1>4. key \in RowKeys
  BY <1>3, KeyTyped DEF Kinds
<1>5. left \in SUBSET Channels /\ muted \in BOOLEAN
  BY DEF SettingsTyped
<1>6. Becomes(r, b, b2)
  BY DEF ReadSingle
<1> HIDE DEF e, left, key
<1>7. b2 \in Batches
  BY <1>1, <1>4, <1>5, ReadTyped
<1> HIDE DEF b2
<1> QED
  BY <1>6, <1>7, BecomesTyped

(* Reading a batch of several.                                             *)
LEMMA ReadMergedTyped ==
  ASSUME SettingsTyped, RowsTyped, NEW r \in Replicas, NEW b \in batches[r],
         ReadMerged(r, b)
  PROVE  /\ batches' \in [Replicas -> SUBSET Batches]
         /\ flushed' = [flushed EXCEPT ![r] = @ \cup {TimeBucket(now, Window)}]
<1> DEFINE left == IF feature THEN {c \in enabled : For(c, b.items) # {}} ELSE {}
           key == MergedKey(r, b)
           b2 == [b EXCEPT !.stage = "merged", !.left = left, !.muted = muted, !.key = key]
<1>1. b \in Batches
  BY DEF RowsTyped
<1>2. TimeBucket(now, Window) \in Int /\ b.key.tag \in Events \cup {NoOne}
  BY <1>1, TimeBucketInt, AggregatorAssumption DEF SettingsTyped, Batches, RowKeys
<1>3. key \in RowKeys
  BY <1>2, KeyTyped DEF Kinds, MergedKey
<1>4. left \in SUBSET Channels /\ muted \in BOOLEAN
  BY DEF SettingsTyped
<1>5. Becomes(r, b, b2) /\ flushed' = [flushed EXCEPT ![r] = @ \cup {TimeBucket(now, Window)}]
  BY DEF ReadMerged
<1> HIDE DEF left, key
<1>6. b2 \in Batches
  BY <1>1, <1>3, <1>4, ReadTyped
<1> HIDE DEF b2
<1> QED
  BY <1>5, <1>6, BecomesTyped

LEMMA WriteTyped ==
  ASSUME RowsTyped, NEW r \in Replicas, NEW b \in batches[r], Write(r, b)
  PROVE  batches' \in [Replicas -> SUBSET Batches] /\ outbox' \subseteq Rows
<1>1. b \in Batches
  BY DEF RowsTyped
<1>2. PICK c \in b.left :
        /\ LET es == IF b.stage = "single" THEN b.items ELSE For(c, b.items)
           IN Create({Row(c, b.key, es, b.muted,
                          b.key.kind # "suppressed" /\ Deferred(c, es))})
        /\ Becomes(r, b, [b EXCEPT !.left = @ \ {c}])
  BY DEF Write
<1> DEFINE es == IF b.stage = "single" THEN b.items ELSE For(c, b.items)
           d == b.key.kind # "suppressed" /\ Deferred(c, es)
<1>3. es \in SUBSET Events /\ c \in Channels /\ b.key \in RowKeys /\ b.muted \in BOOLEAN
  BY <1>1 DEF Batches, For
<1>4. d \in BOOLEAN
  BY DEF Deferred
<1>5. Create({Row(c, b.key, es, b.muted, d)})
  BY <1>2
<1> HIDE DEF es, d
<1>6. {Row(c, b.key, es, b.muted, d)} \in SUBSET Rows
  BY <1>3, <1>4, RowTyped
<1>7. outbox' \subseteq Rows
  BY <1>5, <1>6, CreateTyped
<1>8. [b EXCEPT !.left = @ \ {c}] \in Batches
  BY <1>1, WrittenTyped
<1> QED
  BY <1>2, <1>7, <1>8, BecomesTyped

LEMMA SuppressedTyped ==
  ASSUME NEW e \in Events, NEW sel \in SUBSET Channels
  PROVE  {Row(c, Key("suppressed", 0, e), {e}, FALSE, FALSE) : c \in sel} \in SUBSET Rows
<1>1. Key("suppressed", 0, e) \in RowKeys
  BY KeyTyped DEF Kinds
<1> QED
  BY <1>1, RowTyped

LEMMA SummaryTyped ==
  ASSUME EventsTyped, NEW e \in Events, NEW c \in Channels
  PROVE  {Row(c, Key("burst", slot[e], NoOne), {}, FALSE, Deferred(c, {e}))} \in SUBSET Rows
<1>1. Key("burst", slot[e], NoOne) \in RowKeys
  BY KeyTyped DEF EventsTyped, Kinds
<1>2. Deferred(c, {e}) \in BOOLEAN
  BY DEF Deferred
<1> QED
  BY <1>1, <1>2, RowTyped

LEMMA FlushRows ==
  ASSUME BucketsTyped, RowsTyped, NEW r \in Replicas, NEW x \in Events, Flush(r, x)
  PROVE  RowsTyped'
<1>1. Key("agg", 0, x) \in RowKeys
  BY KeyTyped DEF Kinds
<1>2. Taken(bucket[r], x) \in Batches
  BY <1>1 DEF Taken, Batches, BucketsTyped
<1>3. batches' = batches \/ batches' = [batches EXCEPT ![r] = @ \cup {Taken(bucket[r], x)}]
  BY DEF Flush, TakeBucket
<1>4. batches' \in [Replicas -> SUBSET Batches]
  BY <1>2, <1>3 DEF RowsTyped
<1> QED
  BY <1>4 DEF Flush, RowsTyped

(* Batches and rows.                                                       *)
LEMMA RowsStep ==
  ASSUME SettingsTyped, EventsTyped, BucketsTyped, RowsTyped, Placed, [AggNext]_aggVars
  PROVE  RowsTyped'
<1> USE DEF RowsTyped, Prepared, Count, Summary, OnBatch
<1>1. ASSUME NEW e \in Events, outcome[e] = "new", home[e] # NoOne, PrepareSkipped(e)
      PROVE  RowsTyped'
  BY <1>1 DEF PrepareSkipped
<1>2. ASSUME NEW e \in Events, outcome[e] = "new", home[e] # NoOne, PrepareRefused(e)
      PROVE  RowsTyped'
  BY <1>2 DEF PrepareRefused
<1>3. ASSUME NEW e \in Events, outcome[e] = "new", home[e] # NoOne, PreparePassed(e)
      PROVE  RowsTyped'
  BY <1>3 DEF PreparePassed
<1>4. ASSUME NEW e \in Events, outcome[e] = "new", home[e] # NoOne, PrepareSuppressed(e)
      PROVE  RowsTyped'
  <2>1. \A sel \in Selections(e) : sel \in SUBSET Channels
    BY <1>4, AggregatorAssumption DEF SettingsTyped, Selections
  <2>2. \/ outbox' = outbox
        \/ \E sel \in Selections(e) :
            Create({Row(c, Key("suppressed", 0, e), {e}, FALSE, FALSE) : c \in sel})
    BY <1>4 DEF PrepareSuppressed
  <2>3. outbox' \subseteq Rows
    BY <2>1, <2>2, CreateTyped, SuppressedTyped
  <2> QED
    BY <1>4, <2>3 DEF PrepareSuppressed
<1>5. ASSUME NEW e \in Events, outcome[e] = "prepared", Fold(e)
      PROVE  RowsTyped'
  BY <1>5 DEF Fold
<1>6. ASSUME NEW e \in Events, outcome[e] = "prepared", StartSummary(e)
      PROVE  RowsTyped'
  BY <1>6 DEF StartSummary
<1>7. ASSUME NEW e \in Events, outcome[e] = "prepared", OpenBucket(e)
      PROVE  RowsTyped'
  BY <1>7 DEF OpenBucket
<1>8. ASSUME NEW e \in Events, outcome[e] = "prepared", AddToBucket(e)
      PROVE  RowsTyped'
  BY <1>8 DEF AddToBucket
<1>9. ASSUME NEW e \in Events, SummaryRead(e) PROVE RowsTyped'
  BY <1>9 DEF SummaryRead
<1>10. ASSUME NEW e \in Events, SummaryWrite(e) PROVE RowsTyped'
  <2>1. outbox' \subseteq Rows
    BY <1>10, CreateTyped, SummaryTyped DEF SummaryWrite, EventsTyped
  <2> QED
    BY <1>10, <2>1 DEF SummaryWrite
<1>11. ASSUME NEW e \in Events, SummaryFails(e) PROVE RowsTyped'
  BY <1>11 DEF SummaryFails
<1>12. ASSUME NEW r \in Replicas, TimerFires(r) PROVE RowsTyped'
  BY <1>12 DEF TimerFires
<1>13. ASSUME NEW r \in Replicas, NEW x \in Events, Flush(r, x)
      PROVE  RowsTyped'
  <2> QED
    BY <1>13, FlushRows
<1>14. ASSUME NEW r \in Replicas, NEW b \in batches[r], ReadSingle(r, b)
      PROVE  RowsTyped'
  <2>1. batches' \in [Replicas -> SUBSET Batches]
    BY <1>14, ReadSingleTyped
  <2> QED
    BY <1>14, <2>1 DEF ReadSingle
<1>15. ASSUME NEW r \in Replicas, NEW b \in batches[r], ReadMerged(r, b)
      PROVE  RowsTyped'
  <2>1. batches' \in [Replicas -> SUBSET Batches]
    BY <1>15, ReadMergedTyped
  <2> QED
    BY <1>15, <2>1 DEF ReadMerged
<1>16. ASSUME NEW r \in Replicas, NEW b \in batches[r], Write(r, b)
      PROVE  RowsTyped'
  <2> QED
    BY <1>16, WriteTyped
<1>17. ASSUME NEW r \in Replicas, NEW b \in batches[r], FlushFails(r, b)
      PROVE  RowsTyped'
  BY <1>17 DEF FlushFails
<1>18. ASSUME NEW r \in Replicas, ReplicaDies(r) PROVE RowsTyped'
  BY <1>18 DEF ReplicaDies
<1>19. CASE Tick
  BY <1>19 DEF Tick
<1>20. CASE Switch
  BY <1>20 DEF Switch
<1>21. CASE UNCHANGED aggVars
  BY <1>21 DEF aggVars
<1> QED
  BY <1>1, <1>2, <1>3, <1>4, <1>5, <1>6, <1>7, <1>8, <1>9, <1>10, <1>11,
     <1>12, <1>13, <1>14, <1>15, <1>16, <1>17, <1>18, <1>19, <1>20, <1>21
  DEF AggNext, Prepare, Admit, Progress



(* How an event ended, and what was chosen for it, stays.                  *)
Kept ==
    /\ home' = home
    /\ \A e \in Events :
        /\ outcome[e] \in {"suppressed", "bucketed"} => outcome'[e] = outcome[e]
        /\ outcome[e] # "new" => outcome'[e] # "new" /\ chans'[e] = chans[e]

(* Outcomes are kept by every step.                                        *)
LEMMA KeptStep ==
  ASSUME EventsTyped, [AggNext]_aggVars
  PROVE  Kept
<1> USE DEF EventsTyped, Kept, perEvent, Prepared, Count, Summary, OnBatch, Evaluating
<1>1. ASSUME NEW e \in Events, outcome[e] = "new", home[e] # NoOne, PrepareSkipped(e)
      PROVE  Kept
  BY <1>1 DEF PrepareSkipped
<1>2. ASSUME NEW e \in Events, outcome[e] = "new", home[e] # NoOne, PrepareRefused(e)
      PROVE  Kept
  BY <1>2 DEF PrepareRefused
<1>3. ASSUME NEW e \in Events, outcome[e] = "new", home[e] # NoOne, PreparePassed(e)
      PROVE  Kept
  BY <1>3 DEF PreparePassed
<1>4. ASSUME NEW e \in Events, outcome[e] = "new", home[e] # NoOne, PrepareSuppressed(e)
      PROVE  Kept
  BY <1>4 DEF PrepareSuppressed
<1>5. ASSUME NEW e \in Events, outcome[e] = "prepared", Fold(e) PROVE Kept
  BY <1>5 DEF Fold
<1>6. ASSUME NEW e \in Events, outcome[e] = "prepared", StartSummary(e)
      PROVE  Kept
  BY <1>6 DEF StartSummary
<1>7. ASSUME NEW e \in Events, outcome[e] = "prepared", OpenBucket(e)
      PROVE  Kept
  BY <1>7 DEF OpenBucket
<1>8. ASSUME NEW e \in Events, outcome[e] = "prepared", AddToBucket(e)
      PROVE  Kept
  BY <1>8 DEF AddToBucket
<1>9. ASSUME NEW e \in Events, SummaryRead(e) PROVE Kept
  BY <1>9 DEF SummaryRead
<1>10. ASSUME NEW e \in Events, SummaryWrite(e) PROVE Kept
  BY <1>10 DEF SummaryWrite
<1>11. ASSUME NEW e \in Events, SummaryFails(e) PROVE Kept
  BY <1>11 DEF SummaryFails
<1>12. ASSUME NEW r \in Replicas, TimerFires(r) PROVE Kept
  BY <1>12 DEF TimerFires
<1>13. ASSUME NEW r \in Replicas, NEW x \in Events, Flush(r, x) PROVE Kept
  BY <1>13 DEF Flush
<1>14. ASSUME NEW r \in Replicas, NEW b \in batches[r], ReadSingle(r, b)
      PROVE  Kept
  BY <1>14 DEF ReadSingle
<1>15. ASSUME NEW r \in Replicas, NEW b \in batches[r], ReadMerged(r, b)
      PROVE  Kept
  BY <1>15 DEF ReadMerged
<1>16. ASSUME NEW r \in Replicas, NEW b \in batches[r], Write(r, b) PROVE Kept
  BY <1>16 DEF Write
<1>17. ASSUME NEW r \in Replicas, NEW b \in batches[r], FlushFails(r, b)
      PROVE  Kept
  BY <1>17 DEF FlushFails
<1>18. ASSUME NEW r \in Replicas, ReplicaDies(r) PROVE Kept
  BY <1>18 DEF ReplicaDies
<1>19. CASE Tick
  BY <1>19 DEF Tick
<1>20. CASE Switch
  BY <1>20 DEF Switch
<1>21. CASE UNCHANGED aggVars
  BY <1>21 DEF aggVars
<1> QED
  BY <1>1, <1>2, <1>3, <1>4, <1>5, <1>6, <1>7, <1>8, <1>9, <1>10, <1>11,
     <1>12, <1>13, <1>14, <1>15, <1>16, <1>17, <1>18, <1>19, <1>20, <1>21
  DEF AggNext, Prepare, Admit, Progress



LEMMA PlacedKept ==
  ASSUME EventsTyped, BucketsTyped, RowsTyped, Placed, Kept, NEW r \in Replicas
  PROVE  /\ \A e \in bucket[r] \cup fired[r] \cup spawned[r] : e \in Events /\ outcome'[e] = "bucketed"
         /\ \A e \in bucket[r] : home'[e] = r
         /\ \A b \in batches[r] : \A e \in b.items : outcome'[e] = "bucketed" /\ home'[e] = r
<1>1. bucket[r] \cup fired[r] \cup spawned[r] \subseteq Events
  BY DEF BucketsTyped
<1>2. \A b \in batches[r] : b.items \subseteq Events
  BY DEF RowsTyped, Batches
<1> QED
  BY <1>1, <1>2 DEF Placed, PlacedAt, Kept

LEMMA PlacedElsewhere ==
  ASSUME EventsTyped, BucketsTyped, RowsTyped, Placed, Kept, NEW r \in Replicas,
         bucket'[r] = bucket[r], batches'[r] = batches[r], fired'[r] \subseteq fired[r],
         spawned'[r] \subseteq spawned[r]
  PROVE  PlacedAt(r)'
  BY PlacedKept DEF Placed, PlacedAt

LEMMA PlacedSame ==
  ASSUME EventsTyped, BucketsTyped, RowsTyped, Placed, Kept,
         UNCHANGED <<bucket, batches, fired, spawned>>
  PROVE  Placed'
  BY PlacedKept DEF Placed, PlacedAt

LEMMA BecomesPlaced ==
  ASSUME EventsTyped, BucketsTyped, RowsTyped, Placed, Kept,
         UNCHANGED <<bucket, fired, spawned>>,
         NEW r \in Replicas, NEW b \in batches[r], NEW b2, b2.items = b.items,
         Becomes(r, b, b2)
  PROVE  Placed'
<1>1. /\ batches'[r] \subseteq (batches[r] \ {b}) \cup {b2}
      /\ \A r2 \in Replicas : r2 # r => batches'[r2] = batches[r2]
  BY DEF Becomes, RowsTyped
<1>2. \A r2 \in Replicas : \A c \in batches'[r2] : \E d \in batches[r2] : c.items = d.items
  BY <1>1
<1>3. \A c, d \in batches'[r] : c # d => c.items \cap d.items = {}
  BY <1>1 DEF Placed, PlacedAt
<1>4. \A r2 \in Replicas : \A c, d \in batches'[r2] : c # d => c.items \cap d.items = {}
  BY <1>1, <1>3 DEF Placed, PlacedAt
<1> QED
  BY <1>2, <1>4, PlacedKept DEF Placed, PlacedAt

LEMMA FewerPlaced ==
  ASSUME EventsTyped, BucketsTyped, RowsTyped, Placed, Kept, NEW r \in Replicas,
         UNCHANGED <<bucket, fired, spawned>>, NEW b, batches' = [batches EXCEPT ![r] = @ \ {b}]
  PROVE  Placed'
<1>1. \A r2 \in Replicas : batches'[r2] \subseteq batches[r2]
  BY DEF RowsTyped
<1> QED
  BY <1>1, PlacedKept DEF Placed, PlacedAt

LEMMA DeadPlaced ==
  ASSUME EventsTyped, BucketsTyped, RowsTyped, Placed, Kept, NEW r \in Replicas,
         ReplicaDies(r)
  PROVE  Placed'
<1>1. /\ bucket'[r] = {} /\ fired'[r] = {} /\ spawned'[r] = {} /\ batches'[r] = {}
      /\ \A r2 \in Replicas : r2 # r =>
            /\ bucket'[r2] = bucket[r2] /\ batches'[r2] = batches[r2]
            /\ fired'[r2] = fired[r2] /\ spawned'[r2] = spawned[r2]
  BY DEF ReplicaDies, BucketsTyped, RowsTyped
<1>2. PlacedAt(r)'
  BY <1>1, FS_EmptySet DEF PlacedAt
<1>3. ASSUME NEW r2 \in Replicas, r2 # r PROVE PlacedAt(r2)'
  BY <1>1, <1>3, PlacedElsewhere
<1> QED
  BY <1>2, <1>3 DEF Placed

LEMMA FlushPlaced ==
  ASSUME EventsTyped, BucketsTyped, RowsTyped, Placed, Kept, NEW r \in Replicas,
         NEW x \in Events,
         Flush(r, x)
  PROVE  Placed'
<1>1. \A r2 \in Replicas : fired'[r2] \subseteq fired[r2] /\ spawned'[r2] \subseteq spawned[r2]
  BY DEF Flush, BucketsTyped
<1>2. CASE UNCHANGED <<bucket, batches>>
  BY <1>1, <1>2, PlacedKept DEF Placed, PlacedAt
<1>3. CASE /\ bucket' = [bucket EXCEPT ![r] = {}]
           /\ batches' = [batches EXCEPT ![r] = @ \cup {Taken(bucket[r], x)}]
  <2> DEFINE new == Taken(bucket[r], x)
  <2>1. new.items = bucket[r]
    BY DEF Taken
  <2> HIDE DEF new
  <2>2. /\ bucket'[r] = {} /\ batches'[r] = batches[r] \cup {new}
        /\ \A r2 \in Replicas : r2 # r => bucket'[r2] = bucket[r2] /\ batches'[r2] = batches[r2]
    BY <1>3 DEF BucketsTyped, RowsTyped, new
  <2>3. IsFiniteSet({})
    BY FS_EmptySet
  <2>4. \A b \in batches[r] : b.items \cap new.items = {}
    BY <2>1 DEF Placed, PlacedAt
  <2>5. \A b \in batches'[r] :
          /\ IsFiniteSet(b.items)
          /\ \A e \in b.items : outcome'[e] = "bucketed" /\ home'[e] = r /\ e \notin bucket'[r]
    BY <2>1, <2>2, PlacedKept DEF Placed, PlacedAt
  <2>6. \A b, b2 \in batches'[r] : b # b2 => b.items \cap b2.items = {}
    BY <2>2, <2>4 DEF Placed, PlacedAt
  <2>7. \A e \in fired'[r] \cup spawned'[r] : outcome'[e] = "bucketed"
    BY <1>1, PlacedKept
  <2>8. PlacedAt(r)'
    BY <2>2, <2>3, <2>5, <2>6, <2>7 DEF PlacedAt
  <2>9. ASSUME NEW r2 \in Replicas, r2 # r PROVE PlacedAt(r2)'
    BY <1>1, <2>2, <2>9, PlacedElsewhere
  <2> QED
    BY <2>8, <2>9 DEF Placed
<1> QED
  BY <1>2, <1>3 DEF Flush, TakeBucket

(* An event that joins a bucket was nowhere before.                        *)
LEMMA JoinedPlaced ==
  ASSUME EventsTyped, BucketsTyped, RowsTyped, Placed, Kept,
         NEW e \in Events, NEW r \in Replicas, home[e] = r, outcome[e] = "prepared",
         outcome'[e] = "bucketed", UNCHANGED <<fired, batches>>,
         NEW first1 \in SUBSET bucket[r],
         bucket' = [bucket EXCEPT ![r] = @ \cup {e}],
         spawned' = [spawned EXCEPT ![r] = @ \cup first1]
  PROVE  Placed'
<1>1. /\ bucket'[r] = bucket[r] \cup {e} /\ spawned'[r] = spawned[r] \cup first1
      /\ \A r2 \in Replicas : r2 # r => bucket'[r2] = bucket[r2] /\ spawned'[r2] = spawned[r2]
  BY DEF BucketsTyped
<1>2. IsFiniteSet(bucket'[r])
  <2>1. IsFiniteSet(bucket[r])
    BY DEF Placed, PlacedAt
  <2>2. IsFiniteSet(bucket[r] \cup {e})
    BY <2>1, FS_AddElement
  <2> QED
    BY <1>1, <2>2
<1>3. \A b \in batches[r] : e \notin b.items
  BY DEF Placed, PlacedAt
<1>4. home'[e] = r
  BY DEF Kept
<1>5. PlacedAt(r)'
  BY <1>1, <1>2, <1>3, <1>4, PlacedKept DEF Placed, PlacedAt
<1>6. ASSUME NEW r2 \in Replicas, r2 # r PROVE PlacedAt(r2)'
  BY <1>1, <1>6, PlacedElsewhere
<1> QED
  BY <1>5, <1>6 DEF Placed

LEMMA TimerPlaced ==
  ASSUME EventsTyped, BucketsTyped, RowsTyped, Placed, Kept, NEW r \in Replicas,
         NEW x \in bucket[r],
         fired' = [fired EXCEPT ![r] = @ \cup {x}], UNCHANGED <<bucket, batches, spawned>>
  PROVE  Placed'
<1>1. /\ fired'[r] = fired[r] \cup {x}
      /\ \A r2 \in Replicas : r2 # r => fired'[r2] = fired[r2]
  BY DEF BucketsTyped
<1>2. PlacedAt(r)'
  BY <1>1, PlacedKept DEF Placed, PlacedAt
<1>3. ASSUME NEW r2 \in Replicas, r2 # r PROVE PlacedAt(r2)'
  BY <1>1, <1>3, PlacedElsewhere
<1> QED
  BY <1>2, <1>3 DEF Placed

LEMMA BatchBecomes ==
  ASSUME RowsTyped, NEW r \in Replicas, NEW b \in batches[r],
         ReadSingle(r, b) \/ ReadMerged(r, b) \/ Write(r, b)
  PROVE  \E b2 : b2.items = b.items /\ Becomes(r, b, b2)
<1>1. b \in Batches
  BY DEF RowsTyped
<1> HIDE DEF Becomes
<1>2. \A stage, left, key, m :
          [b EXCEPT !.stage = stage, !.left = left, !.muted = m, !.key = key].items = b.items
  BY <1>1 DEF Batches
<1>3. \A left : [b EXCEPT !.left = left].items = b.items
  BY <1>1 DEF Batches
<1>4. CASE ReadSingle(r, b)
  <2> DEFINE e == CHOOSE x \in b.items : TRUE
             left == IF feature THEN chans[e] \cap enabled ELSE {}
             key == Key(IF muted THEN "suppressed" ELSE "realtime", 0, e)
             b2 == [b EXCEPT !.stage = "single", !.left = left, !.muted = muted, !.key = key]
  <2>1. Becomes(r, b, b2)
    BY <1>4 DEF ReadSingle
  <2> HIDE DEF e, left, key
  <2>2. b2.items = b.items
    BY <1>2
  <2> QED
    BY <2>1, <2>2
<1>5. CASE ReadMerged(r, b)
  <2> DEFINE left == IF feature THEN {c \in enabled : For(c, b.items) # {}} ELSE {}
             key == MergedKey(r, b)
             b2 == [b EXCEPT !.stage = "merged", !.left = left, !.muted = muted, !.key = key]
  <2>1. Becomes(r, b, b2)
    BY <1>5 DEF ReadMerged
  <2> HIDE DEF left, key
  <2>2. b2.items = b.items
    BY <1>2
  <2> QED
    BY <2>1, <2>2
<1>6. CASE Write(r, b)
  BY <1>3, <1>6 DEF Write
<1> QED
  BY <1>4, <1>5, <1>6

(* Every step leaves each event at one place.                              *)
LEMMA PlacedStep ==
  ASSUME AggTypeOK, Homed, Opened, Placed, [AggNext]_aggVars
  PROVE  Placed'
<1> USE Typed, KeptStep DEF Prepared, Count, Summary, OnBatch, buckets
<1>1. ASSUME NEW e \in Events, outcome[e] = "new", home[e] # NoOne, PrepareSkipped(e)
      PROVE  Placed'
  BY <1>1, PlacedSame DEF PrepareSkipped
<1>2. ASSUME NEW e \in Events, outcome[e] = "new", home[e] # NoOne, PrepareRefused(e)
      PROVE  Placed'
  BY <1>2, PlacedSame DEF PrepareRefused
<1>3. ASSUME NEW e \in Events, outcome[e] = "new", home[e] # NoOne, PreparePassed(e)
      PROVE  Placed'
  BY <1>3, PlacedSame DEF PreparePassed
<1>4. ASSUME NEW e \in Events, outcome[e] = "new", home[e] # NoOne, PrepareSuppressed(e)
      PROVE  Placed'
  BY <1>4, PlacedSame DEF PrepareSuppressed
<1>5. ASSUME NEW e \in Events, outcome[e] = "prepared", Fold(e) PROVE Placed'
  BY <1>5, PlacedSame DEF Fold
<1>6. ASSUME NEW e \in Events, outcome[e] = "prepared", StartSummary(e)
      PROVE  Placed'
  BY <1>6, PlacedSame DEF StartSummary
<1>7. ASSUME NEW e \in Events, outcome[e] = "prepared", OpenBucket(e)
      PROVE  Placed'
  <2>1. /\ outcome[e] = "prepared" /\ outcome'[e] = "bucketed"
    BY <1>7 DEF OpenBucket, EventsTyped
  <2>2. home[e] \in Replicas
    BY <1>7 DEF Homed
  <2>3. bucket' = [bucket EXCEPT ![home[e]] = @ \cup {e}] /\ UNCHANGED <<fired, spawned, batches>>
    BY <1>7 DEF OpenBucket
  <2>4. spawned' = [spawned EXCEPT ![home[e]] = @ \cup {}]
    BY <1>7, <2>2, <2>3 DEF BucketsTyped
  <2>5. \E first1 \in SUBSET bucket[home[e]] : spawned' = [spawned EXCEPT ![home[e]] = @ \cup first1]
    BY <2>4
  <2> QED
    BY <2>1, <2>2, <2>3, <2>5, JoinedPlaced
<1>8. ASSUME NEW e \in Events, outcome[e] = "prepared", AddToBucket(e)
      PROVE  Placed'
  <2>1. /\ outcome[e] = "prepared" /\ outcome'[e] = "bucketed"
    BY <1>8 DEF AddToBucket, EventsTyped
  <2>2. home[e] \in Replicas
    BY <1>8 DEF Homed
  <2>3. EarlyFlush(home[e], Cardinality(bucket[home[e]]) + 1) \in SUBSET bucket[home[e]]
    BY <1>8, <2>2 DEF AddToBucket, EarlyFlush, Opened
  <2>4. /\ bucket' = [bucket EXCEPT ![home[e]] = @ \cup {e}] /\ UNCHANGED <<fired, batches>>
        /\ spawned' = [spawned EXCEPT ![home[e]] = @ \cup EarlyFlush(home[e], Cardinality(bucket[home[e]]) + 1)]
    BY <1>8 DEF AddToBucket
  <2>5. \E first1 \in SUBSET bucket[home[e]] : spawned' = [spawned EXCEPT ![home[e]] = @ \cup first1]
    BY <2>3, <2>4
  <2> QED
    BY <2>1, <2>2, <2>4, <2>5, JoinedPlaced
<1>9. ASSUME NEW e \in Events, SummaryRead(e) PROVE Placed'
  BY <1>9, PlacedSame DEF SummaryRead
<1>10. ASSUME NEW e \in Events, SummaryWrite(e) PROVE Placed'
  BY <1>10, PlacedSame DEF SummaryWrite
<1>11. ASSUME NEW e \in Events, SummaryFails(e) PROVE Placed'
  BY <1>11, PlacedSame DEF SummaryFails
<1>12. ASSUME NEW r \in Replicas, TimerFires(r) PROVE Placed'
  <2>1. first[r] \in bucket[r]
    BY <1>12 DEF TimerFires, Opened
  <2>2. fired' = [fired EXCEPT ![r] = @ \cup {first[r]}] /\ UNCHANGED <<bucket, batches, spawned>>
    BY <1>12 DEF TimerFires
  <2> QED
    BY <2>1, <2>2, TimerPlaced
<1>13. ASSUME NEW r \in Replicas, NEW x \in Events, Flush(r, x) PROVE Placed'
  BY <1>13, FlushPlaced
<1>14. ASSUME NEW r \in Replicas, NEW b \in batches[r], ReadSingle(r, b)
      PROVE  Placed'
  <2> QED
    BY <1>14, BatchBecomes, BecomesPlaced DEF ReadSingle
<1>15. ASSUME NEW r \in Replicas, NEW b \in batches[r], ReadMerged(r, b)
      PROVE  Placed'
  <2> QED
    BY <1>15, BatchBecomes, BecomesPlaced DEF ReadMerged
<1>16. ASSUME NEW r \in Replicas, NEW b \in batches[r], Write(r, b)
      PROVE  Placed'
  <2> QED
    BY <1>16, BatchBecomes, BecomesPlaced DEF Write
<1>17. ASSUME NEW r \in Replicas, NEW b \in batches[r], FlushFails(r, b)
      PROVE  Placed'
  <2> QED
    BY <1>17, FewerPlaced DEF FlushFails
<1>18. ASSUME NEW r \in Replicas, ReplicaDies(r) PROVE Placed'
  BY <1>18, DeadPlaced
<1>19. CASE Tick
  BY <1>19, PlacedSame DEF Tick
<1>20. CASE Switch
  BY <1>20, PlacedSame DEF Switch
<1>21. CASE UNCHANGED aggVars
  BY <1>21, PlacedSame DEF aggVars
<1> QED
  BY <1>1, <1>2, <1>3, <1>4, <1>5, <1>6, <1>7, <1>8, <1>9, <1>10, <1>11,
     <1>12, <1>13, <1>14, <1>15, <1>16, <1>17, <1>18, <1>19, <1>20, <1>21
  DEF AggNext, Prepare, Admit, Progress



(* A row is about events that are settled, and that are nowhere in memory   *)
(* but in a batch that has other channels left to write for.                *)
RowSettled(rec) ==
    /\ rec.key.kind \in {"suppressed", "realtime"} => rec.key.tag \in rec.events
    /\ \A e \in rec.events :
        /\ outcome[e] \in {"suppressed", "bucketed"}
        /\ chans[e] # {} => rec.ch \in chans[e]

Apart(rec) ==
    \A e \in rec.events : \A r \in Replicas :
        /\ e \notin bucket[r]
        /\ \A b \in batches[r] : e \in b.items => b.stage # "taken" /\ rec.ch \notin b.left

BatchRouted(b) ==
    /\ b.stage = "single" =>
          /\ b.key.kind \in {"suppressed", "realtime"} /\ b.key.tag \in b.items
          /\ \A e \in b.items : b.left \subseteq chans[e]
    /\ b.stage = "merged" => b.key.kind = "agg"

SuppressedTold ==
    \A e \in Events :
        outcome[e] = "suppressed" => chans[e] # {} /\ \A c \in chans[e] : Told(e, c)

Written ==
    /\ \A rec \in outbox : RowSettled(rec) /\ Apart(rec)
    /\ \A r \in Replicas : \A b \in batches[r] : BatchRouted(b)
    /\ OneRowPerEvent
    /\ SuppressedTold

(* What was said of rows and batches holds of them after the step.          *)
LEMMA SettledKept ==
  ASSUME EventsTyped, RowsTyped, Written, Kept
  PROVE  /\ \A rec \in outbox : RowSettled(rec)'
         /\ \A r \in Replicas : \A b \in batches[r] : Placed => BatchRouted(b)'
<1>1. \A rec \in outbox : rec.events \subseteq Events
  BY DEF RowsTyped, Rows
<1>2. \A r \in Replicas : \A b \in batches[r] : b.items \subseteq Events
  BY DEF RowsTyped, Batches
<1>3. \A rec \in outbox : RowSettled(rec)'
  BY <1>1 DEF Written, RowSettled, Kept
<1>4. ASSUME NEW r \in Replicas, NEW b \in batches[r], Placed PROVE BatchRouted(b)'
  BY <1>2, <1>4 DEF Written, BatchRouted, Kept, Placed, PlacedAt
<1> QED
  BY <1>3, <1>4

LEMMA ToldKept ==
  ASSUME EventsTyped, Written, Kept, outbox \subseteq outbox',
         \A e \in Events : outcome'[e] = "suppressed" => outcome[e] = "suppressed"
  PROVE  SuppressedTold'
  BY DEF Written, SuppressedTold, Told, Kept

LEMMA WrittenSame ==
  ASSUME EventsTyped, BucketsTyped, RowsTyped, Placed, Written, Kept,
         UNCHANGED outbox,
         \A r \in Replicas : \A x \in bucket'[r] : x \in bucket[r] \/ outcome[x] = "prepared",
         \A r \in Replicas : batches'[r] \subseteq batches[r],
         \A e \in Events : outcome'[e] = "suppressed" => outcome[e] = "suppressed"
  PROVE  Written'
<1>1. \A rec \in outbox : Apart(rec)'
  BY DEF Written, Apart, RowSettled
<1>2. SuppressedTold'
  BY ToldKept
<1>3. OneRowPerEvent'
  BY DEF Written, OneRowPerEvent
<1> QED
  BY <1>1, <1>2, <1>3, SettledKept DEF Written

LEMMA FlushWritten ==
  ASSUME EventsTyped, BucketsTyped, RowsTyped, Placed, Written, Kept, NEW r \in Replicas,
         NEW x \in Events, Flush(r, x)
  PROVE  Written'
<1>1. outbox' = outbox /\ \A e \in Events : outcome'[e] = "suppressed" => outcome[e] = "suppressed"
  BY DEF Flush, perEvent
<1>2. CASE UNCHANGED <<bucket, batches>>
  BY <1>1, <1>2, WrittenSame
<1>3. CASE /\ bucket' = [bucket EXCEPT ![r] = {}]
           /\ batches' = [batches EXCEPT ![r] = @ \cup {Taken(bucket[r], x)}]
  <2>0. PICK new : new = Taken(bucket[r], x)
    OBVIOUS
  <2>1. new.items = bucket[r] /\ new.stage = "taken"
    BY <2>0 DEF Taken
  <2>2. /\ bucket'[r] = {} /\ batches'[r] = batches[r] \cup {new}
        /\ \A r2 \in Replicas : r2 # r => bucket'[r2] = bucket[r2] /\ batches'[r2] = batches[r2]
    BY <1>3, <2>0 DEF BucketsTyped, RowsTyped
  <2>3. \A rec \in outbox : Apart(rec)'
    BY <2>1, <2>2 DEF Written, Apart
  <2>4. BatchRouted(new)'
    BY <2>1 DEF BatchRouted
  <2>5. SuppressedTold'
    BY <1>1, ToldKept
  <2>6. OneRowPerEvent'
    BY <1>1 DEF Written, OneRowPerEvent
  <2>7. \A r2 \in Replicas : \A b \in batches'[r2] : BatchRouted(b)'
    BY <2>2, <2>4, SettledKept
  <2> QED
    BY <1>1, <2>3, <2>5, <2>6, <2>7, SettledKept DEF Written
<1> QED
  BY <1>2, <1>3 DEF Flush, TakeBucket

(* A batch that is read: nothing of it was written before.                 *)
LEMMA ReadWritten ==
  ASSUME EventsTyped, BucketsTyped, RowsTyped, Placed, Written, Kept, NEW r \in Replicas,
         NEW b \in batches[r], b.stage = "taken", NEW b2, b2.items = b.items,
         BatchRouted(b2)',
         b2.stage # "taken", Becomes(r, b, b2), UNCHANGED <<bucket, outbox, outcome>>
  PROVE  Written'
<1>1. /\ batches'[r] \subseteq (batches[r] \ {b}) \cup {b2}
      /\ \A r2 \in Replicas : r2 # r => batches'[r2] = batches[r2]
  BY DEF Becomes, RowsTyped
<1>2. \A rec \in outbox : rec.events \cap b.items = {}
  BY DEF Written, Apart
<1>3. \A rec \in outbox : Apart(rec)'
  BY <1>1, <1>2 DEF Written, Apart
<1>4. \A r2 \in Replicas : \A c \in batches'[r2] : BatchRouted(c)'
  BY <1>1, SettledKept
<1>5. SuppressedTold'
  BY ToldKept
<1>6. OneRowPerEvent'
  BY DEF Written, OneRowPerEvent
<1> QED
  BY <1>3, <1>4, <1>5, <1>6, SettledKept DEF Written

LEMMA ReadSingleWritten ==
  ASSUME EventsTyped, BucketsTyped, RowsTyped, Placed, Written, Kept, NEW r \in Replicas,
         NEW b \in batches[r], ReadSingle(r, b)
  PROVE  Written'
<1>1. b \in Batches /\ b.stage = "taken"
  BY DEF RowsTyped, ReadSingle
<1>2. PICK e : e = CHOOSE x \in b.items : TRUE
  OBVIOUS
<1>3. b.items = {e}
  BY <1>2, OnlyOne DEF Placed, PlacedAt, ReadSingle
<1>4. PICK left, key, b2 :
        /\ left = IF feature THEN chans[e] \cap enabled ELSE {}
        /\ key = Key(IF muted THEN "suppressed" ELSE "realtime", 0, e)
        /\ b2 = [b EXCEPT !.stage = "single", !.left = left, !.muted = muted, !.key = key]
        /\ Becomes(r, b, b2)
  BY <1>2 DEF ReadSingle
<1>5. b2.items = {e} /\ b2.stage = "single" /\ b2.left = left /\ b2.key = key
  BY <1>1, <1>3, <1>4 DEF Batches
<1>6. left \subseteq chans[e] /\ key.tag = e /\ key.kind \in {"suppressed", "realtime"}
  BY <1>4 DEF Key
<1>7. UNCHANGED <<bucket, outbox, outcome, chans>>
  BY DEF ReadSingle, OnBatch, perEvent, buckets
<1>8. BatchRouted(b2)'
  BY <1>5, <1>6, <1>7 DEF BatchRouted
<1> QED
  BY <1>1, <1>3, <1>4, <1>5, <1>7, <1>8, ReadWritten

LEMMA ReadMergedWritten ==
  ASSUME EventsTyped, BucketsTyped, RowsTyped, Placed, Written, Kept, NEW r \in Replicas,
         NEW b \in batches[r], ReadMerged(r, b)
  PROVE  Written'
<1>1. b \in Batches /\ b.stage = "taken"
  BY DEF RowsTyped, ReadMerged
<1>2. PICK left, key, b2 :
        /\ key = MergedKey(r, b)
        /\ b2 = [b EXCEPT !.stage = "merged", !.left = left, !.muted = muted, !.key = key]
        /\ Becomes(r, b, b2)
  BY DEF ReadMerged
<1>3. b2.items = b.items /\ b2.stage = "merged" /\ b2.key = key
  BY <1>1, <1>2 DEF Batches
<1>4. key.kind = "agg"
  BY <1>2 DEF MergedKey, Key
<1>5. UNCHANGED <<bucket, outbox, outcome, chans>>
  BY DEF ReadMerged, OnBatch, perEvent, buckets
<1>6. BatchRouted(b2)'
  BY <1>3, <1>4 DEF BatchRouted
<1> QED
  BY <1>1, <1>2, <1>3, <1>5, <1>6, ReadWritten

(* A batch that writes one row: none on that channel had any of its events. *)
LEMMA WriteWritten ==
  ASSUME EventsTyped, BucketsTyped, RowsTyped, Placed, Written, Kept, NEW r \in Replicas,
         NEW b \in batches[r], Write(r, b)
  PROVE  Written'
<1>1. b \in Batches /\ b.stage # "taken" /\ BatchRouted(b)
  BY DEF RowsTyped, Write, Written
<1>2. PICK c \in b.left :
        /\ LET es == IF b.stage = "single" THEN b.items ELSE For(c, b.items)
           IN Create({Row(c, b.key, es, b.muted,
                          b.key.kind # "suppressed" /\ Deferred(c, es))})
        /\ Becomes(r, b, [b EXCEPT !.left = @ \ {c}])
  BY DEF Write
<1>3. PICK es, rec, b2 :
        /\ es = IF b.stage = "single" THEN b.items ELSE For(c, b.items)
        /\ rec = Row(c, b.key, es, b.muted, b.key.kind # "suppressed" /\ Deferred(c, es))
        /\ b2 = [b EXCEPT !.left = @ \ {c}]
        /\ Create({rec}) /\ Becomes(r, b, b2)
  BY <1>2
<1>4. rec.ch = c /\ rec.key = b.key /\ rec.events = es /\ es \subseteq b.items
  BY <1>3 DEF Row, For
<1>5. b2.items = b.items /\ b2.stage = b.stage /\ b2.left = b.left \ {c} /\ b2.key = b.key
  BY <1>1, <1>3 DEF Batches
<1>6. UNCHANGED <<bucket, outcome, chans, home>>
  BY DEF Write, OnBatch, perEvent, buckets
<1>7. outbox \subseteq outbox' /\ outbox' \subseteq outbox \cup {rec}
  BY <1>3 DEF Create
<1>8. /\ batches'[r] \subseteq (batches[r] \ {b}) \cup {b2}
      /\ \A r2 \in Replicas : r2 # r => batches'[r2] = batches[r2]
  BY <1>3 DEF Becomes, RowsTyped
<1>9. \A o \in outbox : o.ch = c => o.events \cap es = {}
  BY <1>4 DEF Written, Apart
<1>10. \A e \in es : outcome[e] = "bucketed" /\ home[e] = r /\ e \notin bucket[r]
  BY <1>4 DEF Placed, PlacedAt
<1>11. RowSettled(rec)'
  <2>1. rec.key.kind \in {"suppressed", "realtime"} => rec.key.tag \in es
    BY <1>1, <1>3, <1>4 DEF BatchRouted, Batches
  <2>2. \A e \in es : chans[e] # {} => c \in chans[e]
    BY <1>1, <1>3 DEF BatchRouted, For
  <2> QED
    BY <1>4, <1>6, <1>10, <2>1, <2>2 DEF RowSettled
<1>12. Apart(rec)'
  <2>1. \A r2 \in Replicas : \A e \in es : e \notin bucket'[r2]
    BY <1>6, <1>10 DEF Placed, PlacedAt
  <2>2. \A b3 \in batches[r] \ {b} : b3.items \cap es = {}
    BY <1>4 DEF Placed, PlacedAt
  <2>3. \A r2 \in Replicas : r2 # r => \A b3 \in batches[r2] : b3.items \cap es = {}
    BY <1>10 DEF Placed, PlacedAt
  <2> QED
    BY <1>1, <1>4, <1>5, <1>8, <2>1, <2>2, <2>3 DEF Apart
<1>13. \A o \in outbox : Apart(o)'
  BY <1>5, <1>6, <1>8 DEF Written, Apart
<1>14. BatchRouted(b2)'
  BY <1>1, <1>5, <1>6 DEF BatchRouted
<1>15. \A r2 \in Replicas : \A b3 \in batches'[r2] : BatchRouted(b3)'
  BY <1>8, <1>14, SettledKept
<1>16. OneRowPerEvent'
  BY <1>4, <1>7, <1>9 DEF Written, OneRowPerEvent
<1>17. SuppressedTold'
  BY <1>6, <1>7, ToldKept
<1> QED
  BY <1>7, <1>11, <1>12, <1>13, <1>15, <1>16, <1>17, SettledKept DEF Written

(* The summary of a burst names no event.                                  *)
LEMMA SummaryWritten ==
  ASSUME EventsTyped, BucketsTyped, RowsTyped, Placed, Written, Kept, NEW e \in Events,
         SummaryWrite(e)
  PROVE  Written'
<1>1. PICK rec : /\ rec.key.kind = "burst" /\ rec.events = {}
                 /\ outbox' = outbox \/ outbox' = outbox \cup {rec}
  <2>1. PICK c \in todo[e] : Create({Row(c, Key("burst", slot[e], NoOne), {}, FALSE, Deferred(c, {e}))})
    BY DEF SummaryWrite
  <2>2. PICK rec : rec = Row(c, Key("burst", slot[e], NoOne), {}, FALSE, Deferred(c, {e})) /\ Create({rec})
    BY <2>1
  <2>3. rec.key.kind = "burst" /\ rec.events = {}
    BY <2>2 DEF Row, Key
  <2> QED
    BY <2>2, <2>3 DEF Create
<1>2. UNCHANGED <<bucket, batches>>
      /\ \A x \in Events : outcome'[x] = "suppressed" => outcome[x] = "suppressed"
  BY DEF SummaryWrite, Summary, buckets, EventsTyped
<1>3. \A o \in outbox' : RowSettled(o)' /\ Apart(o)'
  BY <1>1, <1>2, SettledKept DEF Written, RowSettled, Apart
<1>4. \A r \in Replicas : \A b \in batches'[r] : BatchRouted(b)'
  BY <1>2, SettledKept
<1>5. OneRowPerEvent'
  BY <1>1 DEF Written, OneRowPerEvent
<1>6. SuppressedTold'
  BY <1>1, <1>2, ToldKept
<1> QED
  BY <1>3, <1>4, <1>5, <1>6 DEF Written

(* A verdict to suppress: the event is new, and no row is about it.        *)
LEMMA SuppressedWritten ==
  ASSUME SettingsTyped, EventsTyped, BucketsTyped, RowsTyped, Placed, Written, Kept,
         NEW e \in Events,
         outcome[e] = "new", PrepareSuppressed(e)
  PROVE  Written'
<1>1. UNCHANGED <<bucket, batches>>
  BY DEF PrepareSuppressed, Prepared, buckets
<1>2. CASE outbox' = outbox /\ outcome' = [outcome EXCEPT ![e] = "prepared"]
  BY <1>1, <1>2, WrittenSame DEF EventsTyped
<1>3. ASSUME NEW sel \in Selections(e), Prepared(e, "suppressed", sel),
             Create({Row(c, Key("suppressed", 0, e), {e}, FALSE, FALSE) : c \in sel})
      PROVE  Written'
  <2>0. Filters[e] \cap enabled # {}
    BY DEF PrepareSuppressed
  <2>1. sel # {}
    <3>1. sel = Filters[e] \cap enabled \/ sel \in (SUBSET (Filters[e] \cap enabled)) \ {{}}
      BY <1>3 DEF Selections
    <3> QED
      BY <2>0, <3>1
  <2>2. sel \subseteq Channels
    BY AggregatorAssumption DEF SettingsTyped, Selections
  <2>3. /\ outcome'[e] = "suppressed" /\ chans'[e] = sel
        /\ \A x \in Events : x # e => outcome'[x] = outcome[x]
    BY <1>3, <2>2 DEF Prepared, EventsTyped
  <2>4. PICK key : key = Key("suppressed", 0, e)
    OBVIOUS
  <2>5. PICK rows : rows = {Row(c, key, {e}, FALSE, FALSE) : c \in sel} /\ Create(rows)
    BY <1>3, <2>4
  <2>6. \A rec \in rows : /\ rec.ch \in sel /\ rec.key = key /\ rec.events = {e}
                          /\ rec = Row(rec.ch, key, {e}, FALSE, FALSE)
    BY <2>5 DEF Row
  <2>7. key.kind = "suppressed" /\ key.tag = e
    BY <2>4 DEF Key
  <2>8. \A o \in outbox : e \notin o.events /\ o.key # key
    BY <2>7 DEF Written, RowSettled
  <2>9. outbox' = outbox \cup rows
    BY <2>5, <2>6, <2>8 DEF Create, Conflict
  <2>10. \A r \in Replicas : e \notin bucket[r] /\ \A b \in batches[r] : e \notin b.items
    BY DEF Placed, PlacedAt
  <2>11. \A o \in outbox' : RowSettled(o)' /\ Apart(o)'
    <3>1. \A o \in outbox : RowSettled(o)' /\ Apart(o)'
      BY <1>1, SettledKept DEF Written, Apart
    <3>2. \A o \in rows : RowSettled(o)'
      BY <2>3, <2>6, <2>7 DEF RowSettled
    <3>3. \A o \in rows : Apart(o)'
      BY <1>1, <2>6, <2>10 DEF Apart
    <3> QED
      BY <2>9, <3>1, <3>2, <3>3
  <2>12. OneRowPerEvent'
    <3>1. \A o \in outbox : \A rec \in rows : o.events \cap rec.events = {}
      BY <2>6, <2>8
    <3>2. \A o, rec \in rows : o.ch = rec.ch => o = rec
      BY <2>6
    <3>3. \A o, rec \in outbox : o.ch = rec.ch /\ o.events \cap rec.events # {} => o = rec
      BY DEF Written, OneRowPerEvent
    <3> QED
      BY <2>9, <3>1, <3>2, <3>3 DEF OneRowPerEvent
  <2>13. \A c \in sel : \E rec \in outbox' : rec.ch = c /\ e \in rec.events
    <3>1. ASSUME NEW c \in sel PROVE Row(c, key, {e}, FALSE, FALSE) \in rows
      BY <2>5
    <3>2. \A c : Row(c, key, {e}, FALSE, FALSE).ch = c /\ Row(c, key, {e}, FALSE, FALSE).events = {e}
      BY DEF Row
    <3> QED
      BY <2>9, <3>1, <3>2
  <2>14. \A x \in Events : x # e /\ outcome'[x] = "suppressed" =>
              /\ outcome[x] = "suppressed" /\ chans'[x] = chans[x]
    BY <2>3 DEF Kept
  <2>15. SuppressedTold'
    BY <2>1, <2>3, <2>9, <2>13, <2>14 DEF Written, SuppressedTold, Told
  <2>16. \A r \in Replicas : \A b \in batches'[r] : BatchRouted(b)'
    BY <1>1, SettledKept
  <2> QED
    BY <2>11, <2>12, <2>15, <2>16 DEF Written
<1> QED
  BY <1>2, <1>3 DEF PrepareSuppressed, Prepared

(* Every step keeps the rows as they ought to be.                          *)
LEMMA WrittenStep ==
  ASSUME AggTypeOK, Placed, Written, [AggNext]_aggVars
  PROVE  Written'
<1> USE Typed, KeptStep, WrittenSame DEF Prepared, Count, Summary, OnBatch, buckets,
    perEvent, EventsTyped, BucketsTyped, RowsTyped
<1>1. ASSUME NEW e \in Events, outcome[e] = "new", home[e] # NoOne, PrepareSkipped(e)
      PROVE  Written'
  BY <1>1 DEF PrepareSkipped
<1>2. ASSUME NEW e \in Events, outcome[e] = "new", home[e] # NoOne, PrepareRefused(e)
      PROVE  Written'
  BY <1>2 DEF PrepareRefused
<1>3. ASSUME NEW e \in Events, outcome[e] = "new", home[e] # NoOne, PreparePassed(e)
      PROVE  Written'
  BY <1>3 DEF PreparePassed
<1>4. ASSUME NEW e \in Events, outcome[e] = "new", home[e] # NoOne, PrepareSuppressed(e)
      PROVE  Written'
  BY <1>4, SuppressedWritten
<1>5. ASSUME NEW e \in Events, outcome[e] = "prepared", Fold(e) PROVE Written'
  BY <1>5 DEF Fold
<1>6. ASSUME NEW e \in Events, outcome[e] = "prepared", StartSummary(e)
      PROVE  Written'
  BY <1>6 DEF StartSummary
<1>7. ASSUME NEW e \in Events, outcome[e] = "prepared", OpenBucket(e)
      PROVE  Written'
  BY <1>7 DEF OpenBucket
<1>8. ASSUME NEW e \in Events, outcome[e] = "prepared", AddToBucket(e)
      PROVE  Written'
  BY <1>8 DEF AddToBucket
<1>9. ASSUME NEW e \in Events, SummaryRead(e) PROVE Written'
  BY <1>9 DEF SummaryRead
<1>10. ASSUME NEW e \in Events, SummaryWrite(e) PROVE Written'
  BY <1>10, SummaryWritten
<1>11. ASSUME NEW e \in Events, SummaryFails(e) PROVE Written'
  BY <1>11 DEF SummaryFails
<1>12. ASSUME NEW r \in Replicas, TimerFires(r) PROVE Written'
  BY <1>12 DEF TimerFires
<1>13. ASSUME NEW r \in Replicas, NEW x \in Events, Flush(r, x) PROVE Written'
  BY <1>13, FlushWritten
<1>14. ASSUME NEW r \in Replicas, NEW b \in batches[r], ReadSingle(r, b)
      PROVE  Written'
  BY <1>14, ReadSingleWritten
<1>15. ASSUME NEW r \in Replicas, NEW b \in batches[r], ReadMerged(r, b)
      PROVE  Written'
  BY <1>15, ReadMergedWritten
<1>16. ASSUME NEW r \in Replicas, NEW b \in batches[r], Write(r, b)
      PROVE  Written'
  BY <1>16, WriteWritten
<1>17. ASSUME NEW r \in Replicas, NEW b \in batches[r], FlushFails(r, b)
      PROVE  Written'
  BY <1>17 DEF FlushFails
<1>18. ASSUME NEW r \in Replicas, ReplicaDies(r) PROVE Written'
  BY <1>18 DEF ReplicaDies
<1>19. CASE Tick
  BY <1>19 DEF Tick
<1>20. CASE Switch
  BY <1>20 DEF Switch
<1>21. CASE UNCHANGED aggVars
  BY <1>21 DEF aggVars
<1> QED
  BY <1>1, <1>2, <1>3, <1>4, <1>5, <1>6, <1>7, <1>8, <1>9, <1>10, <1>11,
     <1>12, <1>13, <1>14, <1>15, <1>16, <1>17, <1>18, <1>19, <1>20, <1>21
  DEF AggNext, Prepare, Admit, Progress



(* A flush on its way is one the bucket in the map is due for, and there is *)
(* one on its way, or a timer.                                              *)
ClockedAt(r) ==
    bucket[r] # {} =>
        /\ first[r] \in fired[r] => TimerDue(r)
        /\ first[r] \in spawned[r] => Cardinality(bucket[r]) >= MaxBatch
        /\ armed[r] \/ first[r] \in fired[r] \cup spawned[r]

Clocked == \A r \in Replicas : ClockedAt(r)

(* The clock goes on, and the first event of a bucket keeps its time.      *)
ClockKept ==
    /\ horizon' = horizon
    /\ now' = now \/ (now' = now + 1 /\ now < horizon)
    /\ \A r \in Replicas : bucket[r] # {} => stamp'[first[r]] = stamp[first[r]]

LEMMA CountClock ==
  ASSUME EventsTyped, Opened, Placed, NEW e \in Events, outcome[e] = "prepared",
         NEW to, Count(e, to)
  PROVE  ClockKept
<1>1. \A r \in Replicas : bucket[r] # {} => first[r] # e
  BY DEF Opened, Placed, PlacedAt
<1> QED
  BY <1>1 DEF Count, settings, EventsTyped, ClockKept

LEMMA TickClock ==
  ASSUME SettingsTyped, EventsTyped, BucketsTyped, Opened, Tick
  PROVE  ClockKept
<1>1. \A r \in Replicas : bucket[r] # {} => first[r] \in Events /\ Dated(first[r])
  BY DEF Opened, BucketsTyped, Dated
<1> QED
  BY <1>1 DEF Tick, settings, ClockKept

(* No step turns the clock back.                                           *)
LEMMA ClockStep ==
  ASSUME AggTypeOK, Opened, Placed, [AggNext]_aggVars
  PROVE  ClockKept
<1> USE Typed, CountClock, TickClock DEF ClockKept, Prepared, Summary, OnBatch,
    settings, perEvent
<1>1. ASSUME NEW e \in Events, outcome[e] = "new", home[e] # NoOne, PrepareSkipped(e)
      PROVE  ClockKept
  BY <1>1 DEF PrepareSkipped
<1>2. ASSUME NEW e \in Events, outcome[e] = "new", home[e] # NoOne, PrepareRefused(e)
      PROVE  ClockKept
  BY <1>2 DEF PrepareRefused
<1>3. ASSUME NEW e \in Events, outcome[e] = "new", home[e] # NoOne, PreparePassed(e)
      PROVE  ClockKept
  BY <1>3 DEF PreparePassed
<1>4. ASSUME NEW e \in Events, outcome[e] = "new", home[e] # NoOne, PrepareSuppressed(e)
      PROVE  ClockKept
  BY <1>4 DEF PrepareSuppressed
<1>5. ASSUME NEW e \in Events, outcome[e] = "prepared", Fold(e) PROVE ClockKept
  BY <1>5 DEF Fold
<1>6. ASSUME NEW e \in Events, outcome[e] = "prepared", StartSummary(e)
      PROVE  ClockKept
  BY <1>6 DEF StartSummary
<1>7. ASSUME NEW e \in Events, outcome[e] = "prepared", OpenBucket(e)
      PROVE  ClockKept
  BY <1>7 DEF OpenBucket
<1>8. ASSUME NEW e \in Events, outcome[e] = "prepared", AddToBucket(e)
      PROVE  ClockKept
  BY <1>8 DEF AddToBucket
<1>9. ASSUME NEW e \in Events, SummaryRead(e) PROVE ClockKept
  BY <1>9 DEF SummaryRead
<1>10. ASSUME NEW e \in Events, SummaryWrite(e) PROVE ClockKept
  BY <1>10 DEF SummaryWrite
<1>11. ASSUME NEW e \in Events, SummaryFails(e) PROVE ClockKept
  BY <1>11 DEF SummaryFails
<1>12. ASSUME NEW r \in Replicas, TimerFires(r) PROVE ClockKept
  BY <1>12 DEF TimerFires
<1>13. ASSUME NEW r \in Replicas, NEW x \in Events, Flush(r, x) PROVE ClockKept
  BY <1>13 DEF Flush
<1>14. ASSUME NEW r \in Replicas, NEW b \in batches[r], ReadSingle(r, b)
      PROVE  ClockKept
  BY <1>14 DEF ReadSingle
<1>15. ASSUME NEW r \in Replicas, NEW b \in batches[r], ReadMerged(r, b)
      PROVE  ClockKept
  BY <1>15 DEF ReadMerged
<1>16. ASSUME NEW r \in Replicas, NEW b \in batches[r], Write(r, b)
      PROVE  ClockKept
  BY <1>16 DEF Write
<1>17. ASSUME NEW r \in Replicas, NEW b \in batches[r], FlushFails(r, b)
      PROVE  ClockKept
  BY <1>17 DEF FlushFails
<1>18. ASSUME NEW r \in Replicas, ReplicaDies(r) PROVE ClockKept
  BY <1>18 DEF ReplicaDies
<1>19. CASE Tick
  BY <1>19 DEF Tick
<1>20. CASE Switch
  BY <1>20 DEF Switch
<1>21. CASE UNCHANGED aggVars
  BY <1>21 DEF aggVars
<1> QED
  BY <1>1, <1>2, <1>3, <1>4, <1>5, <1>6, <1>7, <1>8, <1>9, <1>10, <1>11,
     <1>12, <1>13, <1>14, <1>15, <1>16, <1>17, <1>18, <1>19, <1>20, <1>21
  DEF AggNext, Prepare, Admit, Progress



LEMMA DueKept ==
  ASSUME SettingsTyped, EventsTyped, Opened, ClockKept, NEW r \in Replicas,
         bucket[r] # {},
         first'[r] = first[r], TimerDue(r), first[r] \in Events
  PROVE  TimerDue(r)'
<1>1. stamp[first[r]] \in Nat /\ stamp'[first'[r]] = stamp[first[r]]
  BY DEF EventsTyped, ClockKept
<1> QED
  BY <1>1, AggregatorAssumption DEF SettingsTyped, ClockKept, TimerDue

LEMMA ClockedElsewhere ==
  ASSUME SettingsTyped, EventsTyped, BucketsTyped, Opened, Clocked, ClockKept,
         NEW r \in Replicas,
         bucket'[r] = bucket[r], first'[r] = first[r], armed'[r] = armed[r],
         \A x \in Events : x = first[r] /\ bucket[r] # {} =>
             (x \in fired'[r] <=> x \in fired[r]) /\ (x \in spawned'[r] <=> x \in spawned[r])
  PROVE  ClockedAt(r)'
<1>1. bucket[r] # {} => first[r] \in Events
  BY DEF Opened, BucketsTyped
<1> QED
  BY <1>1, DueKept DEF Clocked, ClockedAt

LEMMA ClockedSame ==
  ASSUME SettingsTyped, EventsTyped, BucketsTyped, Opened, Clocked, ClockKept,
         UNCHANGED buckets
  PROVE  Clocked'
<1>1. ASSUME NEW r \in Replicas PROVE ClockedAt(r)'
  BY ClockedElsewhere DEF buckets
<1> QED
  BY <1>1 DEF Clocked

LEMMA OpenClocked ==
  ASSUME SettingsTyped, EventsTyped, BucketsTyped, Homed, Opened, Placed, Clocked,
         ClockKept,
         NEW e \in Events, outcome[e] = "prepared", NEW r \in Replicas, home[e] = r,
         OpenBucket(e)
  PROVE  Clocked'
<1>1. /\ bucket'[r] = {e} /\ first'[r] = e /\ armed'[r]
      /\ \A r2 \in Replicas : r2 # r =>
            bucket'[r2] = bucket[r2] /\ first'[r2] = first[r2] /\ armed'[r2] = armed[r2]
      /\ UNCHANGED <<fired, spawned>>
  BY DEF OpenBucket, BucketsTyped
<1>2. e \notin fired[r] \cup spawned[r]
  BY DEF Placed, PlacedAt
<1>3. ClockedAt(r)'
  BY <1>1, <1>2 DEF ClockedAt
<1>4. ASSUME NEW r2 \in Replicas, r2 # r PROVE ClockedAt(r2)'
  BY <1>1, <1>4, ClockedElsewhere
<1> QED
  BY <1>3, <1>4 DEF Clocked

LEMMA JoinClocked ==
  ASSUME SettingsTyped, EventsTyped, BucketsTyped, Opened, Placed, Clocked, ClockKept,
         NEW e \in Events, outcome[e] = "prepared", NEW r \in Replicas, home[e] = r,
         AddToBucket(e)
  PROVE  Clocked'
<1> DEFINE n == Cardinality(bucket[r])
<1>1. /\ bucket'[r] = bucket[r] \cup {e} /\ bucket[r] # {} /\ UNCHANGED <<first, fired>>
      /\ spawned'[r] = spawned[r] \cup EarlyFlush(r, n + 1)
      /\ armed'[r] = (armed[r] /\ ~(n + 1 >= MaxBatch))
      /\ \A r2 \in Replicas : r2 # r =>
            bucket'[r2] = bucket[r2] /\ armed'[r2] = armed[r2] /\ spawned'[r2] = spawned[r2]
  BY DEF AddToBucket, BucketsTyped
<1>2. IsFiniteSet(bucket[r]) /\ e \notin bucket[r]
  BY DEF Placed, PlacedAt
<1>3. Cardinality(bucket'[r]) = n + 1 /\ n \in Nat
  <2>1. Cardinality(bucket[r] \cup {e}) = Cardinality(bucket[r]) + 1
    BY <1>2, FS_AddElement
  <2>2. n \in Nat
    BY <1>2, FS_CardinalityType
  <2> QED
    BY <1>1, <2>1, <2>2
<1>4. first[r] \in bucket[r] /\ first[r] \in Events
  BY <1>1 DEF Opened, BucketsTyped
<1>5. first[r] \in fired[r] => TimerDue(r)'
  BY <1>1, <1>4, DueKept DEF Clocked, ClockedAt
<1>6. first[r] \in spawned'[r] => Cardinality(bucket'[r]) >= MaxBatch
  <2>1. CASE first[r] \in spawned[r]
    <3>1. n >= MaxBatch
      BY <1>1, <2>1 DEF Clocked, ClockedAt, n
    <3> QED
      BY <1>3, <3>1, AggregatorAssumption
  <2>2. CASE first[r] \in EarlyFlush(r, n + 1)
    <3>1. n + 1 >= MaxBatch
      BY <2>2 DEF EarlyFlush
    <3> QED
      BY <1>3, <3>1
  <2> QED
    BY <1>1, <2>1, <2>2
<1>7. armed'[r] \/ first[r] \in fired[r] \cup spawned'[r]
  <2>1. CASE n + 1 >= MaxBatch
    BY <1>1, <2>1 DEF EarlyFlush
  <2>2. CASE ~(n + 1 >= MaxBatch)
    BY <1>1, <2>2 DEF Clocked, ClockedAt
  <2> QED
    BY <2>1, <2>2
<1>8. ClockedAt(r)'
  BY <1>1, <1>5, <1>6, <1>7 DEF ClockedAt
<1>9. ASSUME NEW r2 \in Replicas, r2 # r PROVE ClockedAt(r2)'
  BY <1>1, <1>9, ClockedElsewhere
<1> QED
  BY <1>8, <1>9 DEF Clocked

LEMMA TimerClocked ==
  ASSUME SettingsTyped, EventsTyped, BucketsTyped, Opened, Clocked, ClockKept,
         NEW r \in Replicas, TimerFires(r)
  PROVE  Clocked'
<1>1. /\ UNCHANGED <<bucket, first, spawned>> /\ fired'[r] = fired[r] \cup {first[r]}
      /\ \A r2 \in Replicas : r2 # r => armed'[r2] = armed[r2] /\ fired'[r2] = fired[r2]
  BY DEF TimerFires, BucketsTyped
<1>2. TimerDue(r)'
  <2>1. TimerDue(r) /\ UNCHANGED <<now, stamp, horizon>>
    BY DEF TimerFires, settings, perEvent
  <2> QED
    BY <1>1, <2>1 DEF TimerDue
<1>3. ClockedAt(r)'
  BY <1>1, <1>2 DEF Clocked, ClockedAt
<1>4. ASSUME NEW r2 \in Replicas, r2 # r PROVE ClockedAt(r2)'
  BY <1>1, <1>4, ClockedElsewhere
<1> QED
  BY <1>3, <1>4 DEF Clocked

LEMMA FlushClocked ==
  ASSUME SettingsTyped, EventsTyped, BucketsTyped, Opened, Clocked, ClockKept,
         NEW r \in Replicas, NEW x \in Events, Flush(r, x)
  PROVE  Clocked'
<1>1. /\ \A y \in Events : y # x => (y \in fired'[r] <=> y \in fired[r]) /\ (y \in spawned'[r] <=> y \in spawned[r])
      /\ \A r2 \in Replicas : r2 # r => fired'[r2] = fired[r2] /\ spawned'[r2] = spawned[r2]
  BY DEF Flush, BucketsTyped
<1>2. \A r2 \in Replicas : r2 # r =>
          bucket'[r2] = bucket[r2] /\ first'[r2] = first[r2] /\ armed'[r2] = armed[r2]
  BY DEF Flush, TakeBucket, BucketsTyped
<1>3. ASSUME bucket[r] # {}, first[r] = x PROVE ClockedAt(r)'
  <2>1. bucket'[r] = {}
    BY <1>3 DEF Flush, TakeBucket, Expects, BucketsTyped
  <2> QED
    BY <2>1 DEF ClockedAt
<1>4. ASSUME ~(bucket[r] # {} /\ first[r] = x) PROVE ClockedAt(r)'
  <2>1. UNCHANGED <<bucket, first, armed>>
    BY <1>4 DEF Flush, TakeBucket, Expects
  <2> QED
    BY <1>1, <1>4, <2>1, ClockedElsewhere
<1>5. ClockedAt(r)'
  BY <1>3, <1>4
<1>6. ASSUME NEW r2 \in Replicas, r2 # r PROVE ClockedAt(r2)'
  BY <1>1, <1>2, <1>6, ClockedElsewhere
<1> QED
  BY <1>5, <1>6 DEF Clocked

LEMMA DeadClocked ==
  ASSUME SettingsTyped, EventsTyped, BucketsTyped, Opened, Clocked, ClockKept,
         NEW r \in Replicas, ReplicaDies(r)
  PROVE  Clocked'
<1>1. /\ bucket'[r] = {}
      /\ \A r2 \in Replicas : r2 # r =>
            /\ bucket'[r2] = bucket[r2] /\ first'[r2] = first[r2] /\ armed'[r2] = armed[r2]
            /\ fired'[r2] = fired[r2] /\ spawned'[r2] = spawned[r2]
  BY DEF ReplicaDies, BucketsTyped
<1>2. ClockedAt(r)'
  BY <1>1 DEF ClockedAt
<1>3. ASSUME NEW r2 \in Replicas, r2 # r PROVE ClockedAt(r2)'
  BY <1>1, <1>3, ClockedElsewhere
<1> QED
  BY <1>2, <1>3 DEF Clocked

(* Every flush on its way is due.                                          *)
LEMMA ClockedStep ==
  ASSUME AggTypeOK, Homed, Opened, Placed, Clocked, [AggNext]_aggVars
  PROVE  Clocked'
<1> USE Typed, ClockStep, ClockedSame DEF Prepared, Summary, OnBatch
<1>1. ASSUME NEW e \in Events, outcome[e] = "new", home[e] # NoOne, PrepareSkipped(e)
      PROVE  Clocked'
  BY <1>1 DEF PrepareSkipped
<1>2. ASSUME NEW e \in Events, outcome[e] = "new", home[e] # NoOne, PrepareRefused(e)
      PROVE  Clocked'
  BY <1>2 DEF PrepareRefused
<1>3. ASSUME NEW e \in Events, outcome[e] = "new", home[e] # NoOne, PreparePassed(e)
      PROVE  Clocked'
  BY <1>3 DEF PreparePassed
<1>4. ASSUME NEW e \in Events, outcome[e] = "new", home[e] # NoOne, PrepareSuppressed(e)
      PROVE  Clocked'
  BY <1>4 DEF PrepareSuppressed
<1>5. ASSUME NEW e \in Events, outcome[e] = "prepared", Fold(e) PROVE Clocked'
  <2>1. UNCHANGED buckets
    BY <1>5 DEF Fold
  <2> QED
    BY <2>1, ClockedSame
<1>6. ASSUME NEW e \in Events, outcome[e] = "prepared", StartSummary(e)
      PROVE  Clocked'
  BY <1>6 DEF StartSummary
<1>7. ASSUME NEW e \in Events, outcome[e] = "prepared", OpenBucket(e)
      PROVE  Clocked'
  <2>1. home[e] \in Replicas
    BY <1>7 DEF Homed
  <2> QED
    BY <1>7, <2>1, OpenClocked
<1>8. ASSUME NEW e \in Events, outcome[e] = "prepared", AddToBucket(e)
      PROVE  Clocked'
  <2>1. home[e] \in Replicas
    BY <1>8 DEF Homed
  <2> QED
    BY <1>8, <2>1, JoinClocked
<1>9. ASSUME NEW e \in Events, SummaryRead(e) PROVE Clocked'
  BY <1>9 DEF SummaryRead
<1>10. ASSUME NEW e \in Events, SummaryWrite(e) PROVE Clocked'
  BY <1>10 DEF SummaryWrite
<1>11. ASSUME NEW e \in Events, SummaryFails(e) PROVE Clocked'
  BY <1>11 DEF SummaryFails
<1>12. ASSUME NEW r \in Replicas, TimerFires(r) PROVE Clocked'
  BY <1>12, TimerClocked
<1>13. ASSUME NEW r \in Replicas, NEW x \in Events, Flush(r, x) PROVE Clocked'
  BY <1>13, FlushClocked
<1>14. ASSUME NEW r \in Replicas, NEW b \in batches[r], ReadSingle(r, b)
      PROVE  Clocked'
  BY <1>14 DEF ReadSingle
<1>15. ASSUME NEW r \in Replicas, NEW b \in batches[r], ReadMerged(r, b)
      PROVE  Clocked'
  BY <1>15 DEF ReadMerged
<1>16. ASSUME NEW r \in Replicas, NEW b \in batches[r], Write(r, b)
      PROVE  Clocked'
  BY <1>16 DEF Write
<1>17. ASSUME NEW r \in Replicas, NEW b \in batches[r], FlushFails(r, b)
      PROVE  Clocked'
  BY <1>17 DEF FlushFails
<1>18. ASSUME NEW r \in Replicas, ReplicaDies(r) PROVE Clocked'
  BY <1>18, DeadClocked
<1>19. CASE Tick
  BY <1>19 DEF Tick
<1>20. CASE Switch
  BY <1>20 DEF Switch
<1>21. CASE UNCHANGED aggVars
  <2> QED
    BY <1>21 DEF aggVars
<1> QED
  BY <1>1, <1>2, <1>3, <1>4, <1>5, <1>6, <1>7, <1>8, <1>9, <1>10, <1>11,
     <1>12, <1>13, <1>14, <1>15, <1>16, <1>17, <1>18, <1>19, <1>20, <1>21
  DEF AggNext, Prepare, Admit, Progress



(* A flush that empties the bucket was due.                                *)
LEMMA FlushWindow ==
  ASSUME BucketsTyped, Clocked, NEW r \in Replicas, NEW x \in Events, Flush(r, x),
         NEW r2 \in Replicas, bucket[r2] # {}, bucket'[r2] = {}
  PROVE  Cardinality(bucket[r2]) >= MaxBatch \/ TimerDue(r2)
<1>1. r2 = r /\ first[r] = x
  BY DEF Flush, TakeBucket, Expects, BucketsTyped
<1>2. x \in fired[r] \/ x \in spawned[r]
  BY DEF Flush
<1> QED
  BY <1>1, <1>2 DEF Clocked, ClockedAt

WindowBody ==
    \A r \in Replicas : bucket[r] # {} /\ bucket'[r] = {} =>
         \/ Cardinality(bucket[r]) >= MaxBatch
         \/ TimerDue(r)
         \/ troubles' > troubles

(* No step cuts a bucket short.                                            *)
LEMMA WindowStep ==
  ASSUME AggTypeOK, Homed, Clocked, [AggNext]_aggVars
  PROVE  WindowBody
<1> USE Typed DEF Prepared, Count, Summary, OnBatch, WindowBody, buckets
<1>1. ASSUME NEW e \in Events, outcome[e] = "new", home[e] # NoOne, PrepareSkipped(e)
      PROVE  WindowBody
  BY <1>1 DEF PrepareSkipped
<1>2. ASSUME NEW e \in Events, outcome[e] = "new", home[e] # NoOne, PrepareRefused(e)
      PROVE  WindowBody
  BY <1>2 DEF PrepareRefused
<1>3. ASSUME NEW e \in Events, outcome[e] = "new", home[e] # NoOne, PreparePassed(e)
      PROVE  WindowBody
  BY <1>3 DEF PreparePassed
<1>4. ASSUME NEW e \in Events, outcome[e] = "new", home[e] # NoOne, PrepareSuppressed(e)
      PROVE  WindowBody
  BY <1>4 DEF PrepareSuppressed
<1>5. ASSUME NEW e \in Events, outcome[e] = "prepared", Fold(e)
      PROVE  WindowBody
  BY <1>5 DEF Fold
<1>6. ASSUME NEW e \in Events, outcome[e] = "prepared", StartSummary(e)
      PROVE  WindowBody
  BY <1>6 DEF StartSummary
<1>7. ASSUME NEW e \in Events, outcome[e] = "prepared", OpenBucket(e)
      PROVE  WindowBody
  <2>1. \A r \in Replicas : bucket'[r] = bucket[r] \/ bucket'[r] = {e}
    BY <1>7 DEF OpenBucket, BucketsTyped
  <2> QED
    BY <1>7, <2>1 DEF OpenBucket
<1>8. ASSUME NEW e \in Events, outcome[e] = "prepared", AddToBucket(e)
      PROVE  WindowBody
  <2>1. \A r \in Replicas : bucket[r] \subseteq bucket'[r]
    BY <1>8 DEF AddToBucket, BucketsTyped
  <2> QED
    BY <1>8, <2>1 DEF AddToBucket
<1>9. ASSUME NEW e \in Events, SummaryRead(e) PROVE WindowBody
  BY <1>9 DEF SummaryRead
<1>10. ASSUME NEW e \in Events, SummaryWrite(e) PROVE WindowBody
  BY <1>10 DEF SummaryWrite
<1>11. ASSUME NEW e \in Events, SummaryFails(e) PROVE WindowBody
  BY <1>11 DEF SummaryFails
<1>12. ASSUME NEW r \in Replicas, TimerFires(r) PROVE WindowBody
  BY <1>12 DEF TimerFires
<1>13. ASSUME NEW r \in Replicas, NEW x \in Events, Flush(r, x)
      PROVE  WindowBody
  BY <1>13, FlushWindow
<1>14. ASSUME NEW r \in Replicas, NEW b \in batches[r], ReadSingle(r, b)
      PROVE  WindowBody
  BY <1>14 DEF ReadSingle
<1>15. ASSUME NEW r \in Replicas, NEW b \in batches[r], ReadMerged(r, b)
      PROVE  WindowBody
  BY <1>15 DEF ReadMerged
<1>16. ASSUME NEW r \in Replicas, NEW b \in batches[r], Write(r, b)
      PROVE  WindowBody
  BY <1>16 DEF Write
<1>17. ASSUME NEW r \in Replicas, NEW b \in batches[r], FlushFails(r, b)
      PROVE  WindowBody
  BY <1>17 DEF FlushFails
<1>18. ASSUME NEW r \in Replicas, ReplicaDies(r) PROVE WindowBody
  <2>1. troubles' > troubles
    BY <1>18 DEF ReplicaDies, Trouble, SettingsTyped
  <2> QED
    BY <1>18, <2>1 DEF ReplicaDies
<1>19. CASE Tick
  BY <1>19 DEF Tick
<1>20. CASE Switch
  BY <1>20 DEF Switch
<1>21. CASE UNCHANGED aggVars
  BY <1>21 DEF aggVars
<1> QED
  BY <1>1, <1>2, <1>3, <1>4, <1>5, <1>6, <1>7, <1>8, <1>9, <1>10, <1>11,
     <1>12, <1>13, <1>14, <1>15, <1>16, <1>17, <1>18, <1>19, <1>20, <1>21
  DEF AggNext, Prepare, Admit, Progress



-----------------------------------------------------------------------------
(* While nothing fails and no switch is turned, every event Evaluate took  *)
(* on stays accounted for.                                                 *)

Calm == troubles = 0 /\ flips = 0

Wide == feature /\ enabled = Channels

Reached(e, c) == Told(e, c) \/ Crowded(e, c)

(* A row of several events came from one batch: the one its tag is in, or,  *)
(* without a tag, the first of its process in that time bucket.             *)
RowTags ==
    \A o \in outbox : o.key.kind = "agg" =>
        /\ o.events # {}
        /\ o.key.tag = NoOne => \A x \in o.events : o.key.at \in flushed[home[x]]
        /\ o.key.tag # NoOne =>
              /\ outcome[o.key.tag] = "bucketed"
              /\ \A r \in Replicas :
                    /\ o.key.tag \notin bucket[r]
                    /\ \A b \in batches[r] :
                          o.key.tag \in b.items => b.stage # "taken" /\ o.ch \notin b.left

FirstOfSlot(r, b) ==
    /\ b.key.at \in flushed[r]
    /\ \A o \in outbox : o.key = b.key /\ (\E x \in o.events : home[x] = r) => o.ch \notin b.left
    /\ \A b2 \in batches[r] : b2.stage = "merged" /\ b2.key = b.key => b2 = b

BatchTag(r, b) ==
    /\ b.stage = "taken" => b.key.tag \in b.items
    /\ b.stage = "merged" =>
          /\ b.key.tag \in b.items \cup {NoOne}
          /\ \A c \in b.left : For(c, b.items) # {}
          /\ b.key.tag = NoOne => FirstOfSlot(r, b)
    /\ b.stage # "taken" =>
          \A e \in b.items : \A c \in chans[e] : c \in b.left \/ Reached(e, c)

BatchTags == \A r \in Replicas : \A b \in batches[r] : BatchTag(r, b)

Ended ==
    \A e \in Events : outcome[e] = "bucketed" /\ ~Buffered(e) => \A c \in chans[e] : Reached(e, c)

Traced == Calm => Wide /\ RowTags /\ BatchTags /\ Ended

LEMMA ReachedKept ==
  ASSUME Kept, RowsTyped, outbox \subseteq outbox', NEW e \in Events, NEW c, Reached(e, c)
  PROVE  Reached(e, c)'
  BY DEF Kept, Reached, Told, Crowded

(* Steps that write no row of several events and read no batch.            *)
LEMMA TracedSame ==
  ASSUME EventsTyped, BucketsTyped, RowsTyped, Placed, Written, Kept, Calm, Traced,
         UNCHANGED <<batches, flushed, feature, enabled>>,
         outbox \subseteq outbox', \A o \in outbox' \ outbox : o.key.kind # "agg",
         \A r \in Replicas : bucket[r] \subseteq bucket'[r],
         \A r \in Replicas : \A x \in bucket'[r] : x \in bucket[r] \/ outcome[x] = "prepared",
         \A e \in Events : outcome'[e] = "bucketed" =>
             outcome[e] = "bucketed" \/ \E r \in Replicas : e \in bucket'[r]
  PROVE  Traced'
<1>1. Wide' /\ \A r \in Replicas : \A b \in batches[r] : b.items \subseteq Events
  BY DEF Traced, Wide, RowsTyped, Batches
<1>2. RowTags'
  <2>1. \A o \in outbox : o.events \subseteq Events /\ o.key.tag \in Events \cup {NoOne}
    BY DEF RowsTyped, Rows, RowKeys
  <2>2. ASSUME NEW o \in outbox', o.key.kind = "agg"
        PROVE  /\ o.events # {}
               /\ o.key.tag = NoOne => \A x \in o.events : o.key.at \in flushed'[home'[x]]
    BY <2>2 DEF Traced, RowTags, Kept
  <2>3. ASSUME NEW o \in outbox', o.key.kind = "agg", o.key.tag # NoOne
        PROVE  /\ outcome'[o.key.tag] = "bucketed"
               /\ \A r \in Replicas :
                     /\ o.key.tag \notin bucket'[r]
                     /\ \A b \in batches'[r] :
                           o.key.tag \in b.items => b.stage # "taken" /\ o.ch \notin b.left
    BY <2>1, <2>3 DEF Traced, RowTags, Kept
  <2> QED
    BY <2>2, <2>3 DEF RowTags
<1>3. BatchTags'
  <2> SUFFICES ASSUME NEW r \in Replicas, NEW b \in batches[r] PROVE BatchTag(r, b)'
    BY DEF BatchTags
  <2>1. BatchTag(r, b) /\ b.items \subseteq Events
    BY <1>1 DEF Traced, BatchTags
  <2>2. \A e \in b.items : chans'[e] = chans[e]
    BY <1>1 DEF Kept, Placed, PlacedAt
  <2>3. b.stage = "merged" /\ b.key.tag = NoOne => FirstOfSlot(r, b)'
    <3>1. b.stage = "merged" => b.key.kind = "agg"
      BY DEF Written, BatchRouted
    <3> QED
      BY <2>1, <3>1 DEF BatchTag, FirstOfSlot, Kept
  <2>4. \A c : For(c, b.items)' = For(c, b.items)
    BY <2>2 DEF For
  <2>5. \A e \in b.items : \A c : Reached(e, c) => Reached(e, c)'
    BY <2>1, ReachedKept
  <2> QED
    BY <2>1, <2>2, <2>3, <2>4, <2>5 DEF BatchTag
<1>4. Ended'
  <2> SUFFICES ASSUME NEW e \in Events, outcome'[e] = "bucketed", ~Buffered(e)', NEW c \in chans'[e]
               PROVE  Reached(e, c)'
    BY DEF Ended
  <2>1. outcome[e] = "bucketed" /\ ~Buffered(e)
    BY DEF Buffered
  <2>2. c \in chans[e]
    BY <2>1 DEF Kept
  <2>3. Reached(e, c)
    BY <2>1, <2>2 DEF Traced, Ended
  <2> QED
    BY <2>3, ReachedKept
<1> QED
  BY <1>1, <1>2, <1>3, <1>4 DEF Traced

LEMMA FlushTraced ==
  ASSUME EventsTyped, BucketsTyped, RowsTyped, Opened, Placed, Written, Kept, Calm,
         Traced,
         NEW r \in Replicas, NEW x \in Events, Flush(r, x)
  PROVE  Traced'
<1>1. UNCHANGED <<outbox, flushed, feature, enabled, outcome, chans, home>>
  BY DEF Flush, perEvent, settings
<1>2. CASE UNCHANGED <<bucket, batches>>
  BY <1>1, <1>2, TracedSame
<1>3. CASE /\ bucket[r] # {} /\ first[r] = x
           /\ bucket' = [bucket EXCEPT ![r] = {}]
           /\ batches' = [batches EXCEPT ![r] = @ \cup {Taken(bucket[r], x)}]
  <2>1. PICK new : new = Taken(bucket[r], x)
    OBVIOUS
  <2>2. new.items = bucket[r] /\ new.stage = "taken" /\ new.key.tag = x /\ x \in bucket[r]
    BY <1>3, <2>1 DEF Taken, Key, Opened
  <2>3. /\ bucket'[r] = {} /\ batches'[r] = batches[r] \cup {new}
        /\ \A r2 \in Replicas : r2 # r => bucket'[r2] = bucket[r2] /\ batches'[r2] = batches[r2]
    BY <1>3, <2>1 DEF BucketsTyped, RowsTyped
  <2>4. Wide' /\ RowTags'
    BY <1>1, <2>2, <2>3 DEF Traced, Wide, RowTags
  <2>5. BatchTag(r, new)'
    BY <2>2 DEF BatchTag
  <2>6. ASSUME NEW r2 \in Replicas, NEW b \in batches[r2] PROVE BatchTag(r2, b)'
    <3>1. BatchTag(r2, b)
      BY DEF Traced, BatchTags
    <3>2. FirstOfSlot(r2, b) => FirstOfSlot(r2, b)'
      BY <1>1, <2>2, <2>3 DEF FirstOfSlot
    <3> QED
      BY <1>1, <3>1, <3>2 DEF BatchTag, For, Reached, Told, Crowded
  <2>7. BatchTags'
    BY <2>3, <2>5, <2>6 DEF BatchTags
  <2>8. \A e \in Events : Buffered(e) => Buffered(e)'
    BY <2>2, <2>3 DEF Buffered
  <2>9. Ended'
    BY <1>1, <2>8 DEF Traced, Ended, Reached, Told, Crowded
  <2> QED
    BY <2>4, <2>7, <2>9 DEF Traced
<1> QED
  BY <1>2, <1>3 DEF Flush, TakeBucket, Expects

(* A batch that is read has every channel of its events left to write for.  *)
LEMMA ReadTraced ==
  ASSUME EventsTyped, BucketsTyped, RowsTyped, Homed, Placed, Written, Calm, Traced,
         NEW r \in Replicas, NEW b \in batches[r], b.stage = "taken",
         NEW b2, b2.items = b.items, b2.stage # "taken", Becomes(r, b, b2),
         \A e \in b.items : chans[e] \subseteq b2.left,
         UNCHANGED <<bucket, outbox, outcome, chans, home, feature, enabled>>,
         \A r2 \in Replicas : flushed[r2] \subseteq flushed'[r2],
         b2.stage = "merged" /\ b2.key.tag = NoOne => b2.key.at \notin flushed[r],
         BatchTag(r, b2)'
  PROVE  Traced'
<1>1. /\ batches'[r] \subseteq (batches[r] \ {b}) \cup {b2}
      /\ b2.left # {} => b2 \in batches'[r]
      /\ batches[r] \ {b} \subseteq batches'[r]
      /\ \A r2 \in Replicas : r2 # r => batches'[r2] = batches[r2]
  BY DEF Becomes, RowsTyped
<1>2. Wide' /\ RowTags'
  <2>1. \A o \in outbox : \A x \in o.events : x \in Events
    BY DEF RowsTyped, Rows
  <2>2. \A o \in outbox : o.key.kind = "agg" /\ o.key.tag # NoOne => outcome[o.key.tag] = "bucketed"
                              /\ o.key.tag \notin b.items
    BY DEF Traced, RowTags
  <2>3. ASSUME NEW o \in outbox, o.key.kind = "agg", o.key.tag # NoOne, NEW r2 \in Replicas,
               NEW c \in batches'[r2], o.key.tag \in c.items
        PROVE  c.stage # "taken" /\ o.ch \notin c.left
    BY <1>1, <2>2, <2>3 DEF Traced, RowTags
  <2>4. ASSUME NEW o \in outbox, o.key.kind = "agg", o.key.tag = NoOne, NEW x \in o.events
        PROVE  o.key.at \in flushed'[home[x]]
    <3>1. home[x] \in Replicas
      BY <2>1, <2>4 DEF Homed, Written, RowSettled
    <3> QED
      BY <2>4, <3>1 DEF Traced, RowTags
  <2> QED
    BY <2>2, <2>3, <2>4 DEF Traced, Wide, RowTags
<1>3. ASSUME NEW r2 \in Replicas, NEW c \in batches[r2], c # b \/ r2 # r PROVE BatchTag(r2, c)'
  <2>1. BatchTag(r2, c)
    BY DEF Traced, BatchTags
  <2>2. c.stage = "merged" /\ c.key.tag = NoOne => FirstOfSlot(r2, c)'
    BY <1>1, <1>3, <2>1 DEF BatchTag, FirstOfSlot
  <2> QED
    BY <2>1, <2>2 DEF BatchTag, For, Reached, Told, Crowded
<1>4. BatchTags'
  BY <1>1, <1>3 DEF BatchTags
<1>5. Ended'
  <2> SUFFICES ASSUME NEW e \in Events, outcome[e] = "bucketed", ~Buffered(e)', NEW c \in chans[e]
               PROVE  Reached(e, c)'
    BY DEF Ended
  <2>1. e \notin b.items
    BY <1>1 DEF Buffered
  <2>2. ~Buffered(e)
    BY <1>1, <2>1 DEF Buffered
  <2> QED
    BY <2>2 DEF Traced, Ended, Reached, Told, Crowded
<1> QED
  BY <1>2, <1>4, <1>5 DEF Traced

LEMMA ReadSingleTraced ==
  ASSUME EventsTyped, BucketsTyped, RowsTyped, Homed, Placed, Written, Calm, Traced,
         NEW r \in Replicas, NEW b \in batches[r], ReadSingle(r, b)
  PROVE  Traced'
<1>1. b \in Batches /\ b.stage = "taken"
  BY DEF RowsTyped, ReadSingle
<1>2. PICK e : e = CHOOSE x \in b.items : TRUE
  OBVIOUS
<1>3. b.items = {e} /\ e \in Events
  <2>1. b.items = {e}
    BY <1>2, OnlyOne DEF Placed, PlacedAt, ReadSingle
  <2> QED
    BY <1>1, <2>1 DEF Batches
<1>4. PICK left, key, b2 :
        /\ left = IF feature THEN chans[e] \cap enabled ELSE {}
        /\ b2 = [b EXCEPT !.stage = "single", !.left = left, !.muted = muted, !.key = key]
        /\ Becomes(r, b, b2)
  BY <1>2 DEF ReadSingle
<1>5. b2.items = {e} /\ b2.stage = "single" /\ b2.left = left
  BY <1>1, <1>3, <1>4 DEF Batches
<1>6. UNCHANGED <<bucket, outbox, outcome, chans, home, feature, enabled, flushed>>
  BY DEF ReadSingle, OnBatch, perEvent, buckets, settings
<1>7. chans[e] \subseteq left
  BY <1>3, <1>4 DEF Traced, Wide, EventsTyped
<1>8. BatchTag(r, b2)'
  BY <1>5, <1>6, <1>7 DEF BatchTag
<1> QED
  BY <1>1, <1>3, <1>4, <1>5, <1>6, <1>7, <1>8, ReadTraced

LEMMA ReadMergedTraced ==
  ASSUME SettingsTyped, EventsTyped, BucketsTyped, RowsTyped, Homed, Placed, Written,
         Calm, Traced,
         NEW r \in Replicas, NEW b \in batches[r], ReadMerged(r, b)
  PROVE  Traced'
<1>1. b \in Batches /\ b.stage = "taken" /\ b.items \subseteq Events
  BY DEF RowsTyped, ReadMerged, Batches
<1>2. PICK at : at = TimeBucket(now, Window)
  OBVIOUS
<1>3. PICK left, key, b2 :
        /\ left = IF feature THEN {c \in enabled : For(c, b.items) # {}} ELSE {}
        /\ key = Key("agg", at, IF at \in flushed[r] THEN b.key.tag ELSE NoOne)
        /\ b2 = [b EXCEPT !.stage = "merged", !.left = left, !.muted = muted, !.key = key]
        /\ Becomes(r, b, b2)
  BY <1>2 DEF ReadMerged, MergedKey
<1>4. b2.items = b.items /\ b2.stage = "merged" /\ b2.left = left /\ b2.key = key
  BY <1>1, <1>3 DEF Batches
<1>5. UNCHANGED <<bucket, outbox, outcome, chans, home, feature, enabled>>
  BY DEF ReadMerged, OnBatch, perEvent, buckets, settings
<1>6. /\ flushed'[r] = flushed[r] \cup {at}
      /\ \A r2 \in Replicas : flushed[r2] \subseteq flushed'[r2]
  BY <1>2 DEF ReadMerged, BucketsTyped
<1>7. b.key.tag \in b.items /\ b.key.tag # NoOne
  BY <1>1, AggregatorAssumption DEF Traced, BatchTags, BatchTag
<1>8. /\ key.kind = "agg" /\ key.at = at /\ key.tag \in b.items \cup {NoOne}
      /\ key.tag = NoOne => at \notin flushed[r]
  BY <1>3, <1>7 DEF Key
<1>9. \A e \in b.items : chans[e] \subseteq left
  BY <1>1, <1>3 DEF Traced, Wide, EventsTyped, For
<1>10. \A c \in left : For(c, b.items) # {} /\ For(c, b.items)' = For(c, b.items)
  BY <1>3, <1>5 DEF For
<1>11. ASSUME key.tag = NoOne PROVE FirstOfSlot(r, b2)'
  <2>1. \A o \in outbox : o.key = key => \A x \in o.events : home[x] # r
    BY <1>8, <1>11 DEF Traced, RowTags
  <2>2. \A b3 \in batches[r] : b3.stage = "merged" => b3.key # key
    BY <1>8, <1>11 DEF Traced, BatchTags, BatchTag, FirstOfSlot
  <2>3. batches'[r] \subseteq batches[r] \cup {b2}
    BY <1>3 DEF Becomes, RowsTyped
  <2> QED
    BY <1>4, <1>5, <1>6, <1>8, <2>1, <2>2, <2>3 DEF FirstOfSlot
<1>12. BatchTag(r, b2)'
  BY <1>4, <1>5, <1>8, <1>9, <1>10, <1>11 DEF BatchTag
<1>13. /\ \A e \in b.items : chans[e] \subseteq b2.left
       /\ b2.key.tag = NoOne => b2.key.at \notin flushed[r]
  BY <1>4, <1>8, <1>9
<1> QED
  BY <1>1, <1>3, <1>4, <1>5, <1>6, <1>12, <1>13, ReadTraced

(* A row that a batch writes reaches its events, or, where another replica *)
(* has the key, they are crowded out.                                      *)
LEMMA WriteReaches ==
  ASSUME RowsTyped, Placed, Written, Traced, Calm, NEW r \in Replicas,
         NEW b \in batches[r],
         b.stage # "taken", NEW c \in b.left, NEW es \in SUBSET b.items, NEW rec,
         rec.ch = c, rec.key = b.key, rec.events = es, UNCHANGED <<home, chans>>,
         outbox' = outbox \cup {o \in {rec} : ~Conflict(o.ch, o.key)}
  PROVE  \A e \in es : Reached(e, c)'
<1>1. CASE ~Conflict(c, b.key)
  BY <1>1 DEF Reached, Told
<1>2. ASSUME NEW o \in outbox, o.ch = c, o.key = b.key, NEW e \in es PROVE Crowded(e, c)'
  <2>1. BatchRouted(b) /\ RowSettled(o) /\ Apart(o) /\ b \in Batches
    BY DEF Written, RowsTyped
  <2>2. b.stage = "merged"
    BY <1>2, <2>1 DEF BatchRouted, RowSettled, Apart, Batches
  <2>3. b.key.kind = "agg"
    BY <2>1, <2>2 DEF BatchRouted
  <2>4. b.key.tag = NoOne
    BY <1>2, <2>2, <2>3 DEF Traced, RowTags, BatchTags, BatchTag
  <2>5. \A x \in o.events : home[x] # r
    BY <1>2, <2>2, <2>4 DEF Traced, BatchTags, BatchTag, FirstOfSlot
  <2>6. o.events # {} /\ home[e] = r
    BY <1>2, <2>3 DEF Traced, RowTags, Placed, PlacedAt
  <2> QED
    BY <1>2, <2>3, <2>4, <2>5, <2>6 DEF Crowded
<1> QED
  BY <1>1, <1>2 DEF Conflict, Reached

LEMMA WriteTraced ==
  ASSUME EventsTyped, BucketsTyped, RowsTyped, Placed, Written, Kept, Calm, Traced,
         NEW r \in Replicas, NEW b \in batches[r], Write(r, b)
  PROVE  Traced'
<1>1. /\ b \in Batches /\ b.stage # "taken" /\ b.items \subseteq Events
      /\ BatchRouted(b) /\ BatchTag(r, b)
  BY DEF RowsTyped, Batches, Write, Written, Traced, BatchTags
<1>2. PICK c \in b.left :
        /\ LET es == IF b.stage = "single" THEN b.items ELSE For(c, b.items)
           IN Create({Row(c, b.key, es, b.muted,
                          b.key.kind # "suppressed" /\ Deferred(c, es))})
        /\ Becomes(r, b, [b EXCEPT !.left = @ \ {c}])
  BY DEF Write
<1>3. PICK es, rec, b2 :
        /\ es = IF b.stage = "single" THEN b.items ELSE For(c, b.items)
        /\ rec = Row(c, b.key, es, b.muted, b.key.kind # "suppressed" /\ Deferred(c, es))
        /\ b2 = [b EXCEPT !.left = @ \ {c}]
        /\ Create({rec}) /\ Becomes(r, b, b2)
  BY <1>2
<1>4. rec.ch = c /\ rec.key = b.key /\ rec.events = es /\ es \subseteq b.items
  BY <1>3 DEF Row, For
<1>5. b2.items = b.items /\ b2.stage = b.stage /\ b2.left = b.left \ {c} /\ b2.key = b.key
  BY <1>1, <1>3 DEF Batches
<1>6. UNCHANGED <<bucket, outcome, chans, home, feature, enabled, flushed>>
  BY DEF Write, OnBatch, perEvent, buckets, settings
<1>7. outbox' = outbox \cup {o \in {rec} : ~Conflict(o.ch, o.key)}
  BY <1>3 DEF Create
<1>8. /\ batches'[r] \subseteq (batches[r] \ {b}) \cup {b2}
      /\ b2.left # {} => b2 \in batches'[r]
      /\ batches[r] \ {b} \subseteq batches'[r]
      /\ \A r2 \in Replicas : r2 # r => batches'[r2] = batches[r2]
  BY <1>3 DEF Becomes, RowsTyped
<1>9. \A e \in es : Reached(e, c)'
  BY <1>1, <1>4, <1>6, <1>7, WriteReaches
<1>10. \A e \in b.items : outcome[e] = "bucketed" /\ home[e] = r /\ e \in Events
  BY <1>1 DEF Placed, PlacedAt
<1>11. \A r2 \in Replicas : \A e \in b.items :
          /\ e \notin bucket[r2]
          /\ \A b3 \in batches'[r2] : e \in b3.items => b3 = b2
  <2>1. ASSUME NEW r2 \in Replicas, r2 # r, NEW e \in b.items
        PROVE  e \notin bucket[r2] /\ \A b3 \in batches[r2] : e \notin b3.items
    BY <1>10, <2>1 DEF Placed, PlacedAt
  <2>2. ASSUME NEW e \in b.items
        PROVE  e \notin bucket[r] /\ \A b3 \in batches[r] \ {b} : e \notin b3.items
    BY <2>2 DEF Placed, PlacedAt
  <2> QED
    BY <1>8, <2>1, <2>2
<1>12. \A e \in Events : \A c2 : Reached(e, c2) => Reached(e, c2)'
  BY <1>7, ReachedKept
<1>13. \A e \in b.items : \A c2 \in chans[e] : c2 \in b2.left \/ Reached(e, c2)'
  <2> SUFFICES ASSUME NEW e \in b.items, NEW c2 \in chans[e], c2 \notin b2.left PROVE Reached(e, c2)'
    OBVIOUS
  <2>1. CASE c2 = c
    <3>1. e \in es
      BY <1>1, <1>3, <2>1 DEF Batches, For
    <3> QED
      BY <1>9, <2>1, <3>1
  <2>2. CASE c2 # c
    <3>1. Reached(e, c2)
      BY <1>1, <1>5, <2>2 DEF BatchTag
    <3> QED
      BY <1>10, <1>12, <3>1
  <2> QED
    BY <2>1, <2>2
<1>14. rec.key.kind = "agg" => b.stage = "merged"
  BY <1>1, <1>4 DEF BatchRouted, Batches
<1>15. RowTags'
  <2>1. ASSUME NEW o \in outbox, o.key.kind = "agg"
        PROVE  /\ o.events # {}
               /\ o.key.tag = NoOne => \A x \in o.events : o.key.at \in flushed[home[x]]
               /\ o.key.tag # NoOne =>
                     /\ outcome[o.key.tag] = "bucketed"
                     /\ \A r2 \in Replicas :
                           /\ o.key.tag \notin bucket[r2]
                           /\ \A b3 \in batches'[r2] :
                                 o.key.tag \in b3.items => b3.stage # "taken" /\ o.ch \notin b3.left
    BY <1>5, <1>8, <2>1 DEF Traced, RowTags
  <2>2. ASSUME rec.key.kind = "agg"
        PROVE  /\ rec.events # {}
               /\ rec.key.tag = NoOne => \A x \in rec.events : rec.key.at \in flushed[home[x]]
               /\ rec.key.tag # NoOne =>
                     /\ outcome[rec.key.tag] = "bucketed"
                     /\ \A r2 \in Replicas :
                           /\ rec.key.tag \notin bucket[r2]
                           /\ \A b3 \in batches'[r2] :
                                 rec.key.tag \in b3.items => b3.stage # "taken" /\ rec.ch \notin b3.left
    <3>1. b.stage = "merged" /\ es = For(c, b.items) /\ es # {}
      BY <1>1, <1>3, <1>14, <2>2 DEF BatchTag
    <3>2. b.key.tag = NoOne => b.key.at \in flushed[r]
      BY <1>1, <3>1 DEF BatchTag, FirstOfSlot
    <3>3. b.key.tag # NoOne => b.key.tag \in b.items
      BY <1>1, <3>1 DEF BatchTag
    <3> QED
      BY <1>1, <1>4, <1>5, <1>10, <1>11, <3>1, <3>2, <3>3
  <2> QED
    BY <1>6, <1>7, <2>1, <2>2 DEF RowTags
<1>16. BatchTag(r, b2)'
  <2>1. b2.stage = "merged" /\ b2.key.tag = NoOne => FirstOfSlot(r, b2)'
    <3>1. b.stage = "merged" /\ b.key.tag = NoOne => FirstOfSlot(r, b)
      BY <1>1 DEF BatchTag
    <3> QED
      BY <1>4, <1>5, <1>6, <1>7, <1>8, <3>1 DEF FirstOfSlot
  <2>2. \A c2 : For(c2, b.items)' = For(c2, b.items)
    BY <1>6 DEF For
  <2> QED
    BY <1>1, <1>5, <1>6, <1>13, <2>1, <2>2 DEF BatchTag
<1>17. ASSUME NEW r2 \in Replicas, NEW b3 \in batches[r2], b3 # b \/ r2 # r PROVE BatchTag(r2, b3)'
  <2>1. BatchTag(r2, b3) /\ BatchRouted(b3) /\ b3.items \subseteq Events
    BY DEF Traced, BatchTags, Written, RowsTyped, Batches
  <2>2. ASSUME b3.stage = "merged", b3.key.tag = NoOne PROVE FirstOfSlot(r2, b3)'
    <3>1. FirstOfSlot(r2, b3) /\ b3.key.kind = "agg"
      BY <2>1, <2>2 DEF BatchTag, BatchRouted
    <3>2. ~(rec.key = b3.key /\ \E x \in rec.events : home[x] = r2)
      <4> SUFFICES ASSUME rec.key = b3.key, r2 = r PROVE FALSE
        BY <1>4, <1>10
      <4>1. b.stage = "merged" /\ b.key = b3.key
        BY <1>4, <1>14, <3>1
      <4> QED
        BY <1>17, <3>1, <4>1 DEF FirstOfSlot
    <3>3. \A b4 \in batches'[r2] : b4.stage = "merged" /\ b4.key = b3.key => b4 = b3
      BY <1>5, <1>8, <1>17, <3>1 DEF FirstOfSlot
    <3> QED
      BY <1>6, <1>7, <3>1, <3>2, <3>3 DEF FirstOfSlot
  <2>3. \A c2 : For(c2, b3.items)' = For(c2, b3.items)
    BY <1>6 DEF For
  <2> QED
    BY <1>6, <1>12, <2>1, <2>2, <2>3 DEF BatchTag
<1>18. BatchTags'
  BY <1>8, <1>16, <1>17 DEF BatchTags
<1>19. Ended'
  <2> SUFFICES ASSUME NEW e \in Events, outcome[e] = "bucketed", ~Buffered(e)', NEW c2 \in chans[e]
               PROVE  Reached(e, c2)'
    BY <1>6 DEF Ended
  <2>1. CASE e \in b.items
    BY <1>5, <1>8, <1>13, <2>1 DEF Buffered
  <2>2. CASE e \notin b.items
    <3>1. ~Buffered(e)
      BY <1>6, <1>8, <2>2 DEF Buffered
    <3>2. Reached(e, c2)
      BY <3>1 DEF Traced, Ended
    <3> QED
      BY <1>12, <3>2
  <2> QED
    BY <2>1, <2>2
<1> QED
  BY <1>6, <1>15, <1>18, <1>19 DEF Traced, Wide

(* Errors and switches are counted.                                        *)
LEMMA CalmStep ==
  ASSUME SettingsTyped, [AggNext]_aggVars
  PROVE  (Calm' => Calm)
<1> USE DEF SettingsTyped, Calm, settings, Prepared, Count, Summary, Trouble, OnBatch
<1>1. ASSUME NEW e \in Events, outcome[e] = "new", home[e] # NoOne, PrepareSkipped(e)
      PROVE  (Calm' => Calm)
  BY <1>1 DEF PrepareSkipped
<1>2. ASSUME NEW e \in Events, outcome[e] = "new", home[e] # NoOne, PrepareRefused(e)
      PROVE  (Calm' => Calm)
  BY <1>2 DEF PrepareRefused
<1>3. ASSUME NEW e \in Events, outcome[e] = "new", home[e] # NoOne, PreparePassed(e)
      PROVE  (Calm' => Calm)
  BY <1>3 DEF PreparePassed
<1>4. ASSUME NEW e \in Events, outcome[e] = "new", home[e] # NoOne, PrepareSuppressed(e)
      PROVE  (Calm' => Calm)
  <2>1. (troubles' = troubles \/ Trouble) /\ flips' = flips
    BY <1>4 DEF PrepareSuppressed
  <2> QED
    BY <1>4, <2>1 DEF SettingsTyped
<1>5. ASSUME NEW e \in Events, outcome[e] = "prepared", Fold(e)
      PROVE  (Calm' => Calm)
  BY <1>5 DEF Fold
<1>6. ASSUME NEW e \in Events, outcome[e] = "prepared", StartSummary(e)
      PROVE  (Calm' => Calm)
  BY <1>6 DEF StartSummary
<1>7. ASSUME NEW e \in Events, outcome[e] = "prepared", OpenBucket(e)
      PROVE  (Calm' => Calm)
  BY <1>7 DEF OpenBucket
<1>8. ASSUME NEW e \in Events, outcome[e] = "prepared", AddToBucket(e)
      PROVE  (Calm' => Calm)
  BY <1>8 DEF AddToBucket
<1>9. ASSUME NEW e \in Events, SummaryRead(e) PROVE (Calm' => Calm)
  BY <1>9 DEF SummaryRead
<1>10. ASSUME NEW e \in Events, SummaryWrite(e) PROVE (Calm' => Calm)
  BY <1>10 DEF SummaryWrite
<1>11. ASSUME NEW e \in Events, SummaryFails(e) PROVE (Calm' => Calm)
  BY <1>11 DEF SummaryFails
<1>12. ASSUME NEW r \in Replicas, TimerFires(r) PROVE (Calm' => Calm)
  BY <1>12 DEF TimerFires
<1>13. ASSUME NEW r \in Replicas, NEW x \in Events, Flush(r, x)
      PROVE  (Calm' => Calm)
  BY <1>13 DEF Flush
<1>14. ASSUME NEW r \in Replicas, NEW b \in batches[r], ReadSingle(r, b)
      PROVE  (Calm' => Calm)
  BY <1>14 DEF ReadSingle
<1>15. ASSUME NEW r \in Replicas, NEW b \in batches[r], ReadMerged(r, b)
      PROVE  (Calm' => Calm)
  BY <1>15 DEF ReadMerged
<1>16. ASSUME NEW r \in Replicas, NEW b \in batches[r], Write(r, b)
      PROVE  (Calm' => Calm)
  BY <1>16 DEF Write
<1>17. ASSUME NEW r \in Replicas, NEW b \in batches[r], FlushFails(r, b)
      PROVE  (Calm' => Calm)
  BY <1>17 DEF FlushFails
<1>18. ASSUME NEW r \in Replicas, ReplicaDies(r) PROVE (Calm' => Calm)
  BY <1>18 DEF ReplicaDies
<1>19. CASE Tick
  BY <1>19 DEF Tick
<1>20. CASE Switch
  BY <1>20 DEF Switch
<1>21. CASE UNCHANGED aggVars
  BY <1>21 DEF aggVars
<1> QED
  BY <1>1, <1>2, <1>3, <1>4, <1>5, <1>6, <1>7, <1>8, <1>9, <1>10, <1>11,
     <1>12, <1>13, <1>14, <1>15, <1>16, <1>17, <1>18, <1>19, <1>20, <1>21
  DEF AggNext, Prepare, Admit, Progress


(* Every step without an error or a switch keeps the account.              *)
LEMMA TracedStep ==
  ASSUME AggTypeOK, Homed, Opened, Placed, Written, Calm, Calm', Traced, [AggNext]_aggVars
  PROVE  Traced'
<1> USE Typed, KeptStep DEF SettingsTyped, Calm, settings, Trouble, Prepared, Count,
    Summary, OnBatch, buckets
<1>1. ASSUME NEW e \in Events, outcome[e] = "new", home[e] # NoOne, PrepareSkipped(e)
      PROVE  Traced'
  BY <1>1, TracedSame DEF PrepareSkipped, EventsTyped
<1>2. ASSUME NEW e \in Events, outcome[e] = "new", home[e] # NoOne, PrepareRefused(e)
      PROVE  Traced'
  BY <1>2 DEF PrepareRefused
<1>3. ASSUME NEW e \in Events, outcome[e] = "new", home[e] # NoOne, PreparePassed(e)
      PROVE  Traced'
  BY <1>3, TracedSame DEF PreparePassed, EventsTyped
<1>4. ASSUME NEW e \in Events, outcome[e] = "new", home[e] # NoOne, PrepareSuppressed(e)
      PROVE  Traced'
  <2>1. \A o \in outbox' \ outbox : o.key.kind = "suppressed"
    BY <1>4 DEF PrepareSuppressed, Create, Row, Key
  <2>2. outbox \subseteq outbox' /\ troubles' = troubles
    BY <1>4 DEF PrepareSuppressed, Create
  <2> QED
    BY <1>4, <2>1, <2>2, TracedSame DEF PrepareSuppressed, EventsTyped
<1>5. ASSUME NEW e \in Events, outcome[e] = "prepared", Fold(e) PROVE Traced'
  BY <1>5, TracedSame DEF Fold, EventsTyped
<1>6. ASSUME NEW e \in Events, outcome[e] = "prepared", StartSummary(e)
      PROVE  Traced'
  BY <1>6, TracedSame DEF StartSummary, EventsTyped
<1>7. ASSUME NEW e \in Events, outcome[e] = "prepared", OpenBucket(e)
      PROVE  Traced'
  <2>1. home[e] \in Replicas
    BY <1>7 DEF Homed
  <2>2. bucket' = [bucket EXCEPT ![home[e]] = {e}] /\ bucket[home[e]] = {}
    BY <1>7 DEF OpenBucket
  <2>3. \A x \in Events : x # e => outcome'[x] = outcome[x]
    BY <1>7 DEF OpenBucket, EventsTyped
  <2>4. UNCHANGED <<batches, flushed, feature, enabled, outbox>>
    BY <1>7 DEF OpenBucket
  <2> QED
    BY <1>7, <2>1, <2>2, <2>3, <2>4, TracedSame DEF BucketsTyped
<1>8. ASSUME NEW e \in Events, outcome[e] = "prepared", AddToBucket(e)
      PROVE  Traced'
  <2>1. home[e] \in Replicas
    BY <1>8 DEF Homed
  <2>2. bucket' = [bucket EXCEPT ![home[e]] = @ \cup {e}]
    BY <1>8 DEF AddToBucket
  <2>3. \A x \in Events : x # e => outcome'[x] = outcome[x]
    BY <1>8 DEF AddToBucket, EventsTyped
  <2>4. UNCHANGED <<batches, flushed, feature, enabled, outbox>>
    BY <1>8 DEF AddToBucket
  <2> QED
    BY <1>8, <2>1, <2>2, <2>3, <2>4, TracedSame DEF BucketsTyped
<1>9. ASSUME NEW e \in Events, SummaryRead(e) PROVE Traced'
  BY <1>9, TracedSame DEF SummaryRead, EventsTyped
<1>10. ASSUME NEW e \in Events, SummaryWrite(e) PROVE Traced'
  <2>1. \A o \in outbox' \ outbox : o.key.kind = "burst"
    BY <1>10 DEF SummaryWrite, Create, Row, Key
  <2>2. outbox \subseteq outbox'
    BY <1>10 DEF SummaryWrite, Create
  <2> QED
    BY <1>10, <2>1, <2>2, TracedSame DEF SummaryWrite, EventsTyped
<1>11. ASSUME NEW e \in Events, SummaryFails(e) PROVE Traced'
  BY <1>11 DEF SummaryFails
<1>12. ASSUME NEW r \in Replicas, TimerFires(r) PROVE Traced'
  BY <1>12, TracedSame DEF TimerFires, perEvent
<1>13. ASSUME NEW r \in Replicas, NEW x \in Events, Flush(r, x) PROVE Traced'
  BY <1>13, FlushTraced
<1>14. ASSUME NEW r \in Replicas, NEW b \in batches[r], ReadSingle(r, b)
      PROVE  Traced'
  BY <1>14, ReadSingleTraced
<1>15. ASSUME NEW r \in Replicas, NEW b \in batches[r], ReadMerged(r, b)
      PROVE  Traced'
  BY <1>15, ReadMergedTraced
<1>16. ASSUME NEW r \in Replicas, NEW b \in batches[r], Write(r, b)
      PROVE  Traced'
  BY <1>16, WriteTraced
<1>17. ASSUME NEW r \in Replicas, NEW b \in batches[r], FlushFails(r, b)
      PROVE  Traced'
  BY <1>17 DEF FlushFails
<1>18. ASSUME NEW r \in Replicas, ReplicaDies(r) PROVE Traced'
  BY <1>18 DEF ReplicaDies
<1>19. CASE Tick
  BY <1>19, TracedSame DEF Tick
<1>20. CASE Switch
  BY <1>20 DEF Switch
<1>21. CASE UNCHANGED aggVars
  BY <1>21, TracedSame DEF aggVars, perEvent
<1> QED
  BY <1>1, <1>2, <1>3, <1>4, <1>5, <1>6, <1>7, <1>8, <1>9, <1>10, <1>11,
     <1>12, <1>13, <1>14, <1>15, <1>16, <1>17, <1>18, <1>19, <1>20, <1>21
  DEF AggNext, Prepare, Admit, Progress



(* A mark in burstNotified, and an event that was folded, have a summary.   *)
Spoken(r) ==
    \/ \E o \in outbox : o.key.kind = "burst"
    \/ \E x \in Events : home[x] = r /\ outcome[x] \in {"bursting", "announcing"}

Said ==
    Calm => \A r \in Replicas :
        notified[r] # -1 \/ (\E e \in Events : home[e] = r /\ outcome[e] = "folded") => Spoken(r)

LEMMA SaidSame ==
  ASSUME Calm, Said, UNCHANGED <<home, notified>>, outbox \subseteq outbox',
         \A x \in Events : /\ outcome[x] \in {"bursting", "announcing"} => outcome'[x] = outcome[x]
                           /\ outcome'[x] = "folded" => outcome[x] = "folded"
  PROVE  Said'
  BY DEF Said, Spoken

LEMMA FoldSaid ==
  ASSUME SettingsTyped, EventsTyped, Homed, Calm, Said, NEW e \in Events,
         outcome[e] = "prepared", Fold(e)
  PROVE  Said'
<1>1. TimeBucket(now, BurstWindow) # -1
  BY AggregatorAssumption DEF SettingsTyped, TimeBucket
<1>2. home[e] \in Replicas /\ notified[home[e]] # -1
  BY <1>1 DEF Homed, Fold
<1>3. UNCHANGED <<home, notified, outbox>> /\ outcome' = [outcome EXCEPT ![e] = "folded"]
  BY DEF Fold, Count
<1>4. \A x \in Events : x # e => outcome'[x] = outcome[x]
  BY <1>3 DEF EventsTyped
<1>5. \A r \in Replicas : Spoken(r) => Spoken(r)'
  BY <1>3, <1>4 DEF Spoken
<1> QED
  BY <1>2, <1>3, <1>4, <1>5 DEF Said

LEMMA StartSaid ==
  ASSUME EventsTyped, BucketsTyped, Calm, Said, NEW e \in Events,
         outcome[e] = "prepared", StartSummary(e)
  PROVE  Said'
<1>1. /\ home' = home /\ outbox' = outbox /\ outcome' = [outcome EXCEPT ![e] = "bursting"]
      /\ \A r \in Replicas : r # home[e] => notified'[r] = notified[r]
  BY DEF StartSummary, Count, BucketsTyped
<1>2. outcome'[e] = "bursting" /\ \A x \in Events : x # e => outcome'[x] = outcome[x]
  BY <1>1 DEF EventsTyped
<1>3. Spoken(home[e])'
  BY <1>1, <1>2 DEF Spoken
<1>4. \A r \in Replicas : Spoken(r) => Spoken(r)'
  BY <1>1, <1>2 DEF Spoken
<1>5. ASSUME NEW r \in Replicas, r # home[e],
             notified'[r] # -1 \/ \E x \in Events : home'[x] = r /\ outcome'[x] = "folded"
      PROVE  Spoken(r)'
  BY <1>1, <1>2, <1>4, <1>5 DEF Said
<1>6. ASSUME NEW r \in Replicas, r = home[e] PROVE Spoken(r)'
  BY <1>1, <1>2, <1>6 DEF Spoken
<1> QED
  BY <1>5, <1>6 DEF Said

(* With every channel enabled a summary has somewhere to go.               *)
LEMMA SummarySaid ==
  ASSUME EventsTyped, Channels # {}, Traced, Calm, Said, NEW e \in Events,
         SummaryRead(e) \/ SummaryWrite(e)
  PROVE  Said'
<1>1. UNCHANGED <<home, notified>> /\ outbox \subseteq outbox'
  BY DEF SummaryRead, SummaryWrite, Summary, counters, Create
<1>2. /\ outcome[e] \in {"bursting", "announcing"}
      /\ \A x \in Events : x # e => outcome'[x] = outcome[x]
      /\ outcome'[e] \in {"announcing", "announced"}
  BY DEF SummaryRead, SummaryWrite, Summary, EventsTyped
<1>3. outcome'[e] = "announcing" \/ \E o \in outbox' : o.key.kind = "burst"
  <2>1. CASE SummaryRead(e)
    <3>1. (IF chans[e] = {} THEN Channels ELSE chans[e]) \cap enabled # {}
      BY DEF Traced, Wide, EventsTyped
    <3> QED
      BY <2>1, <3>1 DEF SummaryRead, Summary, EventsTyped
  <2>2. CASE SummaryWrite(e)
    <3>1. PICK c \in todo[e] :
            Create({Row(c, Key("burst", slot[e], NoOne), {}, FALSE, Deferred(c, {e}))})
      BY <2>2 DEF SummaryWrite
    <3>2. PICK o : o = Row(c, Key("burst", slot[e], NoOne), {}, FALSE, Deferred(c, {e}))
      OBVIOUS
    <3>3. o.key.kind = "burst" /\ o.ch = c /\ Create({o})
      BY <3>1, <3>2 DEF Row, Key
    <3> QED
      BY <3>3 DEF Create, Conflict
  <2> QED
    BY <2>1, <2>2
<1>4. \A r \in Replicas : Spoken(r) => Spoken(r)'
  BY <1>1, <1>2, <1>3 DEF Spoken
<1>5. \A x \in Events : outcome'[x] = "folded" => outcome[x] = "folded"
  BY <1>2
<1> QED
  BY <1>1, <1>4, <1>5 DEF Said

(* No step without an error leaves a burst without its summary.            *)
LEMMA SaidStep ==
  ASSUME AggTypeOK, Channels # {}, Homed, Calm, Calm', Traced, Said, [AggNext]_aggVars
  PROVE  Said'
<1> USE Typed, SaidSame DEF SettingsTyped, EventsTyped, Calm, settings, perEvent,
    counters, Trouble, Prepared, Count, Summary, OnBatch
<1>1. ASSUME NEW e \in Events, outcome[e] = "new", home[e] # NoOne, PrepareSkipped(e)
      PROVE  Said'
  BY <1>1 DEF PrepareSkipped
<1>2. ASSUME NEW e \in Events, outcome[e] = "new", home[e] # NoOne, PrepareRefused(e)
      PROVE  Said'
  BY <1>2 DEF PrepareRefused
<1>3. ASSUME NEW e \in Events, outcome[e] = "new", home[e] # NoOne, PreparePassed(e)
      PROVE  Said'
  BY <1>3 DEF PreparePassed
<1>4. ASSUME NEW e \in Events, outcome[e] = "new", home[e] # NoOne, PrepareSuppressed(e)
      PROVE  Said'
  <2>1. outbox \subseteq outbox' /\ UNCHANGED <<home, notified>>
    BY <1>4 DEF PrepareSuppressed, Create
  <2> QED
    BY <1>4, <2>1 DEF PrepareSuppressed
<1>5. ASSUME NEW e \in Events, outcome[e] = "prepared", Fold(e) PROVE Said'
  BY <1>5, FoldSaid
<1>6. ASSUME NEW e \in Events, outcome[e] = "prepared", StartSummary(e)
      PROVE  Said'
  BY <1>6, StartSaid
<1>7. ASSUME NEW e \in Events, outcome[e] = "prepared", OpenBucket(e)
      PROVE  Said'
  BY <1>7 DEF OpenBucket
<1>8. ASSUME NEW e \in Events, outcome[e] = "prepared", AddToBucket(e)
      PROVE  Said'
  BY <1>8 DEF AddToBucket
<1>9. ASSUME NEW e \in Events, SummaryRead(e) PROVE Said'
  BY <1>9, SummarySaid
<1>10. ASSUME NEW e \in Events, SummaryWrite(e) PROVE Said'
  BY <1>10, SummarySaid
<1>11. ASSUME NEW e \in Events, SummaryFails(e) PROVE Said'
  BY <1>11 DEF SummaryFails
<1>12. ASSUME NEW r \in Replicas, TimerFires(r) PROVE Said'
  BY <1>12 DEF TimerFires
<1>13. ASSUME NEW r \in Replicas, NEW x \in Events, Flush(r, x) PROVE Said'
  BY <1>13 DEF Flush
<1>14. ASSUME NEW r \in Replicas, NEW b \in batches[r], ReadSingle(r, b)
      PROVE  Said'
  BY <1>14 DEF ReadSingle
<1>15. ASSUME NEW r \in Replicas, NEW b \in batches[r], ReadMerged(r, b)
      PROVE  Said'
  BY <1>15 DEF ReadMerged
<1>16. ASSUME NEW r \in Replicas, NEW b \in batches[r], Write(r, b) PROVE Said'
  <2>1. outbox \subseteq outbox' /\ UNCHANGED <<outcome, home, notified>>
    BY <1>16 DEF Write, Create
  <2> QED
    BY <2>1
<1>17. ASSUME NEW r \in Replicas, NEW b \in batches[r], FlushFails(r, b)
      PROVE  Said'
  BY <1>17 DEF FlushFails
<1>18. ASSUME NEW r \in Replicas, ReplicaDies(r) PROVE Said'
  BY <1>18 DEF ReplicaDies
<1>19. CASE Tick
  BY <1>19 DEF Tick
<1>20. CASE Switch
  BY <1>20 DEF Switch
<1>21. CASE UNCHANGED aggVars
  BY <1>21 DEF aggVars
<1> QED
  BY <1>1, <1>2, <1>3, <1>4, <1>5, <1>6, <1>7, <1>8, <1>9, <1>10, <1>11,
     <1>12, <1>13, <1>14, <1>15, <1>16, <1>17, <1>18, <1>19, <1>20, <1>21
  DEF AggNext, Prepare, Admit, Progress



-----------------------------------------------------------------------------
AggInv ==
    /\ AggTypeOK
    /\ Homed
    /\ Opened
    /\ Placed
    /\ Written
    /\ Clocked
    /\ Traced
    /\ Channels # {} => Said

LEMMA AggBase == AggInit => AggInv
<1> SUFFICES ASSUME AggInit PROVE AggInv
  OBVIOUS
<1>1. PICK s \in Scenarios : /\ home = s.home /\ threshold = s.threshold
                             /\ judged = s.judged /\ horizon = s.horizon /\ budget = s.budget
  BY DEF AggInit
<1>2. /\ home \in [Events -> Replicas \cup {NoOne}] /\ threshold \in Nat \ {0}
      /\ judged \in SUBSET Events /\ horizon \in Nat /\ budget \in Nat
  BY <1>1, AggregatorAssumption
<1>3. SettingsTyped
  <2>1. now \in 0..horizon /\ flips \in 0..budget /\ troubles \in 0..budget
    BY <1>2 DEF AggInit
  <2>2. feature \in BOOLEAN /\ muted \in BOOLEAN
    BY DEF AggInit
  <2> QED
    BY <1>2, <2>1, <2>2 DEF AggInit, SettingsTyped
<1>4. EventsTyped /\ Homed
  BY <1>2 DEF AggInit, EventsTyped, Homed
<1>5. BucketsTyped /\ Opened /\ RowsTyped
  BY DEF AggInit, BucketsTyped, Opened, RowsTyped
<1>6. Placed
  BY FS_EmptySet DEF AggInit, Placed, PlacedAt
<1>7. Written
  BY DEF AggInit, Written, OneRowPerEvent, SuppressedTold
<1>8. Clocked
  BY DEF AggInit, Clocked, ClockedAt
<1>9. Traced
  BY DEF AggInit, Traced, Wide, RowTags, BatchTags, Ended
<1>10. Said
  BY DEF AggInit, Said
<1> QED
  BY <1>3, <1>4, <1>5, <1>6, <1>7, <1>8, <1>9, <1>10, Typed DEF AggInv

LEMMA AggStep == AggInv /\ [AggNext]_aggVars => AggInv'
<1> SUFFICES ASSUME AggInv, [AggNext]_aggVars PROVE AggInv'
  OBVIOUS
<1> USE DEF AggInv
<1>1. SettingsTyped' /\ EventsTyped' /\ Homed'
  BY Typed, SettingsStep, EventsStep
<1>2. BucketsTyped' /\ Opened' /\ RowsTyped'
  BY Typed, BucketsStep, RowsStep
<1>3. AggTypeOK'
  BY <1>1, <1>2 DEF AggTypeOK, SettingsTyped, EventsTyped, BucketsTyped, RowsTyped
<1>4. Placed' /\ Written' /\ Clocked'
  BY PlacedStep, WrittenStep, ClockedStep
<1>5. Traced' /\ (Channels # {} => Said')
  <2>1. CASE Calm'
    <3>1. Calm
      BY <2>1, CalmStep, Typed
    <3> QED
      BY <2>1, <3>1, TracedStep, SaidStep
  <2>2. CASE ~Calm'
    BY <2>2 DEF Traced, Said
  <2> QED
    BY <2>1, <2>2
<1> QED
  BY <1>1, <1>2, <1>3, <1>4, <1>5

LEMMA AggInductive == AggSpec => []AggInv
  BY AggBase, AggStep, PTL DEF AggSpec

(* Every variable of the aggregator keeps its type (rules/aggregate.go).   *)
THEOREM AggTypeCorrect == AggSpec => []AggTypeOK
<1>1. AggInv => AggTypeOK
  BY DEF AggInv
<1> QED
  BY <1>1, AggInductive, PTL

(* No channel gets two rows about one event, whatever fails or races: not   *)
(* alone and in a batch, not suppressed and sent (enqueueMerged and         *)
(* enqueueRealtimeInner in rules/engine.go, the suppressed rows of          *)
(* rules/jev_notification.go).                                              *)
THEOREM OneRowPerEventAlways == AggSpec => []OneRowPerEvent
<1>1. AggInv => OneRowPerEvent
  BY DEF AggInv, Written
<1> QED
  BY <1>1, AggInductive, PTL

(* An event is written for the channels chosen for it and for no others,    *)
(* and an event that was suppressed has its record on each of them.         *)
THEOREM RoutesRespectedAlways == AggSpec => []RoutesRespected
<1>1. AggInv => RoutesRespected
  BY DEF AggInv, Written, RowSettled, SuppressedTold, RoutesRespected
<1> QED
  BY <1>1, AggInductive, PTL

(* A bucket in the map has its timer running or a flush on its way (add and *)
(* flush in rules/aggregate.go).                                            *)
THEOREM FlushPendingAlways == AggSpec => []FlushPending
<1>1. AggInv => FlushPending
  BY DEF AggInv, Clocked, ClockedAt, FlushPending
<1> QED
  BY <1>1, AggInductive, PTL

(* A bucket leaves the map full, or when its own window is over, or with    *)
(* the process (flush in rules/aggregate.go).                               *)
THEOREM WindowKeptAlways == AggSpec => WindowKept
<1>1. AggInv /\ [AggNext]_aggVars => [WindowBody]_aggVars
  BY WindowStep DEF AggInv
<1>2. AggSpec => [][WindowBody]_aggVars
  BY <1>1, AggBase, AggStep, PTL DEF AggSpec
<1> QED
  BY <1>2 DEF WindowKept, WindowBody

(* While nothing fails and no switch is turned, every event Evaluate took  *)
(* on is in memory, in a row on each channel chosen for it or behind the    *)
(* summary of its burst; only the batch another replica made in the same    *)
(* time bucket can crowd it out (add, flush and EvaluateRule in             *)
(* rules/aggregate.go, enqueueMerged in rules/engine.go).                   *)
THEOREM EventsAccountedAlways ==
  ASSUME Channels # {}
  PROVE  AggSpec => []EventsAccounted
<1>1. AggInv => EventsAccounted
  <2> SUFFICES ASSUME AggInv, troubles = 0, flips = 0, NEW e \in Events
               PROVE  /\ outcome[e] = "bucketed" /\ ~Buffered(e) =>
                             \A c \in chans[e] : Told(e, c) \/ Crowded(e, c)
                      /\ outcome[e] = "folded" => Announced(e)
    BY DEF EventsAccounted
  <2>1. Calm
    BY DEF Calm
  <2>2. outcome[e] = "bucketed" /\ ~Buffered(e) => \A c \in chans[e] : Told(e, c) \/ Crowded(e, c)
    BY <2>1 DEF AggInv, Traced, Ended, Reached
  <2>3. outcome[e] = "folded" => Announced(e)
    BY <2>1 DEF AggInv, Said, Spoken, Homed, Announced
  <2> QED
    BY <2>2, <2>3
<1> QED
  BY <1>1, AggInductive, PTL

-----------------------------------------------------------------------------
(* The aggregator implements EventNotices.                                  *)

LEMMA FateMoves ==
  ASSUME EventsTyped, NEW e \in Events, NEW o, outcome' = [outcome EXCEPT ![e] = o]
  PROVE  /\ fateNow' = [fateNow EXCEPT ![e] = FateOf(o)]
         /\ FateOf(o) = FateOf(outcome[e]) => fateNow' = fateNow
  BY DEF EventsTyped, fateNow

LEMMA WantedKept ==
  ASSUME EventsTyped, chans' = chans,
         \A e \in Events : (outcome[e] # "new" /\ outcome'[e] # "new") \/ outcome'[e] = outcome[e]
  PROVE  wantedNow' = wantedNow
  BY DEF wantedNow

(* What is about an event is about one that was suppressed or bucketed.     *)
LEMMA UntoldYet ==
  ASSUME Written, NEW e \in Events, outcome[e] \notin {"suppressed", "bucketed"}
  PROVE  Notices!Untold(e) /\ \A rec \in outbox : e \notin rec.events
<1>1. \A rec \in outbox : e \notin rec.events
  BY DEF Written, RowSettled
<1> QED
  BY <1>1 DEF Notices!Untold, Notices!TellsOf, noticesNow, NoticeOf

(* The steps in memory.                                                     *)
LEMMA MemoryStep ==
  ASSUME EventsTyped, UNCHANGED <<outbox, chans>>,
         \A e \in Events : outcome'[e] = outcome[e] \/
             {outcome[e], outcome'[e]} \subseteq {"prepared", "bursting", "announcing", "bucketed"}
  PROVE  UNCHANGED Notices!vars
<1>1. noticesNow' = noticesNow
  BY DEF noticesNow
<1>2. \A e \in Events : FateOf(outcome'[e]) = FateOf(outcome[e])
  BY DEF FateOf
<1>3. fateNow' = fateNow
  BY <1>2 DEF fateNow
<1>4. wantedNow' = wantedNow
  BY DEF wantedNow
<1> QED
  BY <1>1, <1>3, <1>4 DEF Notices!vars

LEMMA PrepareNoticed ==
  ASSUME EventsTyped, Written, Written', NEW e \in Events, Prepare(e)
  PROVE  Notices!Next
<1>1. outcome[e] = "new" /\ fateNow[e] = "new"
  BY DEF Prepare, fateNow, FateOf
<1>2. ASSUME NEW to, NEW sel \in SUBSET Channels, Prepared(e, to, sel), to # "new"
      PROVE  /\ fateNow' = [fateNow EXCEPT ![e] = FateOf(to)]
             /\ wantedNow' = [wantedNow EXCEPT ![e] = sel]
  <2>1. fateNow' = [fateNow EXCEPT ![e] = FateOf(to)]
    BY <1>2, FateMoves DEF Prepared
  <2>2. wantedNow' = [wantedNow EXCEPT ![e] = sel]
    BY <1>2 DEF Prepared, wantedNow, EventsTyped
  <2> QED
    BY <2>1, <2>2
<1>3. ASSUME outbox' = outbox, NEW to \in {"skipped", "refused"}, Prepared(e, to, {})
      PROVE  Notices!Next
  <2>1. fateNow' = [fateNow EXCEPT ![e] = "rejected"] /\ wantedNow' = [wantedNow EXCEPT ![e] = {}]
    BY <1>2, <1>3 DEF FateOf
  <2>2. wantedNow' = wantedNow /\ noticesNow' = noticesNow
    BY <1>1, <1>3, <2>1 DEF wantedNow, noticesNow
  <2>3. fateNow' = [x \in Events |-> IF x \in {e} THEN "rejected" ELSE fateNow[x]]
    BY <2>1 DEF fateNow
  <2>4. Notices!Untold(e)
    BY <1>1, UntoldYet
  <2>5. Notices!TurnAway({e})
    BY <1>1, <2>2, <2>3, <2>4 DEF Notices!TurnAway
  <2> QED
    BY <2>5 DEF Notices!Next
<1>4. ASSUME outbox' = outbox, NEW sel \in SUBSET Channels, Prepared(e, "prepared", sel)
      PROVE  Notices!Next
  <2>1. /\ fateNow' = [fateNow EXCEPT ![e] = "open"]
        /\ wantedNow' = [wantedNow EXCEPT ![e] = sel]
    BY <1>2, <1>4 DEF FateOf
  <2>2. Notices!TakeOn(e)
    BY <1>1, <1>4, <2>1 DEF Notices!TakeOn, noticesNow
  <2> QED
    BY <2>2 DEF Notices!Next
<1>5. ASSUME NEW sel \in SUBSET Channels, Prepared(e, "suppressed", sel),
             Create({Row(c, Key("suppressed", 0, e), {e}, FALSE, FALSE) : c \in sel})
      PROVE  Notices!Next
  <2> DEFINE record(c) == Row(c, Key("suppressed", 0, e), {e}, FALSE, FALSE)
  <2>1. /\ fateNow' = [fateNow EXCEPT ![e] = "suppressed"]
        /\ wantedNow' = [wantedNow EXCEPT ![e] = sel]
    BY <1>2, <1>5 DEF FateOf
  <2>2. outcome'[e] = "suppressed" /\ chans'[e] = sel
    BY <1>5 DEF Prepared, EventsTyped
  <2>3. sel # {} /\ \A c \in sel : Told(e, c)'
    BY <2>2 DEF Written, SuppressedTold
  <2>4. \A r \in outbox : e \notin r.events
    BY <1>1, UntoldYet
  <2>5. ASSUME NEW c \in sel PROVE record(c) \in outbox'
    <3>1. PICK r \in outbox' : r.ch = c /\ e \in r.events
      BY <2>3, <2>5 DEF Told
    <3>2. PICK d \in sel : r = record(d)
      BY <1>5, <2>4, <3>1 DEF Create
    <3> QED
      BY <3>1, <3>2 DEF Row
  <2>6. outbox' = outbox \cup {record(c) : c \in sel}
    BY <1>5, <2>5 DEF Create
  <2>7. \A c \in sel : record(c).events # {} /\ NoticeOf(record(c)) = Notices!Notice(c, {e}, TRUE)
    BY DEF Row, Key, NoticeOf, Notices!Notice
  <2> HIDE DEF record
  <2>8. noticesNow' = noticesNow \cup {Notices!Notice(c, {e}, TRUE) : c \in sel}
    BY <2>6, <2>7 DEF noticesNow
  <2>9. Notices!Suppress(e)
    BY <1>1, <2>1, <2>3, <2>8 DEF Notices!Suppress
  <2> QED
    BY <2>9 DEF Notices!Next
<1>6. \A sel \in Selections(e) : sel \subseteq Channels
  BY AggregatorAssumption DEF Selections
<1> QED
  BY <1>3, <1>4, <1>5, <1>6
  DEF Prepare, PrepareSkipped, PrepareRefused, PreparePassed, PrepareSuppressed

(* An event that is open and untold leaves for a summary, or is given up.   *)
LEMMA LeavesNoticed ==
  ASSUME EventsTyped, Written, NEW e \in Events, UNCHANGED chans,
         outcome[e] \in {"prepared", "bursting", "announcing"},
         NEW o \in {"folded", "announced", "refused"},
         outcome' = [outcome EXCEPT ![e] = o], noticesNow' = noticesNow
  PROVE  Notices!Next
<1>1. Notices!Untold(e) /\ fateNow[e] = "open"
  BY UntoldYet DEF fateNow, FateOf
<1>2. fateNow' = [fateNow EXCEPT ![e] = FateOf(o)]
  BY FateMoves
<1>3. wantedNow' = wantedNow
  BY WantedKept DEF EventsTyped
<1>4. CASE o = "refused"
  <2>1. fateNow' = [x \in Events |-> IF x \in {e} THEN "rejected" ELSE fateNow[x]]
    BY <1>2, <1>4 DEF FateOf, fateNow
  <2>2. Notices!TurnAway({e})
    BY <1>1, <1>3, <2>1 DEF Notices!TurnAway
  <2> QED
    BY <2>2 DEF Notices!Next
<1>5. CASE o \in {"folded", "announced"}
  <2>1. Notices!Summarise(e)
    BY <1>1, <1>2, <1>3, <1>5 DEF Notices!Summarise, FateOf
  <2> QED
    BY <2>1 DEF Notices!Next
<1> QED
  BY <1>4, <1>5

LEMMA AdmitNoticed ==
  ASSUME EventsTyped, Written, NEW e \in Events, Admit(e)
  PROVE  [Notices!Next]_(Notices!vars)
<1>1. /\ outcome[e] = "prepared" /\ UNCHANGED <<chans, outbox>>
      /\ \E o \in {"folded", "bursting", "bucketed"} : outcome' = [outcome EXCEPT ![e] = o]
  BY DEF Admit, Fold, StartSummary, OpenBucket, AddToBucket, Count
<1>2. CASE outcome' = [outcome EXCEPT ![e] = "folded"]
  BY <1>1, <1>2, LeavesNoticed DEF noticesNow
<1>3. CASE \E o \in {"bursting", "bucketed"} : outcome' = [outcome EXCEPT ![e] = o]
  BY <1>1, <1>3, MemoryStep DEF EventsTyped
<1> QED
  BY <1>1, <1>2, <1>3

LEMMA SummaryNoticed ==
  ASSUME EventsTyped, Written, NEW e \in Events,
         SummaryRead(e) \/ SummaryWrite(e) \/ SummaryFails(e)
  PROVE  [Notices!Next]_(Notices!vars)
<1>1. noticesNow' = noticesNow
  <2>1. CASE outbox' = outbox
    BY <2>1 DEF noticesNow
  <2>2. CASE SummaryWrite(e)
    <3>1. PICK c \in todo[e] :
             Create({Row(c, Key("burst", slot[e], NoOne), {}, FALSE, Deferred(c, {e}))})
      BY <2>2 DEF SummaryWrite
    <3>2. \A rec \in outbox' : rec.events # {} <=> rec \in outbox /\ rec.events # {}
      BY <3>1 DEF Create, Row
    <3>3. outbox \subseteq outbox'
      BY <3>1 DEF Create
    <3> QED
      BY <3>2, <3>3 DEF noticesNow
  <2> QED
    BY <2>1, <2>2 DEF SummaryRead, SummaryFails
<1>2. /\ outcome[e] \in {"bursting", "announcing"} /\ UNCHANGED chans
      /\ \E o \in {"announced", "announcing", "refused"} : outcome' = [outcome EXCEPT ![e] = o]
  BY DEF SummaryRead, SummaryWrite, SummaryFails, Summary
<1>3. CASE \E o \in {"announced", "refused"} : outcome' = [outcome EXCEPT ![e] = o]
  BY <1>1, <1>2, <1>3, LeavesNoticed
<1>4. CASE outcome' = [outcome EXCEPT ![e] = "announcing"]
  <2>1. fateNow' = fateNow
    BY <1>2, <1>4, FateMoves DEF FateOf
  <2>2. wantedNow' = wantedNow
    BY <1>2, <1>4, WantedKept DEF EventsTyped
  <2> QED
    BY <1>1, <2>1, <2>2 DEF Notices!vars
<1> QED
  BY <1>2, <1>3, <1>4

LEMMA WriteNoticed ==
  ASSUME EventsTyped, RowsTyped', Written', NEW r \in Replicas, NEW b \in batches[r], Write(r, b),
         SuppressedTold
  PROVE  [Notices!Next]_(Notices!vars)
<1>1. UNCHANGED <<outcome, chans>>
  BY DEF Write, OnBatch, perEvent
<1>2. fateNow' = fateNow /\ wantedNow' = wantedNow
  BY <1>1 DEF fateNow, wantedNow
<1>3. PICK rec : outbox' \in {outbox, outbox \cup {rec}}
  <2>1. PICK c \in b.left : \E es :
           Create({Row(c, b.key, es, b.muted, b.key.kind # "suppressed" /\ Deferred(c, es))})
    BY DEF Write
  <2> QED
    BY <2>1 DEF Create
<1>4. CASE outbox' = outbox \/ rec \in outbox \/ rec.events = {}
  <2>1. noticesNow' = noticesNow
    BY <1>3, <1>4 DEF noticesNow
  <2> QED
    BY <1>2, <2>1 DEF Notices!vars
<1>5. CASE outbox' = outbox \cup {rec} /\ rec \notin outbox /\ rec.events # {}
  <2>1. rec \in outbox' /\ rec.events \subseteq Events /\ rec.ch \in Channels
    BY <1>5 DEF RowsTyped, Rows
  <2>2. ASSUME NEW e \in rec.events
        PROVE  /\ chans[e] # {} => rec.ch \in chans[e]
               /\ \A x \in outbox : x.ch = rec.ch => e \notin x.events
               /\ outcome[e] = "bucketed"
    <3>1. /\ outcome[e] \in {"suppressed", "bucketed"}
          /\ chans[e] # {} => rec.ch \in chans[e]
      BY <1>1, <2>1 DEF Written, RowSettled
    <3>2. ASSUME NEW x \in outbox, x.ch = rec.ch PROVE e \notin x.events
      <4>1. x \in outbox' /\ x # rec
        BY <1>5
      <4> QED
        BY <2>1, <2>2, <3>2, <4>1 DEF Written, OneRowPerEvent
    <3>3. outcome[e] # "suppressed"
      BY <2>1, <3>1, <3>2 DEF SuppressedTold, Told
    <3> QED
      BY <3>1, <3>2, <3>3
  <2>3. \A e \in rec.events :
          /\ fateNow[e] = "open"
          /\ wantedNow[e] = {} \/ rec.ch \in wantedNow[e]
    BY <2>1, <2>2 DEF fateNow, FateOf, wantedNow
  <2>4. \A e \in rec.events : \A n \in noticesNow : n.ch = rec.ch => ~Notices!TellsOf(n, e)
    BY <2>2 DEF noticesNow, NoticeOf, Notices!TellsOf
  <2>5. \E silent \in BOOLEAN :
          noticesNow' = noticesNow \cup {Notices!Notice(rec.ch, rec.events, silent)}
    <3>1. noticesNow' = noticesNow \cup {NoticeOf(rec)}
      BY <1>5 DEF noticesNow
    <3> QED
      BY <3>1 DEF NoticeOf, Notices!Notice
  <2>6. Notices!Tell(rec.ch, rec.events)
    BY <1>2, <1>5, <2>3, <2>4, <2>5 DEF Notices!Tell
  <2> QED
    BY <2>1, <2>6 DEF Notices!Next
<1> QED
  BY <1>3, <1>4, <1>5

LEMMA DeathNoticed ==
  ASSUME EventsTyped, Written, NEW r \in Replicas, ReplicaDies(r)
  PROVE  Notices!Next
<1> DEFINE es == {e \in Events : home[e] = r /\ e \in Evaluating}
<1>1. /\ outcome' = [e \in Events |-> IF e \in es THEN "refused" ELSE outcome[e]]
      /\ UNCHANGED <<chans, outbox>>
  BY DEF ReplicaDies
<1>2. \A e \in es : outcome[e] \in {"prepared", "bursting", "announcing"}
  BY DEF Evaluating
<1> HIDE DEF es
<1>3. es \in SUBSET Events
  BY DEF es
<1>4. \A e \in es : fateNow[e] = "open" /\ Notices!Untold(e)
  BY <1>2, <1>3, UntoldYet DEF fateNow, FateOf
<1>5. fateNow' = [e \in Events |-> IF e \in es THEN "rejected" ELSE fateNow[e]]
  BY <1>1 DEF fateNow, FateOf
<1>6. wantedNow' = wantedNow
  BY <1>1, <1>2, WantedKept
<1>7. Notices!TurnAway(es)
  BY <1>1, <1>4, <1>5, <1>6 DEF Notices!TurnAway, noticesNow
<1> QED
  BY <1>3, <1>7 DEF Notices!Next

LEMMA StepImplementsNotices ==
  ASSUME AggInv, AggInv', [AggNext]_aggVars
  PROVE  [Notices!Next]_(Notices!vars)
<1>1. EventsTyped /\ RowsTyped' /\ Written /\ Written' /\ SuppressedTold
  BY Typed DEF AggInv, AggTypeOK, RowsTyped, Written
<1>2. ASSUME UNCHANGED <<outcome, chans, outbox>> PROVE UNCHANGED Notices!vars
  BY <1>1, <1>2, MemoryStep
<1>3. ASSUME NEW r \in Replicas, Progress(r) PROVE [Notices!Next]_(Notices!vars)
  <2>1. CASE TimerFires(r) \/ \E x \in Events : Flush(r, x)
    BY <1>2, <2>1 DEF TimerFires, Flush, perEvent
  <2>2. CASE \E b \in batches[r] : ReadSingle(r, b) \/ ReadMerged(r, b)
    BY <1>2, <2>2 DEF ReadSingle, ReadMerged, OnBatch, perEvent
  <2>3. CASE \E b \in batches[r] : Write(r, b)
    BY <1>1, <2>3, WriteNoticed
  <2> QED
    BY <1>3, <2>1, <2>2, <2>3 DEF Progress
<1>4. CASE Tick \/ Switch \/ UNCHANGED aggVars \/ \E r \in Replicas : \E b \in batches[r] : FlushFails(r, b)
  BY <1>2, <1>4 DEF Tick, Switch, FlushFails, OnBatch, perEvent, aggVars
<1> QED
  BY <1>1, <1>3, <1>4, PrepareNoticed, AdmitNoticed, SummaryNoticed, DeathNoticed DEF AggNext

(* The aggregator implements the abstract notices: whatever buckets, timers,*)
(* bursts, switches and crashes do, an event is turned away, suppressed,    *)
(* summarised or told, once per channel and where it was routed (Evaluate,  *)
(* flush and enqueueMerged).                                                *)
THEOREM AggregatorImplementsNotices == AggSpec => ImplementsNotices
<1>1. AggInit => Notices!Init
  <2> SUFFICES ASSUME AggInit PROVE Notices!Init
    OBVIOUS
  <2>1. outbox = {} /\ \A e \in Events : outcome[e] = "new"
    BY DEF AggInit
  <2>2. noticesNow = {}
    BY <2>1 DEF noticesNow
  <2>3. fateNow = [e \in Events |-> "new"] /\ wantedNow = [e \in Events |-> {}]
    BY <2>1 DEF fateNow, FateOf, wantedNow
  <2> QED
    BY <2>2, <2>3 DEF Notices!Init
<1>2. AggInv /\ AggInv' /\ [AggNext]_aggVars => [Notices!Next]_(Notices!vars)
  BY StepImplementsNotices
<1> QED
  BY <1>1, <1>2, AggInductive, PTL DEF AggSpec, ImplementsNotices, Notices!Spec

-----------------------------------------------------------------------------
(* What EventNotices promises, of every behaviour of it.                    *)

NoticesInv == Notices!TypeOK /\ Notices!Faithful /\ Notices!RecordsComplete

LEMMA NoticesStep == NoticesInv /\ [Notices!Next]_(Notices!vars) => NoticesInv'
<1> SUFFICES ASSUME NoticesInv, [Notices!Next]_(Notices!vars) PROVE NoticesInv'
  OBVIOUS
<1> USE DEF NoticesInv, Notices!TypeOK
<1>1. CASE UNCHANGED Notices!vars
  BY <1>1 DEF Notices!vars, Notices!Faithful, Notices!RecordsComplete, Notices!TellsOf, Notices!Notice
<1>2. ASSUME NEW e \in Events, fateNow[e] \notin {"open", "suppressed"} PROVE Notices!Untold(e)
  BY <1>2 DEF Notices!Faithful, Notices!Untold, Notices!TellsOf
<1>3. ASSUME NEW e \in Events, Notices!TakeOn(e) PROVE NoticesInv'
  <2>1. Notices!Untold(e)
    BY <1>2, <1>3 DEF Notices!TakeOn
  <2>2. Notices!TypeOK'
    BY <1>3 DEF Notices!TakeOn
  <2>3. Notices!Faithful'
    BY <1>3, <2>1 DEF Notices!TakeOn, Notices!Faithful, Notices!Untold, Notices!TellsOf
  <2>4. Notices!RecordsComplete'
    BY <1>3 DEF Notices!TakeOn, Notices!RecordsComplete, Notices!Notice
  <2> QED
    BY <2>2, <2>3, <2>4
<1>4. ASSUME NEW e \in Events, Notices!Suppress(e) PROVE NoticesInv'
  <2>1. Notices!Untold(e)
    BY <1>2, <1>4 DEF Notices!Suppress
  <2>2. PICK cs \in (SUBSET Channels) \ {{}} :
          /\ wantedNow' = [wantedNow EXCEPT ![e] = cs]
          /\ noticesNow' = noticesNow \cup {Notices!Notice(c, {e}, TRUE) : c \in cs}
    BY <1>4 DEF Notices!Suppress
  <2>3. fateNow' = [fateNow EXCEPT ![e] = "suppressed"]
    BY <1>4 DEF Notices!Suppress
  <2>4. \A n \in noticesNow' : n \in noticesNow \/ \E c \in cs : n = Notices!Notice(c, {e}, TRUE)
    BY <2>2
  <2>5. \A n \in noticesNow' : n \in noticesNow \/ (n.events = {e} /\ n.ch \in cs /\ n.silent = TRUE)
    BY <2>4 DEF Notices!Notice
  <2>6. Notices!TypeOK'
    <3>1. \A c \in cs : Notices!Notice(c, {e}, TRUE) \in
                         [ch : Channels, events : SUBSET Events, silent : BOOLEAN]
      BY <2>2 DEF Notices!Notice
    <3>2. ASSUME NEW n \in noticesNow'
          PROVE  n \in [ch : Channels, events : SUBSET Events, silent : BOOLEAN]
      <4>1. CASE n \in noticesNow
        BY <4>1
      <4>2. CASE n \notin noticesNow
        BY <2>4, <3>1, <4>2
      <4> QED
        BY <4>1, <4>2
    <3>3. fateNow' \in [Events -> {"new", "open", "rejected", "suppressed", "summarised"}]
      BY <2>3
    <3>4. wantedNow' \in [Events -> SUBSET Channels]
      BY <2>2
    <3> QED
      BY <3>2, <3>3, <3>4
  <2>7. ASSUME NEW n \in noticesNow', NEW x \in n.events
        PROVE  /\ wantedNow'[x] = {} \/ n.ch \in wantedNow'[x]
               /\ \A m \in noticesNow' : m.ch = n.ch /\ Notices!TellsOf(m, x) => m = n
               /\ \/ fateNow'[x] = "open"
                  \/ fateNow'[x] = "suppressed" /\ n.silent
    <3>1. CASE n \in noticesNow
      <4>1. x # e /\ x \in Events
        BY <2>1, <2>7, <3>1 DEF Notices!Untold, Notices!TellsOf
      <4>2. fateNow'[x] = fateNow[x] /\ wantedNow'[x] = wantedNow[x]
        BY <2>2, <2>3, <4>1
      <4>3. \A m \in noticesNow' : x \in m.events => m \in noticesNow
        BY <2>5, <4>1
      <4>4. /\ wantedNow[x] = {} \/ n.ch \in wantedNow[x]
            /\ \A m \in noticesNow : m.ch = n.ch /\ x \in m.events => m = n
            /\ \/ fateNow[x] = "open"
               \/ fateNow[x] = "suppressed" /\ n.silent
        BY <2>7, <3>1 DEF Notices!Faithful, Notices!TellsOf
      <4>5. \A m \in noticesNow' : m.ch = n.ch /\ Notices!TellsOf(m, x) => m = n
        BY <4>3, <4>4 DEF Notices!TellsOf
      <4> QED
        BY <4>2, <4>4, <4>5
    <3>2. CASE n \notin noticesNow
      <4>1. x = e
        BY <2>5, <2>7, <3>2
      <4>2. ASSUME NEW m \in noticesNow', m.ch = n.ch, e \in m.events PROVE m = n
        <5>1. m \notin noticesNow
          BY <2>1, <4>2 DEF Notices!Untold, Notices!TellsOf
        <5>2. PICK c1 \in cs : m = Notices!Notice(c1, {e}, TRUE)
          BY <2>4, <5>1
        <5>3. PICK c2 \in cs : n = Notices!Notice(c2, {e}, TRUE)
          BY <2>4, <2>7, <3>2
        <5> QED
          BY <4>2, <5>2, <5>3 DEF Notices!Notice
      <4>3. fateNow'[e] = "suppressed" /\ wantedNow'[e] = cs
        BY <2>2, <2>3
      <4>4. n.ch \in cs /\ n.silent
        BY <2>5, <2>7, <3>2
      <4>5. \A m \in noticesNow' : m.ch = n.ch /\ Notices!TellsOf(m, e) => m = n
        BY <4>2 DEF Notices!TellsOf
      <4> QED
        BY <4>1, <4>3, <4>4, <4>5
    <3> QED
      BY <3>1, <3>2
  <2>8. Notices!Faithful'
    BY <2>7 DEF Notices!Faithful, Notices!TellsOf
  <2>9. Notices!RecordsComplete'
    BY <2>2, <2>3 DEF Notices!RecordsComplete, Notices!Notice
  <2> QED
    BY <2>6, <2>8, <2>9
<1>5. ASSUME NEW es \in SUBSET Events, Notices!TurnAway(es) PROVE NoticesInv'
  <2>1. Notices!TypeOK'
    BY <1>5 DEF Notices!TurnAway
  <2>2. Notices!Faithful'
    BY <1>5 DEF Notices!TurnAway, Notices!Faithful, Notices!Untold, Notices!TellsOf
  <2>3. Notices!RecordsComplete'
    BY <1>5 DEF Notices!TurnAway, Notices!RecordsComplete, Notices!Notice
  <2> QED
    BY <2>1, <2>2, <2>3
<1>6. ASSUME NEW e \in Events, Notices!Summarise(e) PROVE NoticesInv'
  <2>1. Notices!TypeOK'
    BY <1>6 DEF Notices!Summarise
  <2>2. Notices!Faithful'
    BY <1>6 DEF Notices!Summarise, Notices!Faithful, Notices!Untold, Notices!TellsOf
  <2>3. Notices!RecordsComplete'
    BY <1>6 DEF Notices!Summarise, Notices!RecordsComplete, Notices!Notice
  <2> QED
    BY <2>1, <2>2, <2>3
<1>7. ASSUME NEW c \in Channels, NEW es \in SUBSET Events, Notices!Tell(c, es) PROVE NoticesInv'
  <2>1. PICK silent \in BOOLEAN : noticesNow' = noticesNow \cup {Notices!Notice(c, es, silent)}
    BY <1>7 DEF Notices!Tell
  <2>2. UNCHANGED <<fateNow, wantedNow>>
    BY <1>7 DEF Notices!Tell
  <2>3. \A e \in es : /\ fateNow[e] = "open"
                      /\ wantedNow[e] = {} \/ c \in wantedNow[e]
                      /\ \A n \in noticesNow : n.ch = c => e \notin n.events
    BY <1>7 DEF Notices!Tell, Notices!TellsOf
  <2> DEFINE new == Notices!Notice(c, es, silent)
  <2>4. new.ch = c /\ new.events = es
    BY DEF Notices!Notice
  <2>5. Notices!TypeOK'
    BY <2>1, <2>2 DEF Notices!Notice
  <2> HIDE DEF new
  <2>6. noticesNow' = noticesNow \cup {new}
    BY <2>1 DEF new
  <2>7. Notices!Faithful'
    BY <2>2, <2>3, <2>4, <2>6 DEF Notices!Faithful, Notices!TellsOf
  <2>8. Notices!RecordsComplete'
    BY <2>2, <2>6 DEF Notices!RecordsComplete, Notices!Notice
  <2> QED
    BY <2>5, <2>7, <2>8
<1> QED
  BY <1>1, <1>3, <1>4, <1>5, <1>6, <1>7 DEF Notices!Next

(* Of the abstract notices, and with AggregatorImplementsNotices of the     *)
(* aggregator: no channel is told of an event twice or of one meant for     *)
(* others, what was rejected or summarised is told to none, and what was    *)
(* suppressed is on record with each channel chosen for it and told to none *)
(* (prepareEvent, flush and enqueueMerged).                                 *)
THEOREM NoticesFaithful == Notices!Spec => [](Notices!Faithful /\ Notices!RecordsComplete)
<1>1. Notices!Init => NoticesInv
  BY DEF Notices!Init, NoticesInv, Notices!TypeOK, Notices!Faithful, Notices!RecordsComplete
<1>2. NoticesInv => Notices!Faithful /\ Notices!RecordsComplete
  BY DEF NoticesInv
<1> QED
  BY <1>1, <1>2, NoticesStep, PTL DEF Notices!Spec
=============================================================================
