------------------------------ MODULE JevProofs ------------------------------
(***************************************************************************)
(* Proofs about JevBreaker, for any number of workers, slots and probes    *)
(* and any threshold: the types, the count of the half-open probes, what   *)
(* closes the breaker, and that no place of a probe is left behind; and    *)
(* about JevFlights, for any number of callers and flights: the types, the *)
(* count of a flight's waiters, and that each has a call that answers it.  *)
(***************************************************************************)
EXTENDS JevBreaker, JevFlights, FiniteSetTheorems, TLAPS

Holders == {x \in Workers : permit[x] = "current"}

(* Permits are held between Acquire and the result, and an open breaker    *)
(* has given none.                                                         *)
PermitsPlaced ==
    \A x \in Workers :
        /\ at[x] \in {"idle", "begin"} => permit[x] = "none"
        /\ state = "open" => permit[x] # "current"

(* A probe that was sent was sent since the breaker opened.                *)
ProbesFresh ==
    state = "half_open" =>
        \A x \in Workers : permit[x] = "current" /\ at[x] \in Sending => x \in fresh

ProbeCount ==
    state = "half_open" => probes = Cardinality(Holders) /\ probes <= HalfOpenMax

IInv ==
    /\ BreakerTypeOK /\ PermitsPlaced /\ ProbesFresh
    /\ ProbeCount /\ ClosedMeansAnswered

-----------------------------------------------------------------------------
(* The initial state satisfies the invariant.                              *)
LEMMA Base == BreakerInit => IInv
<1> SUFFICES ASSUME BreakerInit PROVE IInv
  OBVIOUS
<1>1. BreakerTypeOK
  BY DEF BreakerInit, BreakerTypeOK
<1>2. PermitsPlaced /\ ProbesFresh /\ ProbeCount
  BY DEF BreakerInit, PermitsPlaced, ProbesFresh, ProbeCount
<1>3. ClosedMeansAnswered
  BY DEF BreakerInit, ClosedMeansAnswered
<1> QED
  BY <1>1, <1>2, <1>3 DEF IInv

(* A recorded failure or a trip keeps the types, disposes of the permit as *)
(* told, and leaves an open breaker without permits.                       *)
Settles(x, p) ==
    /\ state' \in {"closed", "open", "half_open"}
    /\ failures' \in Nat /\ probes' \in Nat
    /\ cooled' \in BOOLEAN /\ proven' \in BOOLEAN
    /\ permit' \in [Workers -> {"none", "current", "stale"}]
    /\ fresh' \subseteq Workers
    /\ p = "none" => permit'[x] = "none"
    /\ \A y \in Workers \ {x} : permit[y] = "none" => permit'[y] = "none"
    /\ state' = "open" => \A y \in Workers : permit'[y] # "current"

LEMMA ReleaseSettles ==
  ASSUME BreakerTypeOK, PermitsPlaced, NEW x \in Workers, ReleasePermit(x)
  PROVE  Settles(x, "none")
  BY DEF BreakerTypeOK, PermitsPlaced, ReleasePermit, Keep, FreedProbes, IsProbe,
         Settles, history

LEMMA FailureSettles ==
  ASSUME BreakerTypeOK, PermitsPlaced, NEW x \in Workers, RecordFailure(x)
  PROVE  Settles(x, "none")
<1> USE DEF BreakerTypeOK, PermitsPlaced, RecordFailure, FreedProbes, Settles, history
<1>1. failures' \in Nat /\ probes' \in Nat
  OBVIOUS
<1>2. CASE IsProbe(x) \/ (Counts(x) /\ failures + 1 >= Threshold)
  <2>1. Transition("open", x, "none") /\ StartCooldown
    BY <1>2
  <2> QED
    BY <1>1, <2>1 DEF Transition, StartCooldown
<1>3. CASE ~(IsProbe(x) \/ (Counts(x) /\ failures + 1 >= Threshold))
  <2>1. Keep(x, "none") /\ UNCHANGED <<cooled, history>>
    BY <1>3
  <2> QED
    BY <1>1, <2>1 DEF Keep
<1> QED
  BY <1>2, <1>3

LEMMA TripSettles ==
  ASSUME BreakerTypeOK, PermitsPlaced, NEW x \in Workers, NEW p \in {"none", permit[x]},
         TripOpen(x, p)
  PROVE  Settles(x, p) /\ state' = "open"
<1> USE DEF BreakerTypeOK, PermitsPlaced, TripOpen, StartCooldown, Settles
<1>1. CASE state = "open"
  BY <1>1 DEF Keep
<1>2. CASE state # "open"
  BY <1>2 DEF Transition
<1> QED
  BY <1>1, <1>2

(* Types, and where permits are.                                           *)
LEMMA TypeStep ==
  ASSUME BreakerTypeOK, PermitsPlaced, [BreakerNext]_breakerVars
  PROVE  (BreakerTypeOK /\ PermitsPlaced)'
<1> USE BreakerAssumption DEF BreakerTypeOK, PermitsPlaced, Sending, MoveTo,
      Transition, Keep, StartCooldown, FreedProbes, IsProbe, Counts,
      breakerVars, counters, history
<1>1. ASSUME NEW x \in Workers, Ask(x) PROVE (BreakerTypeOK /\ PermitsPlaced)'
  BY <1>1 DEF Ask
<1>2. ASSUME NEW x \in Workers, Acquire(x) PROVE (BreakerTypeOK /\ PermitsPlaced)'
  BY <1>2 DEF Acquire, AdmitClosed, AdmitFirstProbe, AdmitProbe
<1>3. ASSUME NEW x \in Workers, ShortCircuit(x)
      PROVE (BreakerTypeOK /\ PermitsPlaced)'
  BY <1>3 DEF ShortCircuit
<1>4. ASSUME NEW x \in Workers, TakeSlot(x) PROVE (BreakerTypeOK /\ PermitsPlaced)'
  BY <1>4 DEF TakeSlot
<1>5. ASSUME NEW x \in Workers, SlotTimeout(x)
      PROVE (BreakerTypeOK /\ PermitsPlaced)'
  BY <1>5, ReleaseSettles, FailureSettles DEF SlotTimeout, Settles
<1>6. ASSUME NEW x \in Workers, Succeed(x) PROVE (BreakerTypeOK /\ PermitsPlaced)'
  BY <1>6 DEF Succeed, RecordSuccess
<1>7. ASSUME NEW x \in Workers, TryAgain(x) PROVE (BreakerTypeOK /\ PermitsPlaced)'
  BY <1>7 DEF TryAgain
<1>8. ASSUME NEW x \in Workers, Fail(x) PROVE (BreakerTypeOK /\ PermitsPlaced)'
  BY <1>8, FailureSettles DEF Fail, Settles
<1>9. ASSUME NEW x \in Workers, Excused(x) PROVE (BreakerTypeOK /\ PermitsPlaced)'
  BY <1>9, ReleaseSettles DEF Excused, Settles
<1>10. ASSUME NEW x \in Workers, RateLimitedRetry(x)
       PROVE (BreakerTypeOK /\ PermitsPlaced)'
  BY <1>10, TripSettles DEF RateLimitedRetry, Settles
<1>11. ASSUME NEW x \in Workers, RateLimited(x)
       PROVE (BreakerTypeOK /\ PermitsPlaced)'
  BY <1>11, ReleaseSettles, TripSettles DEF RateLimited, Settles
<1>12. ASSUME CooldownEnds \/ BackoffEnds \/ UNCHANGED breakerVars
       PROVE (BreakerTypeOK /\ PermitsPlaced)'
  BY <1>12 DEF CooldownEnds, BackoffEnds
<1> QED
  BY <1>1, <1>2, <1>3, <1>4, <1>5, <1>6, <1>7, <1>8, <1>9, <1>10, <1>11, <1>12
  DEF BreakerNext, Work

(* What a step may do to a half-open breaker's evidence.                   *)
LEMMA FreshStep ==
  ASSUME BreakerTypeOK, PermitsPlaced, ProbesFresh, ClosedMeansAnswered,
         [BreakerNext]_breakerVars
  PROVE  (ProbesFresh /\ ClosedMeansAnswered)'
<1> USE DEF BreakerTypeOK, PermitsPlaced, ProbesFresh, ClosedMeansAnswered,
      Sending, MoveTo, Transition, Keep, StartCooldown, IsProbe, Counts,
      breakerVars, counters, history
<1>1. ASSUME NEW x \in Workers, Ask(x) PROVE (ProbesFresh /\ ClosedMeansAnswered)'
  BY <1>1 DEF Ask
<1>2. ASSUME NEW x \in Workers, Acquire(x)
      PROVE (ProbesFresh /\ ClosedMeansAnswered)'
  BY <1>2 DEF Acquire, AdmitClosed, AdmitFirstProbe, AdmitProbe
<1>3. ASSUME NEW x \in Workers, ShortCircuit(x)
      PROVE (ProbesFresh /\ ClosedMeansAnswered)'
  BY <1>3 DEF ShortCircuit
<1>4. ASSUME NEW x \in Workers, TakeSlot(x)
      PROVE (ProbesFresh /\ ClosedMeansAnswered)'
  BY <1>4 DEF TakeSlot
<1>5. ASSUME NEW x \in Workers, SlotTimeout(x)
      PROVE (ProbesFresh /\ ClosedMeansAnswered)'
  BY <1>5 DEF SlotTimeout, ReleasePermit, RecordFailure
<1>6. ASSUME NEW x \in Workers, Succeed(x)
      PROVE (ProbesFresh /\ ClosedMeansAnswered)'
  BY <1>6 DEF Succeed, RecordSuccess
<1>7. ASSUME NEW x \in Workers, TryAgain(x)
      PROVE (ProbesFresh /\ ClosedMeansAnswered)'
  BY <1>7 DEF TryAgain
<1>8. ASSUME NEW x \in Workers, Fail(x)
      PROVE (ProbesFresh /\ ClosedMeansAnswered)'
  BY <1>8 DEF Fail, RecordFailure
<1>9. ASSUME NEW x \in Workers, Excused(x)
      PROVE (ProbesFresh /\ ClosedMeansAnswered)'
  BY <1>9 DEF Excused, ReleasePermit
<1>10. ASSUME NEW x \in Workers, RateLimitedRetry(x)
       PROVE (ProbesFresh /\ ClosedMeansAnswered)'
  BY <1>10 DEF RateLimitedRetry, TripOpen
<1>11. ASSUME NEW x \in Workers, RateLimited(x)
       PROVE (ProbesFresh /\ ClosedMeansAnswered)'
  BY <1>11 DEF RateLimited, ReleasePermit, TripOpen
<1>12. ASSUME CooldownEnds \/ BackoffEnds \/ UNCHANGED breakerVars
       PROVE (ProbesFresh /\ ClosedMeansAnswered)'
  BY <1>12 DEF CooldownEnds, BackoffEnds
<1> QED
  BY <1>1, <1>2, <1>3, <1>4, <1>5, <1>6, <1>7, <1>8, <1>9, <1>10, <1>11, <1>12
  DEF BreakerNext, Work

-----------------------------------------------------------------------------
(* The count.  One more or one less holder changes it by one ...           *)
LEMMA HoldersCounted ==
  ASSUME BreakerTypeOK
  PROVE  IsFiniteSet(Holders) /\ Cardinality(Holders) \in Nat
  BY BreakerAssumption, FS_Subset, FS_CardinalityType DEF Holders

LEMMA OneMore ==
  ASSUME BreakerTypeOK, NEW x \in Workers, permit[x] # "current", Keep(x, "current")
  PROVE  Cardinality(Holders') = Cardinality(Holders) + 1
<1>1. Holders' = Holders \cup {x} /\ x \notin Holders
  BY DEF Holders, Keep, BreakerTypeOK
<1> QED
  BY <1>1, HoldersCounted, FS_AddElement

LEMMA OneFewer ==
  ASSUME BreakerTypeOK, NEW x \in Workers, Keep(x, "none")
  PROVE  Cardinality(Holders') =
           IF permit[x] = "current" THEN Cardinality(Holders) - 1 ELSE Cardinality(Holders)
<1>1. Holders' = Holders \ {x}
  BY DEF Holders, Keep, BreakerTypeOK
<1>2. x \in Holders <=> permit[x] = "current"
  BY DEF Holders
<1> QED
  BY <1>1, <1>2, HoldersCounted, FS_RemoveElement

(* ... the first probe is the only one ...                                 *)
LEMMA OnlyOne ==
  ASSUME BreakerTypeOK, NEW x \in Workers, NEW s, Transition(s, x, "current")
  PROVE  Cardinality(Holders') = 1
<1>1. Holders' = {x}
  BY DEF Holders, Transition, BreakerTypeOK
<1> QED
  BY <1>1, FS_Singleton

(* ... and a place is freed exactly by a holder.                           *)
LEMMA FreedExactly ==
  ASSUME BreakerTypeOK, ProbeCount, state = "half_open",
         NEW x \in Workers, Keep(x, "none"), probes' = FreedProbes(x)
  PROVE  ProbeCount'
<1>1. permit[x] = "current" => probes > 0
  <2>1. permit[x] = "current" => x \in Holders
    BY DEF Holders
  <2>2. Holders # {} => Cardinality(Holders) > 0
    BY HoldersCounted, FS_EmptySet
  <2> QED
    BY <2>1, <2>2 DEF ProbeCount
<1>2. probes' = IF permit[x] = "current" THEN probes - 1 ELSE probes
  BY <1>1 DEF FreedProbes, IsProbe
<1>3. probes' = Cardinality(Holders')
  BY <1>2, OneFewer DEF ProbeCount
<1>4. probes' <= HalfOpenMax
  BY <1>2, BreakerAssumption DEF ProbeCount, BreakerTypeOK
<1> QED
  BY <1>3, <1>4 DEF ProbeCount

LEMMA SameCount ==
  ASSUME ProbeCount, UNCHANGED <<state, probes, permit>>
  PROVE  ProbeCount'
  BY DEF ProbeCount, Holders

LEMMA CountStep ==
  ASSUME BreakerTypeOK, PermitsPlaced, ProbeCount, [BreakerNext]_breakerVars
  PROVE  ProbeCount'
<1>1. ASSUME NEW x \in Workers, Acquire(x) PROVE ProbeCount'
  <2>1. CASE AdmitClosed(x)
    BY <2>1 DEF AdmitClosed, Keep, ProbeCount
  <2>2. CASE AdmitFirstProbe(x)
    BY <2>2, OnlyOne, BreakerAssumption DEF AdmitFirstProbe, ProbeCount
  <2>3. CASE AdmitProbe(x)
    <3>1. permit[x] # "current"
      BY <1>1 DEF Acquire, PermitsPlaced
    <3>2. Cardinality(Holders') = Cardinality(Holders) + 1
      BY <2>3, <3>1, OneMore DEF AdmitProbe
    <3>3. probes' = probes + 1 /\ probes + 1 <= HalfOpenMax
      BY <2>3, BreakerAssumption DEF AdmitProbe, BreakerTypeOK
    <3> QED
      BY <2>3, <3>2, <3>3 DEF AdmitProbe, ProbeCount
  <2> QED
    BY <1>1, <2>1, <2>2, <2>3 DEF Acquire
<1>2. ASSUME NEW x \in Workers, ReleasePermit(x) PROVE ProbeCount'
  <2>1. CASE state = "half_open"
    BY <1>2, <2>1, FreedExactly DEF ReleasePermit
  <2>2. CASE state # "half_open"
    BY <1>2, <2>2 DEF ReleasePermit, Keep, ProbeCount
  <2> QED
    BY <2>1, <2>2
<1>3. ASSUME NEW x \in Workers, RecordSuccess(x) PROVE ProbeCount'
  <2>1. CASE IsProbe(x)
    BY <1>3, <2>1 DEF RecordSuccess, Transition, ProbeCount
  <2>2. CASE ~IsProbe(x) /\ state = "half_open"
    BY <1>3, <2>2, FreedExactly DEF RecordSuccess
  <2>3. CASE ~IsProbe(x) /\ state # "half_open"
    BY <1>3, <2>3 DEF RecordSuccess, Keep, ProbeCount
  <2> QED
    BY <2>1, <2>2, <2>3
<1>4. ASSUME NEW x \in Workers, RecordFailure(x) PROVE ProbeCount'
  <2>1. CASE Transition("open", x, "none")
    BY <2>1 DEF Transition, ProbeCount
  <2>2. CASE Keep(x, "none") /\ state = "half_open"
    BY <1>4, <2>2, FreedExactly DEF RecordFailure
  <2>3. CASE Keep(x, "none") /\ state # "half_open"
    BY <2>3 DEF Keep, ProbeCount
  <2> QED
    BY <1>4, <2>1, <2>2, <2>3 DEF RecordFailure
<1>5. ASSUME NEW x \in Workers, NEW p, TripOpen(x, p) PROVE ProbeCount'
  BY <1>5 DEF TripOpen, Transition, Keep, ProbeCount
<1>6. ASSUME NEW x \in Workers,
             Ask(x) \/ ShortCircuit(x) \/ TakeSlot(x) \/ TryAgain(x)
      PROVE ProbeCount'
  BY <1>6, SameCount DEF Ask, ShortCircuit, TakeSlot, TryAgain, counters
<1>7. ASSUME NEW x \in Workers,
             SlotTimeout(x) \/ Succeed(x) \/ Fail(x) \/ Excused(x)
      PROVE ProbeCount'
  BY <1>2, <1>3, <1>4, <1>7 DEF SlotTimeout, Succeed, Fail, Excused
<1>8. ASSUME NEW x \in Workers, RateLimitedRetry(x) \/ RateLimited(x)
      PROVE ProbeCount'
  BY <1>2, <1>5, <1>8, SameCount DEF RateLimitedRetry, RateLimited, counters
<1>9. ASSUME CooldownEnds \/ BackoffEnds \/ UNCHANGED breakerVars PROVE ProbeCount'
  BY <1>9, SameCount DEF CooldownEnds, BackoffEnds, breakerVars, counters
<1> QED
  BY <1>1, <1>6, <1>7, <1>8, <1>9 DEF BreakerNext, Work

-----------------------------------------------------------------------------
THEOREM Invariance == BreakerSpec => []IInv
<1>1. IInv /\ [BreakerNext]_breakerVars => IInv'
  BY TypeStep, FreshStep, CountStep DEF IInv
<1> QED
  BY Base, <1>1, PTL DEF BreakerSpec

(* The breaker's variables keep their types: no probe counter below zero.  *)
THEOREM BreakerTypeCorrect == BreakerSpec => []BreakerTypeOK
<1>1. IInv => BreakerTypeOK
  BY DEF IInv
<1> QED
  BY <1>1, Invariance, PTL

(* However late or often results, cancellations and trips come, a half-open*)
(* breaker counts exactly the probes under way, HalfOpenMax at most.       *)
THEOREM ProbesCountedExactly == BreakerSpec => []ProbesCounted
<1>1. IInv => ProbesCounted
  BY DEF IInv, ProbeCount, Holders, ProbesCounted
<1> QED
  BY <1>1, Invariance, PTL

(* Only a good answer to a request sent since the last opening closes it.  *)
THEOREM ClosedByAnswer == BreakerSpec => []ClosedMeansAnswered
<1>1. IInv => ClosedMeansAnswered
  BY DEF IInv
<1> QED
  BY <1>1, Invariance, PTL

(* A half-open breaker that counts a probe has it under way: no cancelled, *)
(* expired or rate-limited request leaves a place taken behind, so that the*)
(* breaker cannot shut its plane off for good (release in executeWork).     *)
NoPlaceLeaked ==
    state = "half_open" /\ probes > 0 =>
        \E x \in Workers : permit[x] = "current" /\ at[x] \in {"slot"} \cup Sending

(* What TLC checks with fairness as HalfOpenAdmits rests on NoPlaceLeaked.  *)
THEOREM PlacesComeBack == BreakerSpec => []NoPlaceLeaked
<1>1. IInv => NoPlaceLeaked
  <2> SUFFICES ASSUME IInv, state = "half_open", probes > 0
               PROVE  \E x \in Workers : permit[x] = "current" /\ at[x] \in {"slot"} \cup Sending
    BY DEF NoPlaceLeaked
  <2>1. PICK x \in Holders : TRUE
    BY FS_EmptySet DEF IInv, ProbeCount
  <2>2. x \in Workers /\ permit[x] = "current"
    BY DEF Holders
  <2>3. at[x] \notin {"idle", "begin"} /\ at[x] \in {"idle", "begin", "slot"} \cup Sending
    BY <2>2 DEF IInv, PermitsPlaced, BreakerTypeOK
  <2> QED
    BY <2>2, <2>3
<1> QED
  BY <1>1, Invariance, PTL

-----------------------------------------------------------------------------
(* Shared requests.  A flight's counter is the number of those who count   *)
(* for it: all that hold it, but for who is about to join.                 *)

Party(f) == {c \in Callers : mine[c] = f /\ pc[c] # "joining"}

Held(f) == current = f \/ (\E c \in Callers : mine[c] = f) \/ (\E g \in Runners : of[g] = f)

WaitersCounted == \A f \in Flights : IsFiniteSet(Party(f)) /\ waiters[f] = Cardinality(Party(f))

FreeUnheld == \A f \in Flights : life[f] = "free" => ~Held(f)

Boarded == \A c \in Callers : pc[c] \in {"joining", "joined", "waiting"} <=> mine[c] # None

FlightInv == FlightTypeOK /\ Boarded /\ FreeUnheld /\ WaitersCounted

Lives == {"free", "live", "expired", "abandoned"}

LEMMA FlightBase == FlightInit => FlightInv
<1> SUFFICES ASSUME FlightInit PROVE FlightInv
  OBVIOUS
<1>1. FlightTypeOK /\ Boarded
  BY DEF FlightInit, FlightTypeOK, Boarded
<1>2. FreeUnheld
  BY FlightAssumption DEF FlightInit, FreeUnheld, Held
<1>3. \A f \in Flights : Party(f) = {}
  BY FlightAssumption DEF FlightInit, Party
<1>4. WaitersCounted
  BY <1>3, FS_EmptySet DEF FlightInit, WaitersCounted
<1> QED
  BY <1>1, <1>2, <1>4 DEF FlightInv

(* Collecting flights keeps the rest right, if what is still held is.      *)
LEMMA Collected ==
  ASSUME NEW lives \in [Flights -> Lives], NEW counts \in [Flights -> Nat],
         Collect(lives, counts),
         \A f \in Flights : Held(f)' =>
            /\ lives[f] # "free"
            /\ IsFiniteSet(Party(f)') /\ counts[f] = Cardinality(Party(f)')
  PROVE  /\ life' \in [Flights -> Lives] /\ waiters' \in [Flights -> Nat]
         /\ FreeUnheld' /\ WaitersCounted'
<1> DEFINE used == {current'} \cup {mine'[c] : c \in Callers} \cup {of'[g] : g \in Runners}
<1>1. \A f \in Flights : f \in used <=> Held(f)'
  BY DEF Held
<1>2. /\ life' = [f \in Flights |-> IF f \in used THEN lives[f] ELSE "free"]
      /\ waiters' = [f \in Flights |-> IF f \in used THEN counts[f] ELSE 0]
  BY DEF Collect
<1> HIDE DEF used
<1>3. life' \in [Flights -> Lives] /\ waiters' \in [Flights -> Nat]
  BY <1>2 DEF Lives
<1>4. FreeUnheld'
  BY <1>1, <1>2 DEF FreeUnheld
<1>5. ASSUME NEW f \in Flights
      PROVE  IsFiniteSet(Party(f)') /\ waiters'[f] = Cardinality(Party(f)')
  <2>1. CASE f \in used
    BY <1>1, <1>2, <2>1
  <2>2. CASE f \notin used
    <3>1. Party(f)' = {}
      BY <1>1, <2>2 DEF Party, Held
    <3> QED
      BY <1>2, <2>2, <3>1, FS_EmptySet
  <2> QED
    BY <2>1, <2>2
<1> QED
  BY <1>3, <1>4, <1>5 DEF WaitersCounted

(* What leaves the parties alone.                                          *)
LEMMA PartiesKept ==
  ASSUME WaitersCounted, waiters' = waiters,
         \A f \in Flights : Party(f)' = Party(f)
  PROVE  WaitersCounted'
  BY DEF WaitersCounted

LEMMA SameParties ==
  ASSUME pc' = pc, mine' = mine
  PROVE  \A f \in Flights : Party(f)' = Party(f)
  BY DEF Party

LEMMA CallStep ==
  ASSUME FlightInv, NEW c \in Callers, Call(c)
  PROVE  FlightInv'
<1> USE DEF FlightInv
<1>1. FlightTypeOK' /\ Boarded' /\ FreeUnheld'
  BY FlightAssumption
  DEF Call, FlightTypeOK, Boarded, FreeUnheld, Held, runnerVars, objectVars
<1>2. \A f \in Flights : Party(f)' = Party(f)
  BY FlightAssumption DEF Call, FlightTypeOK, Boarded, Party
<1> QED
  BY <1>1, <1>2, PartiesKept DEF Call, objectVars

LEMMA FindStep ==
  ASSUME FlightInv, NEW c \in Callers, FindFlight(c)
  PROVE  FlightInv'
<1> USE DEF FlightInv
<1>1. mine[c] = None /\ current \in Flights
  BY DEF FindFlight, FlightTypeOK, Boarded
<1>2. FlightTypeOK' /\ Boarded'
  BY <1>1, FlightAssumption
  DEF FindFlight, FlightTypeOK, Boarded, runnerVars, objectVars
<1>3. FreeUnheld'
  BY <1>1, FlightAssumption
  DEF FindFlight, FlightTypeOK, FreeUnheld, Held, runnerVars, objectVars
<1>4. \A f \in Flights : Party(f)' = Party(f)
  BY <1>1, FlightAssumption DEF FindFlight, FlightTypeOK, Party
<1> QED
  BY <1>2, <1>3, <1>4, PartiesKept DEF FindFlight, objectVars

LEMMA JoinStep ==
  ASSUME FlightInv, NEW c \in Callers, JoinFlight(c)
  PROVE  FlightInv'
<1> USE DEF FlightInv
<1>1. mine[c] \in Flights
  BY DEF JoinFlight, FlightTypeOK, Boarded
<1>2. FlightTypeOK' /\ Boarded' /\ FreeUnheld'
  BY <1>1, FlightAssumption
  DEF JoinFlight, FlightTypeOK, Boarded, FreeUnheld, Held, runnerVars
<1>3. ASSUME NEW f \in Flights
      PROVE  IsFiniteSet(Party(f)') /\ waiters'[f] = Cardinality(Party(f)')
  <2>1. c \notin Party(f)
    BY DEF JoinFlight, Party
  <2>2. CASE f = mine[c]
    <3>1. Party(f)' = Party(f) \cup {c}
      BY <2>2 DEF JoinFlight, FlightTypeOK, Party
    <3>2. IsFiniteSet(Party(f)) /\ waiters[f] = Cardinality(Party(f))
      BY DEF WaitersCounted
    <3>3. waiters'[f] = waiters[f] + 1
      BY <1>1, <2>2 DEF JoinFlight, FlightTypeOK
    <3> QED
      BY <2>1, <3>1, <3>2, <3>3, FS_AddElement
  <2>3. CASE f # mine[c]
    BY <1>1, <2>3 DEF JoinFlight, FlightTypeOK, Party, WaitersCounted
  <2> QED
    BY <2>2, <2>3
<1> QED
  BY <1>2, <1>3 DEF WaitersCounted

LEMMA NewStep ==
  ASSUME FlightInv, NEW c \in Callers, NewFlight(c)
  PROVE  FlightInv'
<1> USE DEF FlightInv
<1>1. mine[c] = None
  BY DEF NewFlight, Boarded
<1>2. PICK f \in Unused :
          /\ current' = f /\ mine' = [mine EXCEPT ![c] = f] /\ of' = of
          /\ Collect([life EXCEPT ![f] = "live"], [waiters EXCEPT ![f] = 1])
  BY DEF NewFlight
<1>3. f \in Flights /\ ~Held(f)
  BY <1>2 DEF Unused, FreeUnheld
<1> DEFINE lives == [life EXCEPT ![f] = "live"]
           counts == [waiters EXCEPT ![f] = 1]
<1>4. lives \in [Flights -> Lives] /\ counts \in [Flights -> Nat]
  BY DEF FlightTypeOK, Lives
<1>5. ASSUME NEW h \in Flights, Held(h)'
      PROVE  /\ lives[h] # "free"
             /\ IsFiniteSet(Party(h)') /\ counts[h] = Cardinality(Party(h)')
  <2>1. CASE h = f
    <3>1. Party(f)' = {c}
      BY <1>2, <1>3 DEF NewFlight, FlightTypeOK, Party, Held
    <3> QED
      BY <1>3, <2>1, <3>1, FS_Singleton DEF FlightTypeOK
  <2>2. CASE h # f
    <3>1. Held(h)
      BY <1>2, <1>5, <2>2 DEF FlightTypeOK, Held
    <3>2. Party(h)' = Party(h)
      BY <1>1, <1>2, <2>2, FlightAssumption DEF NewFlight, FlightTypeOK, Party
    <3> QED
      BY <1>3, <2>2, <3>1, <3>2 DEF FlightTypeOK, FreeUnheld, WaitersCounted
  <2> QED
    BY <2>1, <2>2
<1>6. /\ life' \in [Flights -> Lives] /\ waiters' \in [Flights -> Nat]
      /\ FreeUnheld' /\ WaitersCounted'
  <2> HIDE DEF lives, counts
  <2>1. Collect(lives, counts)
    BY <1>2 DEF lives, counts
  <2> QED
    BY <1>4, <1>5, <2>1, Collected
<1>7. /\ pc' = [pc EXCEPT ![c] = "joined"]
      /\ call' = call /\ answered' = answered /\ stage' = stage /\ sf' = sf
      /\ cached' = cached
  BY DEF NewFlight
<1>8. FlightTypeOK' /\ Boarded'
  BY <1>2, <1>3, <1>6, <1>7, FlightAssumption DEF FlightTypeOK, Boarded, Lives
<1> QED
  BY <1>6, <1>8

LEMMA DoChanStep ==
  ASSUME FlightInv, NEW c \in Callers, DoChan(c)
  PROVE  FlightInv'
<1> USE DEF FlightInv
<1>1. mine[c] \in Flights
  BY DEF DoChan, FlightTypeOK, Boarded
<1>2. FlightTypeOK' /\ Boarded' /\ FreeUnheld'
  <2>0. \/ sf # None /\ call' = [call EXCEPT ![c] = sf] /\ UNCHANGED <<runnerVars, sf>>
        \/ \E g \in Idle :
              /\ stage' = [stage EXCEPT ![g] = "work"] /\ of' = [of EXCEPT ![g] = mine[c]]
              /\ sf' = g /\ call' = [call EXCEPT ![c] = g]
    BY DEF DoChan
  <2>1. CASE sf # None /\ call' = [call EXCEPT ![c] = sf] /\ UNCHANGED <<runnerVars, sf>>
    BY <2>1, FlightAssumption
    DEF DoChan, FlightTypeOK, Boarded, FreeUnheld, Held, runnerVars, objectVars
  <2>2. ASSUME NEW g \in Idle,
               stage' = [stage EXCEPT ![g] = "work"], of' = [of EXCEPT ![g] = mine[c]],
               sf' = g, call' = [call EXCEPT ![c] = g]
        PROVE  FlightTypeOK' /\ Boarded' /\ FreeUnheld'
    <3>1. g \in Runners
      BY DEF Idle
    <3>2. FlightTypeOK' /\ Boarded'
      BY <1>1, <2>2, <3>1, FlightAssumption DEF DoChan, FlightTypeOK, Boarded, objectVars
    <3>3. FreeUnheld'
      BY <1>1, <2>2, <3>1 DEF DoChan, FlightTypeOK, FreeUnheld, Held, objectVars
    <3> QED
      BY <3>2, <3>3
  <2> QED
    BY <2>0, <2>1, <2>2
<1>3. \A f \in Flights : Party(f)' = Party(f)
  BY DEF DoChan, FlightTypeOK, Party
<1> QED
  BY <1>2, <1>3, PartiesKept DEF DoChan, objectVars

(* A caller that returns takes itself out of its party.                    *)
LEMMA Returned ==
  ASSUME FlightInv, NEW c \in Callers, pc[c] = "waiting", Return(c), of' = of,
         current' = current,
         NEW lives \in [Flights -> Lives],
         \A f \in Flights : lives[f] = "free" => life[f] = "free",
         Collect(lives, OneLess(c))
  PROVE  /\ life' \in [Flights -> Lives] /\ waiters' \in [Flights -> Nat]
         /\ FreeUnheld' /\ WaitersCounted'
<1> USE DEF FlightInv
<1>1. mine[c] \in Flights /\ c \in Party(mine[c])
  BY DEF FlightTypeOK, Boarded, Party
<1>2. IsFiniteSet(Party(mine[c])) /\ waiters[mine[c]] = Cardinality(Party(mine[c]))
  BY <1>1 DEF WaitersCounted
<1>3. /\ IsFiniteSet(Party(mine[c]) \ {c})
      /\ Cardinality(Party(mine[c]) \ {c}) = waiters[mine[c]] - 1
      /\ waiters[mine[c]] - 1 \in Nat
  <2>1. IsFiniteSet(Party(mine[c]) \ {c})
    BY <1>2, FS_RemoveElement
  <2>2. Cardinality(Party(mine[c]) \ {c}) = Cardinality(Party(mine[c])) - 1
    BY <1>1, <1>2, FS_RemoveElement
  <2> QED
    BY <1>2, <2>1, <2>2, FS_CardinalityType
<1>4. OneLess(c) \in [Flights -> Nat]
  BY <1>1, <1>3 DEF FlightTypeOK, OneLess
<1>5. ASSUME NEW f \in Flights, Held(f)'
      PROVE  /\ lives[f] # "free"
             /\ IsFiniteSet(Party(f)') /\ OneLess(c)[f] = Cardinality(Party(f)')
  <2>1. Held(f)
    BY <1>5, FlightAssumption DEF Return, FlightTypeOK, Held
  <2>2. CASE f = mine[c]
    <3>1. Party(f)' = Party(f) \ {c}
      BY <2>2, FlightAssumption DEF Return, FlightTypeOK, Party
    <3>2. OneLess(c)[f] = waiters[f] - 1
      BY <2>2 DEF FlightTypeOK, OneLess
    <3> QED
      BY <1>3, <2>1, <2>2, <3>1, <3>2 DEF FreeUnheld
  <2>3. CASE f # mine[c]
    <3>1. Party(f)' = Party(f)
      BY <2>3, FlightAssumption DEF Return, FlightTypeOK, Party
    <3>2. OneLess(c)[f] = waiters[f]
      BY <2>3 DEF FlightTypeOK, OneLess
    <3> QED
      BY <2>1, <3>1, <3>2 DEF FreeUnheld, WaitersCounted
  <2> QED
    BY <2>2, <2>3
<1> QED
  BY <1>4, <1>5, Collected

LEMMA TakeStep ==
  ASSUME FlightInv, NEW c \in Callers, TakeAnswer(c)
  PROVE  FlightInv'
<1> USE DEF FlightInv
<1>1. life \in [Flights -> Lives]
  BY DEF FlightTypeOK, Lives
<1>2. /\ life' \in [Flights -> Lives] /\ waiters' \in [Flights -> Nat]
      /\ FreeUnheld' /\ WaitersCounted'
  BY <1>1, Returned DEF TakeAnswer, runnerVars
<1>3. FlightTypeOK' /\ Boarded'
  BY <1>2, FlightAssumption
  DEF TakeAnswer, Return, FlightTypeOK, Boarded, Lives, runnerVars
<1> QED
  BY <1>2, <1>3

LEMMA LeaveStep ==
  ASSUME FlightInv, NEW c \in Callers, Leave(c)
  PROVE  FlightInv'
<1> USE DEF FlightInv
<1> DEFINE ended == [life EXCEPT ![mine[c]] = "abandoned"]
<1>1. /\ life \in [Flights -> Lives] /\ ended \in [Flights -> Lives]
      /\ \A f \in Flights : ended[f] = "free" => life[f] = "free"
  BY DEF FlightTypeOK, Lives
<1>2. /\ life' \in [Flights -> Lives] /\ waiters' \in [Flights -> Nat]
      /\ FreeUnheld' /\ WaitersCounted'
  <2>1. Collect(ended, OneLess(c)) \/ Collect(life, OneLess(c))
    BY DEF Leave
  <2>2. pc[c] = "waiting" /\ Return(c) /\ of' = of /\ current' = current
    BY DEF Leave, runnerVars
  <2> HIDE DEF ended
  <2> QED
    BY <1>1, <2>1, <2>2, Returned
<1>3. FlightTypeOK' /\ Boarded'
  BY <1>2, FlightAssumption
  DEF Leave, Return, FlightTypeOK, Boarded, Lives, runnerVars
<1> QED
  BY <1>2, <1>3

LEMMA RunnerKeeps ==
  ASSUME FlightInv, NEW g \in Runners, Execute(g) \/ Store(g) \/ Close(g)
  PROVE  FlightInv'
<1> USE DEF FlightInv
<1>1. /\ pc' = pc /\ mine' = mine /\ call' = call /\ answered' = answered
      /\ of' = of /\ life' = life /\ waiters' = waiters /\ sf' = sf
      /\ current' \in {current, None} /\ cached' \in {cached, TRUE}
  BY DEF Execute, Store, Close, callerVars, objectVars
<1>2. stage' \in [Runners -> {"idle", "work", "store", "close", "deliver"}]
  BY DEF Execute, Store, Close, FlightTypeOK
<1>3. FlightTypeOK' /\ Boarded'
  BY <1>1, <1>2 DEF FlightTypeOK, Boarded
<1>4. FreeUnheld'
  BY <1>1, FlightAssumption DEF FreeUnheld, Held
<1> QED
  BY <1>1, <1>3, <1>4, SameParties, PartiesKept

LEMMA DeliverStep ==
  ASSUME FlightInv, NEW g \in Runners, Deliver(g)
  PROVE  FlightInv'
<1> USE DEF FlightInv
<1>1. /\ pc' = pc /\ mine' = mine /\ current' = current
      /\ of' = [of EXCEPT ![g] = None]
      /\ Collect(life, waiters)
  BY DEF Deliver
<1>2. life \in [Flights -> Lives] /\ waiters \in [Flights -> Nat]
  BY DEF FlightTypeOK, Lives
<1>3. ASSUME NEW f \in Flights, Held(f)'
      PROVE  /\ life[f] # "free"
             /\ IsFiniteSet(Party(f)') /\ waiters[f] = Cardinality(Party(f)')
  <2>1. Held(f)
    BY <1>1, <1>3, FlightAssumption DEF FlightTypeOK, Held
  <2>2. Party(f)' = Party(f)
    BY <1>1, SameParties
  <2> QED
    BY <2>1, <2>2 DEF FreeUnheld, WaitersCounted
<1>4. /\ life' \in [Flights -> Lives] /\ waiters' \in [Flights -> Nat]
      /\ FreeUnheld' /\ WaitersCounted'
  BY <1>1, <1>2, <1>3, Collected
<1>5. FlightTypeOK' /\ Boarded'
  BY <1>1, <1>4 DEF Deliver, Audience, FlightTypeOK, Boarded, Lives
<1> QED
  BY <1>4, <1>5

LEMMA FlightStep == FlightInv /\ [FlightNext]_flightVars => FlightInv'
<1> SUFFICES ASSUME FlightInv, [FlightNext]_flightVars PROVE FlightInv'
  OBVIOUS
<1>1. ASSUME NEW c \in Callers, CallerStep(c) PROVE FlightInv'
  BY <1>1, CallStep, FindStep, JoinStep, NewStep, DoChanStep, TakeStep, LeaveStep
  DEF CallerStep
<1>2. ASSUME NEW g \in Runners, RunnerStep(g) PROVE FlightInv'
  BY <1>2, RunnerKeeps, DeliverStep DEF RunnerStep
<1>3. ASSUME NEW f \in Flights, BudgetEnds(f) PROVE FlightInv'
  <2>1. FlightTypeOK' /\ Boarded' /\ FreeUnheld'
    BY <1>3 DEF BudgetEnds, FlightInv, FlightTypeOK, Boarded, FreeUnheld, Held,
       callerVars, runnerVars
  <2> QED
    BY <1>3, <2>1, SameParties, PartiesKept DEF BudgetEnds, FlightInv, callerVars
<1>4. CASE CacheDrops \/ UNCHANGED flightVars
  <2>1. /\ UNCHANGED <<callerVars, runnerVars, objectVars, current, sf>>
        /\ cached' \in {cached, FALSE}
    BY <1>4 DEF CacheDrops, flightVars
  <2>2. FlightTypeOK' /\ Boarded' /\ FreeUnheld'
    BY <2>1 DEF FlightInv, FlightTypeOK, Boarded, FreeUnheld, Held,
       callerVars, runnerVars, objectVars
  <2> QED
    BY <2>1, <2>2, SameParties, PartiesKept DEF FlightInv, callerVars, objectVars
<1> QED
  BY <1>1, <1>2, <1>3, <1>4 DEF FlightNext

THEOREM FlightInductive == FlightSpec => []FlightInv
  BY FlightBase, FlightStep, PTL DEF FlightSpec

(* Every variable of the shared requests keeps its type: a flight's counter*)
(* never falls below zero, whoever finds, joins, leaves or is answered     *)
(* (Judge in jev/client.go, under flightsMu and the flight's own mutex).    *)
THEOREM FlightTypeCorrect == FlightSpec => []FlightTypeOK
<1>1. FlightInv => FlightTypeOK
  BY DEF FlightInv
<1> QED
  BY <1>1, FlightInductive, PTL

(* A flight's counter is exactly the number of its callers but for one     *)
(* that holds the lock to join it: the last one to leave is known as such. *)
THEOREM WaitersCountedAlways == FlightSpec => []WaitersCounted
<1>1. FlightInv => WaitersCounted
  BY DEF FlightInv
<1> QED
  BY <1>1, FlightInductive, PTL

(* Whoever waits has its answer, or a call at work that will give it one;  *)
(* and a call at work has the flight it was started for: nobody is left    *)
(* behind by a Forget, by a newer call or by the last waiter of another    *)
(* flight (Judge and the closure it gives to DoChan).                       *)
WaitersAttended ==
    /\ \A c \in Callers : pc[c] = "waiting" =>
        c \in answered \/ (call[c] \in Runners /\ stage[call[c]] # "idle")
    /\ \A g \in Runners : stage[g] # "idle" => of[g] \in Flights /\ life[of[g]] # "free"

(* Inductive with the call under the key being at work.                    *)
Attended ==
    /\ sf # None => stage[sf] # "idle"
    /\ \A c \in Callers : pc[c] = "waiting" =>
        c \in answered \/ (call[c] \in Runners /\ stage[call[c]] # "idle")
    /\ \A g \in Runners : stage[g] # "idle" => of[g] \in Flights

LEMMA AttendedStep == FlightInv /\ Attended /\ [FlightNext]_flightVars => Attended'
<1> SUFFICES ASSUME FlightInv, Attended, [FlightNext]_flightVars PROVE Attended'
  OBVIOUS
<1> USE FlightAssumption DEF FlightInv, FlightTypeOK, Attended
<1>1. ASSUME NEW c \in Callers, Call(c) \/ FindFlight(c) \/ JoinFlight(c) \/ NewFlight(c)
      PROVE  Attended'
  BY <1>1 DEF Call, FindFlight, JoinFlight, NewFlight, runnerVars
<1>2. ASSUME NEW c \in Callers, DoChan(c) PROVE Attended'
  <2>1. CASE sf # None
    BY <1>2, <2>1 DEF DoChan, runnerVars
  <2>2. CASE sf = None
    <3>1. PICK g \in Idle : /\ stage' = [stage EXCEPT ![g] = "work"]
                            /\ of' = [of EXCEPT ![g] = mine[c]]
                            /\ sf' = g /\ call' = [call EXCEPT ![c] = g]
      BY <1>2, <2>2 DEF DoChan
    <3>2. mine[c] \in Flights
      BY <1>2 DEF DoChan, Boarded
    <3> QED
      BY <1>2, <3>1, <3>2 DEF DoChan, Idle
  <2> QED
    BY <2>1, <2>2
<1>3. ASSUME NEW c \in Callers, TakeAnswer(c) \/ Leave(c) PROVE Attended'
  BY <1>3 DEF TakeAnswer, Leave, Return, runnerVars
<1>4. ASSUME NEW g \in Runners, Execute(g) \/ Store(g) \/ Close(g) PROVE Attended'
  BY <1>4 DEF Execute, Store, Close, callerVars
<1>5. ASSUME NEW g \in Runners, Deliver(g) PROVE Attended'
  BY <1>5 DEF Deliver, Audience
<1>6. CASE CacheDrops \/ UNCHANGED flightVars \/ \E f \in Flights : BudgetEnds(f)
  BY <1>6 DEF CacheDrops, BudgetEnds, flightVars, callerVars, runnerVars
<1> QED
  BY <1>1, <1>2, <1>3, <1>4, <1>5, <1>6 DEF FlightNext, CallerStep, RunnerStep

(* What TLC checks with fairness as NobodyForgotten rests on this: however *)
(* flights and calls pass each other, a waiter has a call that answers it. *)
THEOREM EverybodyAttended == FlightSpec => []WaitersAttended
<1>1. FlightInit => Attended
  BY DEF FlightInit, Attended
<1>2. FlightInv /\ Attended => WaitersAttended
  <2>1. ASSUME FlightInv, NEW g \in Runners, of[g] \in Flights PROVE life[of[g]] # "free"
    BY <2>1 DEF FlightInv, FreeUnheld, Held
  <2> QED
    BY <2>1 DEF Attended, WaitersAttended
<1> QED
  BY <1>1, <1>2, AttendedStep, FlightInductive, PTL DEF FlightSpec
=============================================================================
