----------------------------- MODULE JevBreaker -----------------------------
(***************************************************************************)
(* The upstream side of the Jev client (jev/breaker.go and executeWork and *)
(* doRequestWithRetry of jev/client.go) for one decision plane: a circuit  *)
(* breaker with generations and half-open probes, concurrency slots, a     *)
(* retry, and the back-off a 429 asks for.  The workers are the goroutines *)
(* in executeWork: callers whose requests are not shared, and the runners  *)
(* of shared ones (module JevFlights).                                     *)
(*                                                                         *)
(* A generation is only compared with the breaker's present one, so a      *)
(* permit is current until the next transition and stale from then on.     *)
(***************************************************************************)
EXTENDS Naturals, FiniteSets

CONSTANTS
    Workers,
    Threshold,    \* failures in a row that open the breaker
    HalfOpenMax,  \* probes at a time
    Slots,        \* MaxConcurrency
    Retries

ASSUME BreakerAssumption ==
    /\ IsFiniteSet(Workers)
    /\ Threshold \in Nat \ {0}
    /\ HalfOpenMax \in Nat \ {0}
    /\ Slots \in Nat \ {0}
    /\ Retries \in {0, 1}

VARIABLES
    state,     \* of the breaker
    failures,
    probes,    \* halfOpenInFlight
    cooled,    \* the cooldown since openedAt is over
    limited,   \* now is before nextAllowedAt
    at,        \* worker -> how far its request is
    permit,    \* worker -> its permit, by generation
    fresh,     \* history: workers whose request was sent since the last opening
    proven     \* history: such a request was answered well

counters == <<failures, probes, cooled>>
history == <<fresh, proven>>
breakerVars == <<state, counters, limited, at, permit, history>>

Sending == {"try", "retry"}

BreakerTypeOK ==
    /\ state \in {"closed", "open", "half_open"}
    /\ failures \in Nat
    /\ probes \in Nat
    /\ cooled \in BOOLEAN
    /\ limited \in BOOLEAN
    /\ at \in [Workers -> {"idle", "begin", "slot"} \cup Sending]
    /\ permit \in [Workers -> {"none", "current", "stale"}]
    /\ fresh \subseteq Workers
    /\ proven \in BOOLEAN

BreakerInit ==
    /\ state = "closed"
    /\ failures = 0
    /\ probes = 0
    /\ cooled = FALSE
    /\ limited = FALSE
    /\ at = [x \in Workers |-> "idle"]
    /\ permit = [x \in Workers |-> "none"]
    /\ fresh = {}
    /\ proven = TRUE

MoveTo(x, s) == at' = [at EXCEPT ![x] = s]

-----------------------------------------------------------------------------
(* The breaker.                                                            *)

(* transitionLocked: a new generation; p is what x holds afterwards.       *)
Transition(next, x, p) ==
    /\ state' = next
    /\ permit' = [y \in Workers |-> IF y = x THEN p
                                    ELSE IF permit[y] = "current" THEN "stale"
                                    ELSE permit[y]]

Keep(x, p) == permit' = [permit EXCEPT ![x] = p] /\ UNCHANGED state

(* The cooldown begins; what was sent before proves nothing any more.      *)
StartCooldown == cooled' = FALSE /\ fresh' = {} /\ proven' = FALSE

(* AcquirePermit, in the closed, open and half-open state.                 *)
AdmitClosed(x) == state = "closed" /\ Keep(x, "current") /\ UNCHANGED probes

AdmitFirstProbe(x) ==
    /\ state = "open" /\ cooled
    /\ Transition("half_open", x, "current")
    /\ probes' = 1

AdmitProbe(x) ==
    /\ state = "half_open" /\ probes < HalfOpenMax
    /\ Keep(x, "current")
    /\ probes' = probes + 1

Refused ==
    \/ state = "open" /\ ~cooled
    \/ state = "half_open" /\ probes >= HalfOpenMax

IsProbe(x) == permit[x] = "current" /\ state = "half_open"

(* Variants of FreedProbes: the generation is not looked at; the place is  *)
(* never freed.                                                            *)
FreedProbesAnyGeneration(x) ==
    IF state = "half_open" /\ probes > 0 THEN probes - 1 ELSE probes
FreedProbesNever(x) == probes

(* The place a probe of this generation gives back.                        *)
FreedProbes(x) == IF IsProbe(x) /\ probes > 0 THEN probes - 1 ELSE probes

ReleasePermit(x) ==
    /\ Keep(x, "none")
    /\ probes' = FreedProbes(x)
    /\ UNCHANGED <<failures, cooled, history>>

(* (variant) A success of any generation closes the breaker.               *)
RecordSuccessAnyGeneration(x) ==
    /\ probes' = FreedProbes(x)
    /\ IF state = "half_open" THEN Transition("closed", x, "none") ELSE Keep(x, "none")
    /\ failures' = IF state = "open" THEN failures ELSE 0
    /\ proven' = (proven \/ x \in fresh)
    /\ UNCHANGED <<cooled, fresh>>

(* RecordPermitResult(permit, true)                                        *)
RecordSuccess(x) ==
    /\ probes' = FreedProbes(x)
    /\ IF IsProbe(x) THEN Transition("closed", x, "none") ELSE Keep(x, "none")
    /\ failures' = IF permit[x] = "current" /\ state # "open" THEN 0 ELSE failures
    /\ proven' = (proven \/ x \in fresh)
    /\ UNCHANGED <<cooled, fresh>>

Counts(x) == permit[x] = "current" /\ state = "closed"

(* RecordPermitResult(permit, false)                                       *)
RecordFailure(x) ==
    /\ failures' = IF Counts(x) THEN failures + 1 ELSE failures
    /\ probes' = FreedProbes(x)
    /\ IF IsProbe(x) \/ (Counts(x) /\ failures + 1 >= Threshold)
         THEN Transition("open", x, "none") /\ StartCooldown
         ELSE Keep(x, "none") /\ UNCHANGED <<cooled, history>>

(* TripOpen while x goes on with its permit or, done, without; an open     *)
(* breaker keeps its generation and starts its cooldown again.             *)
TripOpen(x, p) ==
    /\ IF state = "open"
         THEN Keep(x, p)
         ELSE Transition("open", x, IF p = "current" THEN "stale" ELSE p)
    /\ StartCooldown
    /\ UNCHANGED <<failures, probes>>

-----------------------------------------------------------------------------
(* A request.                                                              *)

(* Judge goes upstream unless the plane is backing off.                    *)
Ask(x) ==
    /\ at[x] = "idle" /\ ~limited
    /\ MoveTo(x, "begin")
    /\ UNCHANGED <<state, counters, limited, permit, history>>

Acquire(x) ==
    /\ at[x] = "begin"
    /\ AdmitClosed(x) \/ AdmitFirstProbe(x) \/ AdmitProbe(x)
    /\ MoveTo(x, "slot")
    /\ UNCHANGED <<failures, cooled, limited, history>>

ShortCircuit(x) ==
    /\ at[x] = "begin"
    /\ Refused
    /\ MoveTo(x, "idle")
    /\ UNCHANGED <<state, counters, limited, permit, history>>

SlotFree == Cardinality({x \in Workers : at[x] \in Sending}) < Slots

(* The slot comes after the permit: the breaker may have opened since.     *)
TakeSlot(x) ==
    /\ at[x] = "slot"
    /\ SlotFree
    /\ MoveTo(x, "try")
    /\ fresh' = fresh \cup {x}
    /\ UNCHANGED <<state, counters, limited, permit, proven>>

(* The context ends the wait: cancelled, or past its deadline.  If a slot  *)
(* is free by then, select may take it all the same; the request finds the *)
(* deadline passed, which counts as a failure.                             *)
SlotTimeout(x) ==
    /\ at[x] = "slot"
    /\ \/ ReleasePermit(x)
       \/ SlotFree /\ RecordFailure(x)
    /\ MoveTo(x, "idle")
    /\ UNCHANGED limited

Succeed(x) ==
    /\ at[x] \in Sending
    /\ RecordSuccess(x)
    /\ MoveTo(x, "idle")
    /\ UNCHANGED limited

(* A server error or a broken connection, with an attempt left.            *)
TryAgain(x) ==
    /\ at[x] = "try" /\ Retries > 0
    /\ MoveTo(x, "retry")
    /\ UNCHANGED <<state, counters, limited, permit, history>>

(* ... without one, a malformed answer, or the deadline.                   *)
Fail(x) ==
    /\ at[x] \in Sending
    /\ RecordFailure(x)
    /\ MoveTo(x, "idle")
    /\ UNCHANGED limited

(* Another 4xx answer, or the context was cancelled: no failure of Jev's.  *)
Excused(x) ==
    /\ at[x] \in Sending
    /\ ReleasePermit(x)
    /\ MoveTo(x, "idle")
    /\ UNCHANGED limited

(* 429 or 529: back off, and trip the breaker if that takes long; then try *)
(* again within the budget ...                                             *)
RateLimitedRetry(x) ==
    /\ at[x] = "try" /\ Retries > 0
    /\ MoveTo(x, "retry")
    /\ limited' = TRUE
    /\ \/ UNCHANGED <<state, counters, permit, history>>
       \/ TripOpen(x, permit[x])

(* ... or give up.                                                         *)
RateLimited(x) ==
    /\ at[x] \in Sending
    /\ MoveTo(x, "idle")
    /\ limited' = TRUE
    /\ ReleasePermit(x) \/ TripOpen(x, "none")

-----------------------------------------------------------------------------
(* Time.                                                                   *)

CooldownEnds ==
    /\ state = "open" /\ ~cooled
    /\ cooled' = TRUE
    /\ UNCHANGED <<state, failures, probes, limited, at, permit, history>>

BackoffEnds ==
    /\ limited
    /\ limited' = FALSE
    /\ UNCHANGED <<state, counters, at, permit, history>>

-----------------------------------------------------------------------------
Work(x) ==
    \/ Acquire(x) \/ ShortCircuit(x) \/ TakeSlot(x) \/ SlotTimeout(x)
    \/ Succeed(x) \/ TryAgain(x) \/ Fail(x) \/ Excused(x)
    \/ RateLimitedRetry(x) \/ RateLimited(x)

BreakerNext ==
    \/ \E x \in Workers : Ask(x) \/ Work(x)
    \/ CooldownEnds \/ BackoffEnds

(* Requests end and budgets run out; nobody is obliged to ask.             *)
BreakerFairness ==
    \A x \in Workers : WF_breakerVars(Work(x))

BreakerSpec == BreakerInit /\ [][BreakerNext]_breakerVars /\ BreakerFairness

-----------------------------------------------------------------------------
(* Properties.                                                             *)

(* A half-open breaker knows its probes: late results of older             *)
(* generations, cancelled waits and trips neither free nor take a place,   *)
(* and no more than HalfOpenMax probes go out.                             *)
ProbesCounted ==
    state = "half_open" =>
        /\ probes = Cardinality({x \in Workers : permit[x] = "current"})
        /\ probes <= HalfOpenMax

(* The breaker closes only on a good answer to a request that was sent     *)
(* after it last opened (rule 3 of RecordPermitResult), whichever          *)
(* stragglers of the time before succeed meanwhile.                        *)
ClosedMeansAnswered == state = "closed" => proven

(* A half-open breaker whose places are taken gets one back or leaves that *)
(* state: no cancelled, expired or rate-limited probe shuts the plane off. *)
HalfOpenAdmits ==
    (state = "half_open" /\ probes = HalfOpenMax)
        ~> (state # "half_open" \/ probes < HalfOpenMax)

=============================================================================
