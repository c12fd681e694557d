----------------------------- MODULE JevFlights -----------------------------
(***************************************************************************)
(* How callers of Judge (jev/client.go) share one request per cache key: a *)
(* flight counts its waiters and carries the context of the request, a     *)
(* call of the singleflight group executes it with the flight of whoever   *)
(* started it, and the last waiter to leave cancels it.                    *)
(*                                                                         *)
(* One key is modelled, on which callers ask again and again.  executeWork *)
(* is one step with a result or an error: module JevBreaker is about its   *)
(* inside.  Two maps and three mutexes make the order of steps matter:     *)
(* flights under flightsMu, a flight under its own, the calls under the    *)
(* group's.                                                                *)
(***************************************************************************)
EXTENDS Naturals, FiniteSets

CONSTANTS
    Callers,
    Runners,   \* goroutines of the singleflight group; bounds those at work
    Flights,   \* sharedFlightState objects; bounds those in use
    None

ASSUME FlightAssumption == None \notin Callers \cup Runners \cup Flights

VARIABLES
    pc,        \* caller -> where its Judge stands
    mine,      \* caller -> the flight it counts for
    call,      \* caller -> the call whose result it awaits
    answered,  \* callers with a result in their channel
    stage,     \* runner -> where the closure it executes stands
    of,        \* runner -> the flight its closure refers to
    life,      \* flight -> its context, "abandoned" with allGone set
    waiters,   \* flight -> its counter
    current,   \* flights[key]
    sf,        \* the call the group has under the key
    cached     \* the cache has an answer

callerVars == <<pc, mine, call, answered>>
runnerVars == <<stage, of>>
objectVars == <<life, waiters>>
flightVars == <<callerVars, runnerVars, objectVars, current, sf, cached>>

FlightTypeOK ==
    /\ pc \in [Callers -> {"idle", "asked", "joining", "joined", "waiting"}]
    /\ mine \in [Callers -> Flights \cup {None}]
    /\ call \in [Callers -> Runners \cup {None}]
    /\ answered \subseteq Callers
    /\ stage \in [Runners -> {"idle", "work", "store", "close", "deliver"}]
    /\ of \in [Runners -> Flights \cup {None}]
    /\ life \in [Flights -> {"free", "live", "expired", "abandoned"}]
    /\ waiters \in [Flights -> Nat]
    /\ current \in Flights \cup {None}
    /\ sf \in Runners \cup {None}
    /\ cached \in BOOLEAN

FlightInit ==
    /\ pc = [c \in Callers |-> "idle"]
    /\ mine = [c \in Callers |-> None]
    /\ call = [c \in Callers |-> None]
    /\ answered = {}
    /\ stage = [g \in Runners |-> "idle"]
    /\ of = [g \in Runners |-> None]
    /\ life = [f \in Flights |-> "free"]
    /\ waiters = [f \in Flights |-> 0]
    /\ current = None
    /\ sf = None
    /\ cached = FALSE

Unused == {f \in Flights : life[f] = "free"}
Idle == {g \in Runners : stage[g] = "idle"}

FlightsLocked == \E c \in Callers : pc[c] = "joining"

(* After a step that drops references: a flight nobody refers to is no more.*)
Collect(lives, counts) ==
    LET used == {current'} \cup {mine'[c] : c \in Callers} \cup {of'[g] : g \in Runners}
    IN /\ life' = [f \in Flights |-> IF f \in used THEN lives[f] ELSE "free"]
       /\ waiters' = [f \in Flights |-> IF f \in used THEN counts[f] ELSE 0]

-----------------------------------------------------------------------------
(* A caller, from the cache's miss to the answer.                          *)

(* A hit returns at once, as does a call within the back-off.              *)
Call(c) ==
    /\ pc[c] = "idle" /\ ~cached
    /\ pc' = [pc EXCEPT ![c] = "asked"]
    /\ UNCHANGED <<mine, call, answered, runnerVars, objectVars, current, sf, cached>>

(* The flight under the key has a live context: the caller will join it.   *)
(* It holds flightsMu and waits for the flight's own mutex.                *)
FindFlight(c) ==
    /\ pc[c] = "asked" /\ ~FlightsLocked
    /\ current # None /\ life[current] = "live"
    /\ pc' = [pc EXCEPT ![c] = "joining"]
    /\ mine' = [mine EXCEPT ![c] = current]
    /\ UNCHANGED <<call, answered, runnerVars, objectVars, current, sf, cached>>

JoinFlight(c) ==
    /\ pc[c] = "joining"
    /\ pc' = [pc EXCEPT ![c] = "joined"]
    /\ waiters' = [waiters EXCEPT ![mine[c]] = @ + 1]
    /\ UNCHANGED <<mine, call, answered, runnerVars, life, current, sf, cached>>

NewFlight(c) ==
    /\ pc[c] = "asked" /\ ~FlightsLocked
    /\ current # None => life[current] # "live"
    /\ Unused # {}
    /\ LET f == CHOOSE f \in Unused : TRUE IN
        /\ current' = f
        /\ mine' = [mine EXCEPT ![c] = f]
        /\ UNCHANGED of
        /\ Collect([life EXCEPT ![f] = "live"], [waiters EXCEPT ![f] = 1])
    /\ pc' = [pc EXCEPT ![c] = "joined"]
    /\ UNCHANGED <<call, answered, stage, sf, cached>>

(* DoChan: wait for the call under way, or start one with one's own flight.*)
DoChan(c) ==
    /\ pc[c] = "joined"
    /\ pc' = [pc EXCEPT ![c] = "waiting"]
    /\ \/ /\ sf # None
          /\ call' = [call EXCEPT ![c] = sf]
          /\ UNCHANGED <<runnerVars, sf>>
       \/ /\ sf = None
          /\ Idle # {}
          /\ LET g == CHOOSE g \in Idle : TRUE IN
              /\ stage' = [stage EXCEPT ![g] = "work"]
              /\ of' = [of EXCEPT ![g] = mine[c]]
              /\ sf' = g
              /\ call' = [call EXCEPT ![c] = g]
    /\ UNCHANGED <<mine, answered, objectVars, current, cached>>

Return(c) ==
    /\ pc' = [pc EXCEPT ![c] = "idle"]
    /\ mine' = [mine EXCEPT ![c] = None]
    /\ call' = [call EXCEPT ![c] = None]
    /\ answered' = answered \ {c}

OneLess(c) == [waiters EXCEPT ![mine[c]] = @ - 1]

TakeAnswer(c) ==
    /\ pc[c] = "waiting" /\ c \in answered
    /\ Return(c)
    /\ UNCHANGED <<runnerVars, current, sf, cached>>
    /\ Collect(life, OneLess(c))

(* The caller's context ends; the last one of a flight cancels its request *)
(* and has singleflight forget the key, whichever call it stands for.      *)
Leave(c) ==
    /\ pc[c] = "waiting"
    /\ Return(c)
    /\ UNCHANGED <<runnerVars, current, cached>>
    /\ IF waiters[mine[c]] <= 1
         THEN sf' = None /\ Collect([life EXCEPT ![mine[c]] = "abandoned"], OneLess(c))
         ELSE UNCHANGED sf /\ Collect(life, OneLess(c))

-----------------------------------------------------------------------------
(* The closure a runner executes.                                          *)

(* executeWork returns a result, or an error.                              *)
Execute(g) ==
    /\ stage[g] = "work"
    /\ \E s \in {"store", "close"} : stage' = [stage EXCEPT ![g] = s]
    /\ UNCHANGED <<callerVars, of, objectVars, current, sf, cached>>

(* Only for those still waiting, and not if the breaker's generation moved *)
(* since the flight was made.                                              *)
Store(g) ==
    /\ stage[g] = "store"
    /\ stage' = [stage EXCEPT ![g] = "close"]
    /\ \/ waiters[of[g]] > 0 /\ life[of[g]] # "abandoned" /\ cached' = TRUE
       \/ UNCHANGED cached
    /\ UNCHANGED <<callerVars, of, objectVars, current, sf>>

Close(g) ==
    /\ stage[g] = "close" /\ ~FlightsLocked
    /\ stage' = [stage EXCEPT ![g] = "deliver"]
    /\ current' = IF current = of[g] THEN None ELSE current
    /\ UNCHANGED <<callerVars, of, objectVars, sf, cached>>

Audience(g) == {c \in Callers : pc[c] = "waiting" /\ call[c] = g}

(* (variant) A forgotten call has nobody to answer.                        *)
DeliverUnlessForgotten(g) ==
    /\ stage[g] = "deliver"
    /\ stage' = [stage EXCEPT ![g] = "idle"]
    /\ of' = [of EXCEPT ![g] = None]
    /\ sf' = IF sf = g THEN None ELSE sf
    /\ answered' = IF sf = g THEN answered \cup Audience(g) ELSE answered
    /\ UNCHANGED <<pc, mine, call, current, cached>>
    /\ Collect(life, waiters)

(* singleflight drops the call and fills the channels of all that joined.  *)
Deliver(g) ==
    /\ stage[g] = "deliver"
    /\ stage' = [stage EXCEPT ![g] = "idle"]
    /\ of' = [of EXCEPT ![g] = None]
    /\ sf' = IF sf = g THEN None ELSE sf
    /\ answered' = answered \cup Audience(g)
    /\ UNCHANGED <<pc, mine, call, current, cached>>
    /\ Collect(life, waiters)

-----------------------------------------------------------------------------
(* Time.                                                                   *)

BudgetEnds(f) ==
    /\ life[f] = "live"
    /\ life' = [life EXCEPT ![f] = "expired"]
    /\ UNCHANGED <<callerVars, runnerVars, waiters, current, sf, cached>>

(* The entry's ten minutes are over, or it is evicted.                     *)
CacheDrops ==
    /\ cached
    /\ cached' = FALSE
    /\ UNCHANGED <<callerVars, runnerVars, objectVars, current, sf>>

-----------------------------------------------------------------------------
CallerStep(c) ==
    \/ Call(c) \/ FindFlight(c) \/ JoinFlight(c) \/ NewFlight(c) \/ DoChan(c)
    \/ TakeAnswer(c) \/ Leave(c)

RunnerStep(g) == Execute(g) \/ Store(g) \/ Close(g) \/ Deliver(g)

FlightNext ==
    \/ \E c \in Callers : CallerStep(c)
    \/ \E g \in Runners : RunnerStep(g)
    \/ \E f \in Flights : BudgetEnds(f)
    \/ CacheDrops

(* Requests end, as their contexts have deadlines; goroutines run, and a   *)
(* mutex is not withheld for ever.  Nobody is obliged to ask or to leave.  *)
FlightFairness ==
    /\ \A c \in Callers : WF_flightVars(JoinFlight(c) \/ TakeAnswer(c))
    /\ \A g \in Runners : SF_flightVars(RunnerStep(g))

FlightSpec == FlightInit /\ [][FlightNext]_flightVars /\ FlightFairness

-----------------------------------------------------------------------------
(* Properties.                                                             *)

(* Every waiter gets an answer even without a deadline of its own, also    *)
(* from a call that was forgotten or that another flight started.          *)
NobodyForgotten == \A c \in Callers : pc[c] = "waiting" ~> pc[c] = "idle"

=============================================================================
