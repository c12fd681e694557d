------------------------------ MODULE Failover ------------------------------
(***************************************************************************)
(* Where the notify worker sends a row when its channel keeps failing:     *)
(* FailoverRouter.ResolveChannel (notify/failover.go) over the health that *)
(* each process counts for itself in memory (notify/doctor.go), and what   *)
(* deliver, deliverChannelItems and handleFailure make of the answer       *)
(* (notify/worker.go).                                                     *)
(*                                                                         *)
(* A claim is one holder at a time, see Outbox; a process sends the rows   *)
(* of one channel one after the other and those of different channels      *)
(* concurrently, so the health it reads may change while it sends.  The    *)
(* check of the fallback's subscription reads a key that no writer of rows *)
(* sets ("event_kind"), so it never refuses.                               *)
(*                                                                         *)
(* Bounds: health is counted up to MaxFailures, which is all ResolveChannel*)
(* tells apart; at most MaxTroubles recoveries, restarts, lost marks and   *)
(* failed reads of a channel happen.                                       *)
(***************************************************************************)
EXTENDS Integers, FiniteSets

CONSTANTS
    Workers,       \* processes with a notify worker
    Items,
    Targets,       \* enabled channels, one of each type
    Nobody,        \* no channel, no process
    RouteMap,      \* channel -> channel to fall back on, or Nobody (so is a route to itself)
    Misconfigured, \* channels whose every delivery is refused for good
    Reliable,      \* channels that never fail
    MaxFailures,   \* FailoverConfig.MaxFailures
    MaxAttempts,   \* maxAttempts
    MaxTroubles

ASSUME FailoverAssumption ==
    /\ Nobody \notin Targets \cup Workers
    /\ IsFiniteSet(Workers)
    /\ RouteMap \in [Targets -> Targets \cup {Nobody}]
    /\ \A c \in Targets : RouteMap[c] # c
    /\ Misconfigured \subseteq Targets /\ Reliable \subseteq Targets \ Misconfigured
    /\ MaxFailures \in Nat \ {0} /\ MaxAttempts \in Nat \ {0} /\ MaxTroubles \in Nat

VARIABLES
    primary,    \* row -> item.ChannelID
    state,      \* row -> pending, sending, sent or dead
    tries,      \* row -> attempt_count
    holder,     \* row -> the worker that sends it
    effective,  \* row -> the channel it is being sent to
    health,     \* worker -> channel -> consecutive failures
    up,         \* channels that accept messages at present
    recoveries, \* of channels
    losses,     \* restarts and lost marks
    unrouted,   \* attempts for which the database did not give a channel
    fellBack    \* rows refused by another channel than their own

failoverVars == <<primary, state, tries, holder, effective, health, up, recoveries, losses, unrouted, fellBack>>

FailoverTypeOK ==
    /\ primary \in [Items -> Targets]
    /\ state \in [Items -> {"pending", "sending", "sent", "dead"}]
    /\ tries \in [Items -> 0..(MaxAttempts + MaxTroubles)]
    /\ holder \in [Items -> Workers \cup {Nobody}]
    /\ effective \in [Items -> Targets \cup {Nobody}]
    /\ health \in [Workers -> [Targets -> 0..MaxFailures]]
    /\ up \subseteq Targets /\ Reliable \subseteq up
    /\ recoveries \in Nat /\ losses \in Nat /\ unrouted \in Nat
    /\ recoveries + losses + unrouted <= MaxTroubles
    /\ fellBack \subseteq Items

FailoverInit ==
    /\ primary \in [Items -> {c \in Targets : RouteMap[c] # Nobody}]
    /\ state = [i \in Items |-> "pending"]
    /\ tries = [i \in Items |-> 0]
    /\ holder = [i \in Items |-> Nobody]
    /\ effective = [i \in Items |-> Nobody]
    /\ health = [w \in Workers |-> [c \in Targets |-> 0]]
    /\ up \in {u \in SUBSET Targets : Reliable \subseteq u}
    /\ recoveries = 0 /\ losses = 0 /\ unrouted = 0
    /\ fellBack = {}

-----------------------------------------------------------------------------
FailingBeyond(w, c) == health[w][c] > MaxFailures
Failing(w, c) == health[w][c] >= MaxFailures

(* ResolveChannel: follow the route while the channel it has reached is    *)
(* failing, for at most three hops and never to a channel twice.  The last *)
(* channel of a route is taken whether it is failing or not.               *)
Hop(w, walk) ==
    LET next == RouteMap[walk.at]
    IN IF ~Failing(w, walk.at) \/ next \in walk.seen \cup {Nobody} THEN walk
       ELSE [at |-> next, seen |-> walk.seen \cup {next}]

Resolved(w, p) == Hop(w, Hop(w, Hop(w, [at |-> p, seen |-> {p}]))).at

Busy(w, p) == \E i \in Items : holder[i] = w /\ primary[i] = p

Troubled == recoveries + losses + unrouted < MaxTroubles

Claimed(w, i, to) ==
    /\ state[i] = "pending"
    /\ ~Busy(w, primary[i])
    /\ state' = [state EXCEPT ![i] = "sending"]
    /\ tries' = [tries EXCEPT ![i] = @ + 1]
    /\ holder' = [holder EXCEPT ![i] = w]
    /\ effective' = [effective EXCEPT ![i] = to]
    /\ UNCHANGED <<primary, health, up, recoveries, losses, fellBack>>

Claim(w, i) ==
    /\ Claimed(w, i, Resolved(w, primary[i]))
    /\ UNCHANGED unrouted

(* GetEnabledByType fails on the way: the row goes to its own channel,     *)
(* failing as that is, whatever the walk had found.                        *)
LookupFails(w, i) ==
    /\ Failing(w, primary[i]) /\ RouteMap[primary[i]] # Nobody
    /\ Troubled
    /\ unrouted' = unrouted + 1
    /\ Claimed(w, i, primary[i])

Counted(w, c) ==
    health' = [health EXCEPT ![w][c] = IF @ < MaxFailures THEN @ + 1 ELSE @]

(* Not even the row's own channel can be read: nothing is sent, and the    *)
(* attempt counts as a failure of that channel.                            *)
ChannelUnread(w, i) ==
    /\ state[i] = "pending"
    /\ ~Busy(w, primary[i])
    /\ Troubled
    /\ unrouted' = unrouted + 1
    /\ tries' = [tries EXCEPT ![i] = @ + 1]
    /\ Counted(w, primary[i])
    /\ state' = [state EXCEPT ![i] = IF tries'[i] >= MaxAttempts THEN "dead" ELSE "pending"]
    /\ UNCHANGED <<primary, holder, effective, up, recoveries, losses, fellBack>>

Settle(i, to) ==
    /\ state' = [state EXCEPT ![i] = to]
    /\ holder' = [holder EXCEPT ![i] = Nobody]
    /\ effective' = [effective EXCEPT ![i] = Nobody]

Loss ==
    /\ Troubled
    /\ losses' = losses + 1 /\ UNCHANGED <<recoveries, unrouted>>

(* Only the channel that took the message is healthy again.                *)
RecordSuccess(i) ==
    health' = [health EXCEPT ![holder[i]][effective[i]] = 0]

RecordFailure(i) == Counted(holder[i], effective[i])

Delivered(i) ==
    /\ state[i] = "sending"
    /\ effective[i] \in up \ Misconfigured
    /\ Settle(i, "sent")
    /\ RecordSuccess(i)
    /\ UNCHANGED <<primary, tries, up, recoveries, losses, unrouted, fellBack>>

(* The message is out but the mark is not written: no success is counted,  *)
(* the row is found again when its claim runs out, whatever its count.     *)
MarkLost(i) ==
    /\ state[i] = "sending"
    /\ effective[i] \in up \ Misconfigured
    /\ Loss
    /\ Settle(i, "pending")
    /\ UNCHANGED <<primary, tries, health, up, fellBack>>

(* handleFailure: a fault of the configuration is final, other failures    *)
(* are tried again until the attempts are used up.                         *)
Unsent(i, to) ==
    /\ state[i] = "sending"
    /\ effective[i] \notin up \ Misconfigured
    /\ RecordFailure(i)
    /\ fellBack' = IF effective[i] # primary[i] THEN fellBack \cup {i} ELSE fellBack
    /\ Settle(i, to)
    /\ UNCHANGED <<primary, tries, up>>

Refused(i) ==
    /\ Unsent(i, IF effective[i] \in Misconfigured \/ tries[i] >= MaxAttempts
                 THEN "dead" ELSE "pending")
    /\ UNCHANGED <<recoveries, losses, unrouted>>

(* The failure is counted, but what becomes of the row is not written: it  *)
(* is found again when its claim runs out, here too.                       *)
RefusalLost(i) == Unsent(i, "pending") /\ Loss

(* An outage is as short as one message: it stands for a limit, a timeout, *)
(* and an answer that does not come.                                       *)
Outage(c) ==
    /\ c \in up \ Reliable
    /\ up' = up \ {c}
    /\ UNCHANGED <<primary, state, tries, holder, effective, health, recoveries, losses, unrouted,
                   fellBack>>

Recovery(c) ==
    /\ c \notin up
    /\ Troubled
    /\ up' = up \cup {c}
    /\ recoveries' = recoveries + 1
    /\ UNCHANGED <<primary, state, tries, holder, effective, health, losses, unrouted, fellBack>>

(* A process forgets what it knew; its claims run out.                     *)
Restart(w) ==
    /\ Loss
    /\ health' = [health EXCEPT ![w] = [c \in Targets |-> 0]]
    /\ state' = [i \in Items |-> IF holder[i] = w THEN "pending" ELSE state[i]]
    /\ effective' = [i \in Items |-> IF holder[i] = w THEN Nobody ELSE effective[i]]
    /\ holder' = [i \in Items |-> IF holder[i] = w THEN Nobody ELSE holder[i]]
    /\ UNCHANGED <<primary, tries, up, fellBack>>

(* The next event for the channel.                                         *)
NewRow(i) ==
    /\ state[i] = "sent"
    /\ state' = [state EXCEPT ![i] = "pending"]
    /\ tries' = [tries EXCEPT ![i] = 0]
    /\ fellBack' = fellBack \ {i}
    /\ UNCHANGED <<primary, holder, effective, health, up, recoveries, losses, unrouted>>

Deliver(i) == Delivered(i) \/ Refused(i)

FailoverNext ==
    \/ \E w \in Workers, i \in Items : Claim(w, i) \/ LookupFails(w, i) \/ ChannelUnread(w, i)
    \/ \E i \in Items : Deliver(i) \/ MarkLost(i) \/ RefusalLost(i) \/ NewRow(i)
    \/ \E c \in Targets : Outage(c) \/ Recovery(c)
    \/ \E w \in Workers : Restart(w)

FailoverSpec == FailoverInit /\ [][FailoverNext]_failoverVars

-----------------------------------------------------------------------------
(* A row outlives the outage of its channel: unless a fallback refused it, *)
(* or its channel refuses everything, it is given up only after each       *)
(* process has counted MaxFailures of its attempts, again for each         *)
(* recovery of a channel and each restart, besides one attempt for each    *)
(* mark that was lost and each time the channel, or the one to fall back   *)
(* on, could not be read.  Below MaxAttempts / MaxFailures processes an    *)
(* outage alone loses nothing.                                             *)
DivertedInTime ==
    \A i \in Items : state[i] = "dead" /\ i \notin fellBack /\ primary[i] \notin Misconfigured =>
        MaxAttempts <= losses + unrouted
                          + MaxFailures * (losses + (recoveries + 1) * Cardinality(Workers))
=============================================================================
