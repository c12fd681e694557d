----------------------------- MODULE LeaseRunner -----------------------------
(***************************************************************************)
(* The lease under which a scheduled task (reconcile, external poll,       *)
(* starred poll, digest) runs on one replica at a time: the row of         *)
(* system_leases with Acquire, Renew and Release of store/domain_stores.go *)
(* and syncx.LeaseRunner.RunWithLease with its heartbeat goroutine, called *)
(* by the loops of syncx.Scheduler.                                        *)
(*                                                                         *)
(* One task name is modelled; rows of different names do not meet.  Time   *)
(* is counted down, in ticks: what is left of the lease by the database's  *)
(* clock, and what is left until a heartbeat must have reached the         *)
(* database.  Clocks may differ but run at one rate.                       *)
(***************************************************************************)
EXTENDS Naturals

CONSTANTS
    Replicas,
    TTL,        \* ticks a lease lasts
    Heartbeat,  \* ticks between two heartbeats, TTL/3 in RunWithLease
    Delay,      \* how late a heartbeat may reach the database, see Tick
    MaxToken,   \* bound on fencing tokens
    MaxBoots,   \* bound on process starts
    MaxStops,   \* bound on graceful shutdowns
    MaxLeaseFaults  \* bound on crashes and failing calls

ASSUME ConstantAssumption ==
    /\ TTL \in Nat \ {0}
    /\ Heartbeat \in Nat \ {0}
    /\ Delay \in Nat
    /\ MaxToken \in Nat
    /\ MaxBoots \in Nat
    /\ MaxStops \in Nat
    /\ MaxLeaseFaults \in Nat

(* Heartbeats are timely when even the latest one precedes the expiry.     *)
Timely == Heartbeat + Delay < TTL

VARIABLES
    row,       \* the row: holder_id, fencing_token, time left; holder 0 for no row
    run,       \* replica -> its call of RunWithLease
    stray,     \* replica -> tokens of renewals in flight after fn returned
    id,        \* replica -> WorkerID, fresh for every process
    boots,     \* processes started so far
    stopping,  \* replicas whose context is cancelled
    stops,     \* shutdowns so far
    granted,   \* history: the holders and tokens Acquire wrote
    lates,     \* times a heartbeat was later than Delay
    leaseFaults

leaseVars == <<row, run, stray, id, boots, stopping, stops, granted, lates, leaseFaults>>

Phases == {"down", "idle", "body", "returned"}
Runs == [phase : Phases, token : Nat, cancelled : BOOLEAN,
         beat : {"ticking", "sending", "stopped"}, slack : 0 .. Heartbeat + Delay]
Resting(phase) == [phase |-> phase, token |-> 0, cancelled |-> FALSE,
                   beat |-> "stopped", slack |-> 0]

LeaseTypeOK ==
    /\ row \in [holder : Nat, token : Nat, left : 0 .. TTL]
    /\ run \in [Replicas -> Runs]
    /\ stray \in [Replicas -> SUBSET Nat]
    /\ id \in [Replicas -> Nat]
    /\ boots \in Nat
    /\ stopping \subseteq Replicas
    /\ stops \in Nat
    /\ granted \subseteq [holder : Nat, token : Nat]
    /\ lates \in Nat
    /\ leaseFaults \in Nat

LeaseInit ==
    /\ row = [holder |-> 0, token |-> 0, left |-> 0]
    /\ run = [r \in Replicas |-> Resting("down")]
    /\ stray = [r \in Replicas |-> {}]
    /\ id = [r \in Replicas |-> 0]
    /\ boots = 0
    /\ stopping = {}
    /\ stops = 0
    /\ granted = {}
    /\ lates = 0
    /\ leaseFaults = 0

LeaseFault == leaseFaults < MaxLeaseFaults /\ leaseFaults' = leaseFaults + 1
(* Calls made with a cancelled context fail for free.                      *)
CallFails(r) == (r \in stopping /\ UNCHANGED leaseFaults) \/ LeaseFault

-----------------------------------------------------------------------------
(* The store.  The definitions named as variants (an expiry ignored, a     *)
(* token kept) are slips the properties below must notice.                 *)

TakeableAlways(h) == TRUE                       \* variant: expiry ignored
TakeableByHolder(h) == row.holder \in {0, h}    \* variant: expiry never helps
Takeable(h) == row.left = 0 \/ row.holder = h

(* A live lease taken again by its holder keeps its token.                 *)
Taken(h) ==
    [holder |-> h,
     token |-> IF row.holder = h /\ row.left > 0 THEN row.token ELSE row.token + 1,
     left |-> TTL]

RenewableAfterExpiry(h, t) ==                   \* variant: expiry ignored
    row.holder = h /\ row.token = t
Renewable(h, t) == row.holder = h /\ row.token = t /\ row.left > 0
RenewedShort == [row EXCEPT !.left = 1]         \* variant: lifetime mistaken
Renewed == [row EXCEPT !.left = TTL]

(* Release does not look at the expiry.                                    *)
Released(h, t) ==
    IF row.holder = h /\ row.token = t THEN [row EXCEPT !.left = 0] ELSE row

Acquire(r) ==
    /\ Takeable(id[r])
    /\ Taken(id[r]).token <= MaxToken
    /\ row' = Taken(id[r])
    /\ granted' = granted \cup {[holder |-> id[r], token |-> row'.token]}

-----------------------------------------------------------------------------
(* RunWithLease.  A lease held by another is skipped, and so is the task   *)
(* when Acquire fails: neither changes any state.                          *)

Start(r) ==
    /\ run[r].phase = "idle"
    /\ r \notin stopping
    /\ Acquire(r)
    /\ run' = [run EXCEPT ![r] =
                 [phase |-> "body", token |-> row'.token, cancelled |-> FALSE,
                  beat |-> "ticking", slack |-> Heartbeat + Delay]]
    /\ UNCHANGED <<stray, id, boots, stopping, stops, lates, leaseFaults>>

(* The statement took effect but its answer was lost: the task is skipped. *)
AcquireAnswerLost(r) ==
    /\ run[r].phase = "idle"
    /\ Acquire(r)
    /\ CallFails(r)
    /\ UNCHANGED <<run, stray, id, boots, stopping, stops, lates>>

HeartbeatDue(r) ==
    /\ run[r].phase = "body"
    /\ run[r].beat = "ticking"
    /\ run[r].slack <= Delay
    /\ run' = [run EXCEPT ![r].beat = "sending"]
    /\ UNCHANGED <<row, stray, id, boots, stopping, stops, granted, lates, leaseFaults>>

Sending(r) == run[r].phase = "body" /\ run[r].beat = "sending"

Renew(r) ==
    /\ Sending(r)
    /\ r \notin stopping
    /\ Renewable(id[r], run[r].token)
    /\ row' = Renewed
    /\ run' = [run EXCEPT ![r].beat = "ticking", ![r].slack = @ + Heartbeat]
    /\ UNCHANGED <<stray, id, boots, stopping, stops, granted, lates, leaseFaults>>

(* The heartbeat gives up: it cancels the task's context and returns.      *)
Interrupt(r) ==
    run' = [run EXCEPT ![r].beat = "stopped", ![r].cancelled = TRUE]

RenewRefused(r) ==
    /\ Sending(r)
    /\ ~Renewable(id[r], run[r].token)
    /\ Interrupt(r)
    /\ UNCHANGED <<row, stray, id, boots, stopping, stops, granted, lates, leaseFaults>>

RenewFails(r) ==
    /\ Sending(r)
    /\ CallFails(r)
    /\ \/ row' = row
       \/ Renewable(id[r], run[r].token) /\ row' = Renewed
    /\ Interrupt(r)
    /\ UNCHANGED <<stray, id, boots, stopping, stops, granted, lates>>

(* fn returns and taskDone is closed; a renewal already sent is not        *)
(* recalled.                                                               *)
Return(r) ==
    /\ run[r].phase = "body"
    /\ run' = [run EXCEPT ![r].phase = "returned", ![r].beat = "stopped"]
    /\ stray' = [stray EXCEPT ![r] =
                   IF Sending(r) THEN @ \cup {run[r].token} ELSE @]
    /\ UNCHANGED <<row, id, boots, stopping, stops, granted, lates, leaseFaults>>

StrayRenew(r) ==
    \E t \in stray[r] :
        /\ stray' = [stray EXCEPT ![r] = @ \ {t}]
        /\ \/ Renewable(id[r], t) /\ row' = Renewed
           \/ (~Renewable(id[r], t) \/ r \in stopping) /\ row' = row
        /\ UNCHANGED <<run, id, boots, stopping, stops, granted, lates, leaseFaults>>

Release(r) ==
    /\ run[r].phase = "returned"
    /\ r \notin stopping
    /\ row' = Released(id[r], run[r].token)
    /\ run' = [run EXCEPT ![r] = Resting("idle")]
    /\ UNCHANGED <<stray, id, boots, stopping, stops, granted, lates, leaseFaults>>

(* The result of Release is ignored.                                       *)
ReleaseFails(r) ==
    /\ run[r].phase = "returned"
    /\ CallFails(r)
    /\ row' \in {row, Released(id[r], run[r].token)}
    /\ run' = [run EXCEPT ![r] = Resting("idle")]
    /\ UNCHANGED <<stray, id, boots, stopping, stops, granted, lates>>

-----------------------------------------------------------------------------
(* Processes and time.                                                     *)

Boot(r) ==
    /\ run[r].phase = "down"
    /\ boots < MaxBoots
    /\ boots' = boots + 1
    /\ id' = [id EXCEPT ![r] = boots']
    /\ run' = [run EXCEPT ![r] = Resting("idle")]
    /\ UNCHANGED <<row, stray, stopping, stops, granted, lates, leaseFaults>>

(* The workers' context is cancelled, and with it the running task's.      *)
Shutdown(r) ==
    /\ run[r].phase # "down"
    /\ r \notin stopping
    /\ stops < MaxStops
    /\ stops' = stops + 1
    /\ stopping' = stopping \cup {r}
    /\ run' = [run EXCEPT ![r].cancelled = @ \/ run[r].phase = "body"]
    /\ UNCHANGED <<row, stray, id, boots, granted, lates, leaseFaults>>

Ends(r) ==
    /\ run' = [run EXCEPT ![r] = Resting("down")]
    /\ stray' = [stray EXCEPT ![r] = {}]
    /\ stopping' = stopping \ {r}
    /\ UNCHANGED <<row, id, boots, stops, granted, lates>>

Exit(r) == r \in stopping /\ run[r].phase = "idle" /\ Ends(r) /\ UNCHANGED leaseFaults

ReplicaCrash(r) == run[r].phase # "down" /\ LeaseFault /\ Ends(r)

(* Time passes; a heartbeat is late by more than Delay only by a fault.    *)
(* Delay bounds all that comes on top of the ticker's period: the answer   *)
(* to Acquire, the goroutine's scheduling and the update's own latency.    *)
Beating(r) == run[r].phase = "body" /\ run[r].beat # "stopped"

Down1(n) == IF n = 0 THEN 0 ELSE n - 1

Elapse ==
    /\ row' = [row EXCEPT !.left = Down1(@)]
    /\ run' = [r \in Replicas |-> [run[r] EXCEPT !.slack = Down1(@)]]
    /\ UNCHANGED <<stray, id, boots, stopping, stops, granted>>

Tick ==
    /\ \A r \in Replicas : Beating(r) => run[r].slack > 0
    /\ Elapse
    /\ UNCHANGED <<lates, leaseFaults>>

LateTick ==
    /\ \E r \in Replicas : Beating(r) /\ run[r].slack = 0
    /\ Elapse
    /\ lates' = lates + 1
    /\ LeaseFault

-----------------------------------------------------------------------------
HeartbeatStep(r) ==
    HeartbeatDue(r) \/ Renew(r) \/ RenewRefused(r) \/ RenewFails(r)
EndStep(r) == Release(r) \/ ReleaseFails(r) \/ Exit(r)

ReplicaStep(r) ==
    \/ Start(r) \/ AcquireAnswerLost(r)
    \/ HeartbeatStep(r) \/ Return(r) \/ StrayRenew(r) \/ EndStep(r)
    \/ Boot(r) \/ Shutdown(r) \/ ReplicaCrash(r)

LeaseNext == Tick \/ LateTick \/ \E r \in Replicas : ReplicaStep(r)

LeaseSpec == LeaseInit /\ [][LeaseNext]_leaseVars

(* The database's clock runs; the scheduler's tickers keep coming; the     *)
(* heartbeat goroutine runs; a task ends, at the latest after its 30       *)
(* minutes' timeout (scheduledTaskTimeout); what follows it is straight    *)
(* code.                                                                   *)
LeaseFairness ==
    /\ WF_leaseVars(Tick)
    /\ \A r \in Replicas :
        /\ WF_leaseVars(Start(r)) /\ WF_leaseVars(HeartbeatStep(r))
        /\ WF_leaseVars(Return(r)) /\ WF_leaseVars(EndStep(r))

LeaseLiveSpec == LeaseSpec /\ LeaseFairness

-----------------------------------------------------------------------------
(* Properties.                                                             *)

(* A task that may still write: the store refuses a cancelled context.     *)
Writer(r) == run[r].phase = "body" /\ ~run[r].cancelled

(* The point of RunWithLease: two replicas never run the task with a live  *)
(* context.  It rests on timely heartbeats: a task that lost its lease     *)
(* runs on until the heartbeat next asks, and no write carries the token.  *)
OneReplicaRuns ==
    lates = 0 => \A r, s \in Replicas : Writer(r) /\ Writer(s) => r = s

(* A fencing token belongs to one process, and what a task holds is never  *)
(* newer than the row: Acquire counts up whenever the lease changes hands. *)
TokensFence ==
    /\ \A g, h \in granted : g.token = h.token => g.holder = h.holder
    /\ \A r \in Replicas : run[r].token <= row.token

(* The heartbeat does not interrupt a task for nothing: with timely        *)
(* heartbeats its renewal is refused only after a fault or in a shutdown.  *)
InterruptedOnlyByFault ==
    \A r \in Replicas : run[r].cancelled => leaseFaults > 0 \/ r \in stopping

(* An idle replica leaves no live lease behind, whatever heartbeat of its  *)
(* last run is still in flight, unless a call failed or it was shut down.  *)
LeaseEndsWithRun ==
    \A r \in Replicas :
        run[r].phase = "idle" /\ row.holder = id[r] /\ row.left > 0
            => leaseFaults > 0 \/ r \in stopping

(* Step 4 of RunWithLease's comment: when fn has returned, the lease is    *)
(* released.  Once the call of Release has returned, the row no longer     *)
(* holds the token of that run, unless the database failed; a graceful     *)
(* shutdown while fn ran is no reason to keep it.                          *)
ReleasedWhenDone ==
    [][ \A r \in Replicas :
          run[r].phase = "returned" /\ run'[r].phase = "idle" /\ leaseFaults' = leaseFaults =>
              ~ (row'.holder = id[r] /\ row'.token = run[r].token /\ row'.left > 0) ]_leaseVars

(* A live lease does not change hands, and only its holder ends it early   *)
(* (Acquire, Renew and Release are guarded in their WHERE).                *)
LiveLeaseYields ==
    [][ row.left > 0 =>
          /\ row'.holder = row.holder
          /\ row'.left < row.left - 1 =>
                \E r \in Replicas : id[r] = row.holder /\ run[r].phase = "returned" ]_leaseVars

(* Nobody waits forever for a holder that is gone: while a scheduler is at *)
(* work, the task runs again.                                              *)
TaskRunsAgain ==
    (\E r \in Replicas : run[r].phase = "idle" /\ r \notin stopping)
        ~> \/ \E r \in Replicas : run[r].phase = "body"
           \/ row.token = MaxToken
           \/ \A r \in Replicas : run[r].phase = "down" \/ r \in stopping

-----------------------------------------------------------------------------
(* The scheduler's task implements the lease of TaskLease.tla: its workers *)
(* are the processes, an expired row has no holder.                        *)
holderNow == IF row.left > 0 THEN row.holder ELSE 0
runningNow == {id[r] : r \in {q \in Replicas : Writer(q)}}

Lease == INSTANCE TaskLease
           WITH Workers <- 1 .. MaxBoots, None <- 0,
                holder <- holderNow, running <- runningNow, late <- lates

(* With timely heartbeats every step of RunWithLease, its heartbeat and    *)
(* the processes around it is a step of the lease or invisible to it.      *)
ImplementsLease == Lease!Spec
=============================================================================
