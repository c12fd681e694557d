------------------------------- MODULE Outbox -------------------------------
(***************************************************************************)
(* The notification outbox: the table notification_outbox with the         *)
(* operations of store/domain_stores.go on it, and the notify workers of   *)
(* notify/worker.go that claim rows under a lease, call the external       *)
(* channel and write the outcome back under the claim's token.             *)
(*                                                                         *)
(* Time is abstracted to the three comparisons the code makes with it: a   *)
(* row is due or backing off, its lock is free, held or expired, and the   *)
(* lease of a claim has lapsed or not.  Either may change whenever no      *)
(* guard of the code forbids it.                                           *)
(***************************************************************************)
EXTENDS Naturals, FiniteSets

CONSTANTS
    Rows,         \* ids of outbox rows; an id is used once
    Workers,      \* notify workers, one per replica of the service
    Channels,     \* notification channels
    ChannelOf,    \* the channel a row is addressed to
    ReleaseRows,  \* rows announcing a release of the repository being unstarred
    MaxAttempts,  \* maxAttempts of worker.go
    BatchSize,    \* claimBatchSize of worker.go
    Tokens,       \* claim tokens, see NewToken
    NoToken,      \* a null claim_token
    MaxFaults     \* bound on crashes, lost marks and answers, failed claims,
                  \* early lapses

ASSUME ChannelAssumption == ChannelOf \in [Rows -> Channels]
ASSUME ReleaseAssumption == ReleaseRows \subseteq Rows
ASSUME BoundAssumption ==
    /\ MaxAttempts \in Nat \ {0}
    /\ BatchSize \in Nat \ {0}
    /\ MaxFaults \in Nat
ASSUME TokenAssumption == NoToken \notin Tokens

VARIABLES
    status,      \* row -> status column; "absent" before, "deleted" after its life
    attempts,    \* row -> attempt_count
    lock,        \* row -> locked_until: "free" (null), "held" or "expired"
    next,        \* row -> next_attempt_at: "due" (<= now) or "later"
    claimToken,  \* row -> claim_token
    lastError,   \* row -> last_error_code
    phase,       \* worker -> what its current tick is doing
    inflight,    \* the items the workers hold in memory
    selected,    \* ids read by the retention job and not deleted yet
    acked,       \* row -> number of sends the external channel accepted
    faults,      \* number of crashes, lost marks, failed claims, early lapses
    unanswered   \* number of sends accepted whose answer did not arrive

rowVars == <<status, attempts, lock, next, claimToken, lastError>>
workerVars == <<phase, inflight>>
historyVars == <<acked, faults, unanswered>>
vars == <<rowVars, workerVars, selected, historyVars>>

Queued == {"pending", "sending"}
Terminal == {"sent", "dead", "cancelled", "suppressed"}
Statuses == Queued \cup Terminal \cup {"absent", "deleted"}

(* What a failed send tells handleFailure: a configuration error that no   *)
(* retry can mend, an answer with Retry-After, or anything else.           *)
Failures == {"permanent", "limited", "transient"}
Errors == Failures \cup {"none", "unstarred"}
Stages == {"claimed", "accepted"} \cup Failures

(* An item as a worker holds it: the row, the token and attempt of its     *)
(* claim, how far its delivery got, and whether its lease ran out since.   *)
Claims == [worker : Workers, row : Rows, token : Tokens, attempt : Nat,
           stage : Stages, lease : {"live", "lapsed"}]

Batch(w) == {c \in inflight : c.worker = w}

TypeOK ==
    /\ status \in [Rows -> Statuses]
    /\ attempts \in [Rows -> Nat]
    /\ lock \in [Rows -> {"free", "held", "expired"}]
    /\ next \in [Rows -> {"due", "later"}]
    /\ claimToken \in [Rows -> Tokens \cup {NoToken}]
    /\ lastError \in [Rows -> Errors]
    /\ phase \in [Workers -> {"claiming", "delivering"}]
    /\ inflight \subseteq Claims
    /\ selected \subseteq Rows
    /\ acked \in [Rows -> Nat]
    /\ faults \in 0 .. MaxFaults
    /\ unanswered \in 0 .. MaxFaults - faults

Init ==
    /\ status = [r \in Rows |-> "absent"]
    /\ attempts = [r \in Rows |-> 0]
    /\ lock = [r \in Rows |-> "free"]
    /\ next = [r \in Rows |-> "later"]
    /\ claimToken = [r \in Rows |-> NoToken]
    /\ lastError = [r \in Rows |-> "none"]
    /\ phase = [w \in Workers |-> "claiming"]
    /\ inflight = {}
    /\ selected = {}
    /\ acked = [r \in Rows |-> 0]
    /\ faults = 0
    /\ unanswered = 0

(* What goes wrong is charged to one budget so that it cannot recur        *)
(* forever.                                                                *)
Charged == faults + unanswered
Fault == Charged < MaxFaults /\ faults' = faults + 1 /\ UNCHANGED unanswered

-----------------------------------------------------------------------------
(* The store.                                                              *)

(* Create inserts a row that is due now or, in quiet hours, later; a mute  *)
(* keeps it as a record only.                                              *)
Create(r) ==
    /\ status[r] = "absent"
    /\ \E s \in {"pending", "suppressed"} : status' = [status EXCEPT ![r] = s]
    /\ \E n \in {"due", "later"} : next' = [next EXCEPT ![r] = n]
    /\ UNCHANGED <<attempts, lock, claimToken, lastError, workerVars, selected,
                   historyVars>>

(* (variant) A claim that takes only pending rows strands crashed ones.    *)
ClaimablePendingOnly(r) == status[r] = "pending" /\ next[r] = "due"

(* (variant) A claim that does not look at the lock shares a live lease.   *)
ClaimableIgnoringLock(r) == status[r] \in Queued /\ next[r] = "due"

Claimable(r) ==
    /\ status[r] \in Queued
    /\ next[r] = "due"
    /\ lock[r] \in {"free", "expired"}

(* newID: a token that never recurs.  Tokens are compared for equality     *)
(* only, so one that no row and no item refers to any longer is as good.   *)
FreshTokens ==
    Tokens \ ({claimToken[r] : r \in Rows} \cup {c.token : c \in inflight})
NewToken == CHOOSE t \in FreshTokens : TRUE

(* The statement of ClaimOne: status, token, lock and attempt in one write.*)
ClaimRow(r) ==
    /\ Claimable(r)
    /\ FreshTokens # {}
    /\ status' = [status EXCEPT ![r] = "sending"]
    /\ claimToken' = [claimToken EXCEPT ![r] = NewToken]
    /\ lock' = [lock EXCEPT ![r] = "held"]
    /\ attempts' = [attempts EXCEPT ![r] = @ + 1]
    /\ UNCHANGED <<next, lastError>>

(* (variant) A mark by id alone overwrites whatever the row has become.    *)
MarkGuardByIdOnly(c) == status[c.row] \in Statuses

(* The WHERE clause of the three ...WithToken marks.                       *)
MarkGuard(c) ==
    /\ status[c.row] \in Queued
    /\ claimToken[c.row] = c.token

SetSent(r) ==
    /\ status' = [status EXCEPT ![r] = "sent"]
    /\ lock' = [lock EXCEPT ![r] = "free"]
    /\ UNCHANGED <<attempts, next, claimToken, lastError>>

SetFailed(r, code) ==
    /\ status' = [status EXCEPT ![r] = "pending"]
    /\ next' = [next EXCEPT ![r] = "later"]
    /\ lastError' = [lastError EXCEPT ![r] = code]
    /\ lock' = [lock EXCEPT ![r] = "free"]
    /\ claimToken' = [claimToken EXCEPT ![r] = NoToken]
    /\ UNCHANGED attempts

SetDead(r, code) ==
    /\ status' = [status EXCEPT ![r] = "dead"]
    /\ lastError' = [lastError EXCEPT ![r] = code]
    /\ lock' = [lock EXCEPT ![r] = "free"]
    /\ UNCHANGED <<attempts, next, claimToken>>

(* The unstar of a repository cancels the release rows still pending.      *)
CancelPendingByRepository ==
    LET hit == {r \in ReleaseRows : status[r] = "pending"} IN
    /\ hit # {}
    /\ status' = [r \in Rows |-> IF r \in hit THEN "cancelled" ELSE status[r]]
    /\ lastError' = [r \in Rows |-> IF r \in hit THEN "unstarred" ELSE lastError[r]]
    /\ lock' = [r \in Rows |-> IF r \in hit THEN "free" ELSE lock[r]]
    /\ UNCHANGED <<attempts, next, claimToken, workerVars, selected, historyVars>>

(* What RetryDead and RetryAllDead write to the rows they select; the claim*)
(* token of the last claim stays in place.                                 *)
Requeue(hit) ==
    /\ hit # {}
    /\ status' = [r \in Rows |-> IF r \in hit THEN "pending" ELSE status[r]]
    /\ next' = [r \in Rows |-> IF r \in hit THEN "due" ELSE next[r]]
    /\ lastError' = [r \in Rows |-> IF r \in hit THEN "none" ELSE lastError[r]]
    /\ lock' = [r \in Rows |-> IF r \in hit THEN "free" ELSE lock[r]]
    /\ attempts' = [r \in Rows |-> IF r \in hit THEN 0 ELSE attempts[r]]
    /\ UNCHANGED <<claimToken, workerVars, selected, historyVars>>

(* (variant) The retry does not look at the status.                        *)
RetryDeadAnyStatus(r) == status[r] \in Queued \cup Terminal /\ Requeue({r})

RetryDead(r) == Requeue({r} \cap {s \in Rows : status[s] = "dead"})

(* An empty set of channels means every channel.                           *)
RetryAllDead(chans) ==
    Requeue({r \in Rows : /\ status[r] = "dead"
                          /\ chans = {} \/ ChannelOf[r] \in chans})

(* DeleteTerminalOlderThan, first statement: read the ids of a batch of    *)
(* terminal rows; which of them are old enough is left open.               *)
SelectTerminal ==
    /\ selected = {}
    /\ \E old \in SUBSET {r \in Rows : status[r] \in Terminal} :
          /\ old # {}
          /\ selected' = old
    /\ UNCHANGED <<rowVars, workerVars, historyVars>>

(* ... second statement: delete the rows with those ids.                   *)
DeleteSelected ==
    /\ selected # {}
    /\ status' = [r \in Rows |-> IF r \in selected THEN "deleted" ELSE status[r]]
    /\ attempts' = [r \in Rows |-> IF r \in selected THEN 0 ELSE attempts[r]]
    /\ lock' = [r \in Rows |-> IF r \in selected THEN "free" ELSE lock[r]]
    /\ next' = [r \in Rows |-> IF r \in selected THEN "later" ELSE next[r]]
    /\ claimToken' = [r \in Rows |-> IF r \in selected THEN NoToken ELSE claimToken[r]]
    /\ lastError' = [r \in Rows |-> IF r \in selected THEN "none" ELSE lastError[r]]
    /\ selected' = {}
    /\ UNCHANGED <<workerVars, historyVars>>

(* The job stops between the two, by an error or a shutdown.               *)
DeleteFails ==
    /\ selected # {}
    /\ selected' = {}
    /\ UNCHANGED <<rowVars, workerVars, historyVars>>

-----------------------------------------------------------------------------
(* The worker: a tick claims up to BatchSize rows, then delivers them.     *)

ClaimOne(w, r) ==
    /\ phase[w] = "claiming"
    /\ Cardinality(Batch(w)) < BatchSize
    /\ ClaimRow(r)
    /\ inflight' = inflight \cup
          {[worker |-> w, row |-> r, token |-> NewToken,
            attempt |-> attempts[r] + 1, stage |-> "claimed", lease |-> "live"]}
    /\ UNCHANGED <<phase, selected, historyVars>>

(* ClaimOne returns an error: the tick ends and forgets what it claimed so *)
(* far.  The error may come after the claim was committed.                 *)
ClaimFails(w) ==
    /\ phase[w] = "claiming"
    /\ Cardinality(Batch(w)) < BatchSize
    /\ Fault
    /\ inflight' = inflight \ Batch(w)
    /\ \/ Batch(w) # {} /\ UNCHANGED rowVars
       \/ \E r \in Rows : ClaimRow(r)
    /\ UNCHANGED <<phase, selected, acked>>

StartDelivery(w) ==
    /\ phase[w] = "claiming"
    /\ Batch(w) # {}
    /\ Cardinality(Batch(w)) = BatchSize \/ \A r \in Rows : ~Claimable(r)
    /\ phase' = [phase EXCEPT ![w] = "delivering"]
    /\ UNCHANGED <<rowVars, inflight, selected, historyVars>>

(* Items of one channel are delivered one after the other: the outcome of  *)
(* one is written before the next is sent.                                 *)
Turn(c) ==
    \A d \in Batch(c.worker) :
        ChannelOf[d.row] = ChannelOf[c.row] => d.stage = "claimed"

(* The external call, with what the worker makes of it and whether the     *)
(* channel took the message.  It does not look at the row or at the lease  *)
(* again.                                                                  *)
Deliver(c, outcome, taken) ==
    /\ phase[c.worker] = "delivering"
    /\ c.stage = "claimed"
    /\ Turn(c)
    /\ inflight' = (inflight \ {c}) \cup {[c EXCEPT !.stage = outcome]}
    /\ acked' = IF taken THEN [acked EXCEPT ![c.row] = @ + 1] ELSE acked
    /\ UNCHANGED <<rowVars, phase, selected, faults>>

(* The channel's answer arrives, or the call fails without reaching it.    *)
Send(c) ==
    /\ \E outcome \in {"accepted"} \cup Failures :
          Deliver(c, outcome, outcome = "accepted")
    /\ UNCHANGED unanswered

(* The channel takes the message and the client times out or loses the     *)
(* connection before the answer: to the worker a failure like any other,   *)
(* which it sends again.                                                   *)
AnswerLost(c) ==
    /\ Charged < MaxFaults
    /\ Deliver(c, "transient", TRUE)
    /\ unanswered' = unanswered + 1

(* (variant) The cap is forgotten.                                         *)
GivesUpNever(c) == c.stage = "permanent"

(* handleFailure: a permanent error or the last attempt kills the row,     *)
(* anything else backs off.                                                *)
GivesUp(c) == c.stage = "permanent" \/ c.attempt >= MaxAttempts

WriteOutcome(c) ==
    \/ c.stage = "accepted" /\ SetSent(c.row)
    \/ c.stage \in Failures /\ GivesUp(c) /\ SetDead(c.row, c.stage)
    \/ c.stage \in Failures /\ ~GivesUp(c) /\ SetFailed(c.row, c.stage)

(* The outcome is written back if the claim still owns the row; otherwise  *)
(* the mark is stale and only the item is dropped.                         *)
Mark(c) ==
    /\ c.stage # "claimed"
    /\ \/ MarkGuard(c) /\ WriteOutcome(c)
       \/ ~MarkGuard(c) /\ UNCHANGED rowVars
    /\ inflight' = inflight \ {c}
    /\ UNCHANGED <<phase, selected, historyVars>>

(* The database refuses the mark: the worker logs it and moves on.         *)
MarkFails(c) ==
    /\ c.stage # "claimed"
    /\ Fault
    /\ inflight' = inflight \ {c}
    /\ UNCHANGED <<rowVars, phase, selected, acked>>

EndTick(w) ==
    /\ phase[w] = "delivering"
    /\ Batch(w) = {}
    /\ phase' = [phase EXCEPT ![w] = "claiming"]
    /\ UNCHANGED <<rowVars, inflight, selected, historyVars>>

(* A crash, or a shutdown that cancels the worker's context: the items in  *)
(* memory are lost, their rows stay as they are.                           *)
Crash(w) ==
    /\ Batch(w) # {}
    /\ Fault
    /\ inflight' = inflight \ Batch(w)
    /\ phase' = [phase EXCEPT ![w] = "claiming"]
    /\ UNCHANGED <<rowVars, selected, acked>>

-----------------------------------------------------------------------------
(* Time.                                                                   *)

HeldByWorker(r) == \E c \in inflight : c.token = claimToken[r]

(* The lease of a claim nobody works on any more runs out.                 *)
LeaseRunsOut(r) ==
    /\ lock[r] = "held"
    /\ ~HeldByWorker(r)
    /\ lock' = [lock EXCEPT ![r] = "expired"]
    /\ UNCHANGED <<status, attempts, next, claimToken, lastError, workerVars,
                   selected, historyVars>>

(* The worker is too slow: its lease runs out under it.                    *)
LeaseRunsOutEarly(r) ==
    /\ lock[r] = "held"
    /\ HeldByWorker(r)
    /\ Fault
    /\ lock' = [lock EXCEPT ![r] = "expired"]
    /\ inflight' = {IF c.token = claimToken[r] THEN [c EXCEPT !.lease = "lapsed"]
                                               ELSE c : c \in inflight}
    /\ UNCHANGED <<status, attempts, next, claimToken, lastError, phase,
                   selected, acked>>

BackoffElapses(r) ==
    /\ status[r] \in Queued
    /\ next[r] = "later"
    /\ next' = [next EXCEPT ![r] = "due"]
    /\ UNCHANGED <<status, attempts, lock, claimToken, lastError, workerVars,
                   selected, historyVars>>

-----------------------------------------------------------------------------
WorkerStep(w) ==
    \/ \E r \in Rows : ClaimOne(w, r)
    \/ StartDelivery(w)
    \/ \E c \in Batch(w) : Send(c) \/ Mark(c)
    \/ EndTick(w)

FaultStep ==
    \/ \E w \in Workers : ClaimFails(w) \/ Crash(w)
    \/ \E c \in inflight : MarkFails(c) \/ AnswerLost(c)
    \/ \E r \in Rows : LeaseRunsOutEarly(r)

StoreStep ==
    \/ \E r \in Rows : Create(r) \/ RetryDead(r)
    \/ \E chans \in SUBSET Channels : RetryAllDead(chans)
    \/ CancelPendingByRepository
    \/ SelectTerminal
    \/ DeleteSelected
    \/ DeleteFails

TimeStep == \E r \in Rows : LeaseRunsOut(r) \/ BackoffElapses(r)

Next ==
    \/ \E w \in Workers : WorkerStep(w)
    \/ FaultStep
    \/ StoreStep
    \/ TimeStep

(* The ticker keeps every worker ticking and time passes; nothing else is  *)
(* owed.                                                                   *)
Fairness ==
    /\ \A w \in Workers : WF_vars(WorkerStep(w))
    /\ \A r \in Rows : WF_vars(LeaseRunsOut(r)) /\ WF_vars(BackoffElapses(r))

Spec == Init /\ [][Next]_vars /\ Fairness
-----------------------------------------------------------------------------
(* Properties.                                                             *)

(* A claim whose lease has not run out still owns its row: no late mark of *)
(* an earlier claim, no operator's retry and no unstar takes the row away  *)
(* or changes its attempt while the worker is sending (the hazard named in *)
(* the comments on outboxTerminalGuard and RetryDead).  Only the retention *)
(* job is excepted: it deletes by id what was terminal a moment ago.       *)
HolderUndisturbed ==
    \A c \in inflight :
        c.lease = "live" /\ status[c.row] # "deleted" =>
            /\ status[c.row] = "sending"
            /\ claimToken[c.row] = c.token
            /\ attempts[c.row] = c.attempt

(* A row is recorded as sent only after the channel accepted a send of it, *)
(* whichever claims were lost, repeated or overtaken on the way.           *)
SentMeansAccepted == \A r \in Rows : status[r] = "sent" => acked[r] > 0

(* A notification is given up only for a permanent error or after          *)
(* MaxAttempts claims (handleFailure), never by a stale or early mark.     *)
DeadMeansExhausted ==
    \A r \in Rows :
        status[r] = "dead" =>
            lastError[r] = "permanent" \/ attempts[r] >= MaxAttempts

(* At-least-once delivery duplicates only under faults: every acceptance   *)
(* of a row beyond the first is paid for by a crash, a failed claim or     *)
(* mark, a lease that ran out under its worker, or an answer the worker    *)
(* never got (the error of Client.Do, which handleFailure retries).        *)
DuplicatesNeedFaults == \A r \in Rows : acked[r] <= 1 + Charged

(* Retries are bounded: a row is claimed beyond MaxAttempts only as often  *)
(* as faults kept its outcome from being written.                          *)
TriesBounded == \A r \in Rows : attempts[r] <= MaxAttempts + faults

(* Every queued notification is eventually sent, given up, cancelled or    *)
(* deleted: a crashed worker's rows come back when the lease runs out.     *)
EventuallySettled ==
    \A r \in Rows : status[r] \in Queued ~> status[r] \notin Queued

-----------------------------------------------------------------------------
(* The inductive invariant behind the safety properties.                   *)

(* A token names one item and at most one row.                             *)
TokensUnique ==
    /\ \A c, d \in inflight : c.token = d.token => c = d
    /\ \A c \in inflight, r \in Rows : claimToken[r] = c.token => r = c.row

(* The item whose token the row carries is the row's current delivery.     *)
CurrentClaim ==
    \A c \in inflight :
        claimToken[c.row] = c.token =>
            /\ status[c.row] = "sending"
            /\ attempts[c.row] = c.attempt
            /\ lock[c.row] # "free"
            /\ lock[c.row] = "expired" => c.lease = "lapsed"

AcceptedCounted == \A c \in inflight : c.stage = "accepted" => acked[c.row] > 0

(* A row being delivered may be on its last try; one that waits for a      *)
(* claim has a try left, or a fault took one.                              *)
TriesLeft ==
    \A r \in Rows :
        status[r] \in Queued /\ ~(lock[r] = "held" /\ HeldByWorker(r)) =>
            attempts[r] < MaxAttempts + faults

NewRowsUntried == \A r \in Rows : status[r] = "absent" => attempts[r] = 0

IInv ==
    /\ TypeOK
    /\ NewRowsUntried
    /\ TokensUnique
    /\ CurrentClaim
    /\ HolderUndisturbed
    /\ AcceptedCounted
    /\ SentMeansAccepted
    /\ DeadMeansExhausted
    /\ TriesLeft
    /\ TriesBounded

-----------------------------------------------------------------------------
(* The outbox implements the notification queue of NotificationQueue.tla.  *)
phaseBar == [r \in Rows |-> IF status[r] \in Queued THEN "queued" ELSE status[r]]
acceptedBar == {r \in Rows : acked[r] > 0}

Queue == INSTANCE NotificationQueue
            WITH phase <- phaseBar, accepted <- acceptedBar, doomed <- selected

(* Every step of the outbox, of any worker holding any claim however old,  *)
(* is a step the queue allows or invisible to it.                          *)
ImplementsQueue == Queue!Spec
=============================================================================
