--------------------------- MODULE WebhookDelivery ---------------------------
(***************************************************************************)
(* Inbound GitHub webhooks: the table webhook_deliveries with the          *)
(* operations of store/domain_stores.go on it, the handlers and the orphan *)
(* recovery worker of httpapi that claim rows, and the pipeline of         *)
(* webhooksvc and normalizer that every claim runs once it has a slot:     *)
(* update the work item, record the event, hand it to the evaluator, mark  *)
(* the delivery.                                                           *)
(*                                                                         *)
(* All deliveries here concern one monitored work item, a delivery's body  *)
(* being the version (updated_at) of the item it reports; bodies of one    *)
(* version are equal, so their state hash and fingerprint are.  Time is    *)
(* abstracted to the comparisons the code makes: the age of a row and      *)
(* whether its lease has run out.                                          *)
(***************************************************************************)
EXTENDS Naturals, FiniteSets

CONSTANTS
    Deliveries,      \* rows of deliveries sent by GitHub, one per delivery id
    Replays,         \* rows an operator's replay creates
    Replicas,        \* processes of the service
    Versions,        \* versions of the work item a delivery may report
    VersionOf,       \* the version each GitHub delivery reports
    InitialVersions, \* what the work item's row may hold at first, 0 for no row
    Slots,           \* webhookProcessConcurrency of server.go
    MaxAttempts,     \* MaxAttempts of defaultOrphanRecoveryConfig
    MaxFaults        \* bound on crashes, shutdowns and failing calls

Rows == Deliveries \cup Replays

ASSUME RowAssumption == Deliveries \cap Replays = {}
ASSUME VersionAssumption ==
    /\ Versions \subseteq Nat \ {0}
    /\ VersionOf \in [Deliveries -> Versions]
    /\ InitialVersions \subseteq Nat
ASSUME BoundAssumption ==
    /\ Slots \in Nat \ {0}
    /\ MaxAttempts \in Nat \ {0}
    /\ MaxFaults \in Nat

VARIABLES
    status,      \* row -> status column; "absent" before, "deleted" after its life
    claimToken,  \* row -> claim_token, see NewToken; 0 if empty
    lease,       \* row -> claimed_until: "none" (null), "held" or "expired"
    attempts,    \* row -> attempt_count
    age,         \* row -> "fresh", "aged" (AcceptedAge) or "old" (MaxRetentionAge)
    body,        \* row -> version reported by its payload, 0 before the row exists
    dehydrated,  \* rows whose payload was cleared
    tasks,       \* handlers and goroutines at work on a row, in memory
    stopping,    \* replicas shutting down: their background context is cancelled
    stored,      \* version in the work item's row, 0 if there is none
    events,      \* versions an event row exists for (by fingerprint)
    handed,      \* version -> times its event was handed to the evaluator
    faults       \* number of faults so far

claimVars == <<status, claimToken, lease, attempts>>
rowVars == <<claimVars, age, body, dehydrated>>
itemVars == <<stored, events, handed>>
vars == <<rowVars, tasks, stopping, itemVars, faults>>

Open == {"accepted", "processing"}
Terminal == {"processed", "failed", "dead_letter"}
Statuses == Open \cup Terminal \cup {"absent", "deleted"}

(* What a task does next.  "received": claim the row just created;         *)
(* "doomed": move it to the dead letters; "waiting": get a slot; then the  *)
(* steps of the pipeline; then the mark to write.                          *)
Pipeline == {"reading", "writing", "recording", "evaluating"}
Marks == {"processed", "failed", "cancelled", "doomed"}
Stages == {"received", "waiting"} \cup Pipeline \cup Marks

Tasks == [replica : Replicas, row : Rows, token : Nat,
          stage : Stages, seen : Nat, lease : {"live", "lapsed"}]

TypeOK ==
    /\ status \in [Rows -> Statuses]
    /\ claimToken \in [Rows -> Nat]
    /\ lease \in [Rows -> {"none", "held", "expired"}]
    /\ attempts \in [Rows -> Nat]
    /\ age \in [Rows -> {"fresh", "aged", "old"}]
    /\ body \in [Rows -> Versions \cup {0}]
    /\ dehydrated \subseteq Rows
    /\ tasks \subseteq Tasks
    /\ stopping \subseteq Replicas
    /\ stored \in Nat
    /\ events \subseteq Versions
    /\ handed \in [Versions -> Nat]
    /\ faults \in 0 .. MaxFaults

Init ==
    /\ status = [r \in Rows |-> "absent"]
    /\ claimToken = [r \in Rows |-> 0]
    /\ lease = [r \in Rows |-> "none"]
    /\ attempts = [r \in Rows |-> 0]
    /\ age = [r \in Rows |-> "fresh"]
    /\ body = [r \in Rows |-> 0]
    /\ dehydrated = {}
    /\ tasks = {}
    /\ stopping = {}
    /\ stored \in InitialVersions
    /\ events = {}
    /\ handed = [v \in Versions |-> 0]
    /\ faults = 0

(* A fault is charged to a budget; once the background context is          *)
(* cancelled every call that uses it may fail for free.                    *)
Fault == faults < MaxFaults /\ faults' = faults + 1
CallFails(w) == (w \in stopping /\ UNCHANGED faults) \/ Fault

Of(w) == {t \in tasks : t.replica = w}
Advance(t, stage) ==
    tasks' = (tasks \ {t}) \cup {[t EXCEPT !.stage = stage, !.seen = 0]}
Drop(t) == tasks' = tasks \ {t}

-----------------------------------------------------------------------------
(* The store.                                                              *)

(* Create inserts the row; the request's handler goes on to claim it.      *)
Create(r, v, w) ==
    /\ status[r] = "absent"
    /\ w \notin stopping
    /\ status' = [status EXCEPT ![r] = "accepted"]
    /\ body' = [body EXCEPT ![r] = v]
    /\ tasks' = tasks \cup {[replica |-> w, row |-> r, token |-> 0,
                             stage |-> "received", seen |-> 0, lease |-> "lapsed"]}
    /\ UNCHANGED <<claimToken, lease, attempts, age, dehydrated, stopping,
                   itemVars, faults>>

(* (variant) A claim that does not look at the lease of a processing row.  *)
ClaimableIgnoringLease(r) == status[r] \in Open

Claimable(r) ==
    \/ status[r] = "accepted"
    \/ status[r] = "processing" /\ lease[r] # "held"

(* (variant) Recovery looks at accepted rows only.                         *)
DueAcceptedOnly == {r \in Rows : status[r] = "accepted" /\ age[r] # "fresh"}

(* The candidates of ClaimDueOrphanWebhooks; fewer here than its limit.    *)
Due == {r \in Rows : Claimable(r) /\ (status[r] = "accepted" => age[r] # "fresh")}

(* newID: a token that never recurs.  A mark names its row and is compared *)
(* with that row's token only, so the number of the claim serves as well.  *)
NewToken(r) == attempts[r] + 1

(* The UPDATE of both claims: all rows of the batch get the same token.    *)
ClaimRows(hit) ==
    /\ status' = [r \in Rows |-> IF r \in hit THEN "processing" ELSE status[r]]
    /\ claimToken' = [r \in Rows |-> IF r \in hit THEN NewToken(r) ELSE claimToken[r]]
    /\ lease' = [r \in Rows |-> IF r \in hit THEN "held" ELSE lease[r]]
    /\ attempts' = [r \in Rows |-> IF r \in hit THEN attempts[r] + 1 ELSE attempts[r]]

Claim(w, r, stage) == [replica |-> w, row |-> r, token |-> NewToken(r),
                       stage |-> stage, seen |-> 0, lease |-> "live"]

(* (variant) A mark by id alone overwrites whatever the row has become.    *)
MarkGuardByIdOnly(t) == status[t.row] \in Statuses \ {"absent"}

(* The WHERE clause of MarkProcessed, MarkFailed and MarkDeadLetter.       *)
MarkGuard(t) == status[t.row] \in Open /\ claimToken[t.row] = t.token

MarkedStatus(t) ==
    CASE t.stage = "processed" -> "processed"
      [] t.stage = "doomed" -> "dead_letter"
      [] OTHER -> "failed"

SetMarked(t) ==
    /\ status' = [status EXCEPT ![t.row] = MarkedStatus(t)]
    /\ claimToken' = [claimToken EXCEPT ![t.row] = 0]
    /\ UNCHANGED <<lease, attempts>>

(* DehydrateWebhookPayloads drops the payload of processed rows.           *)
Dehydrate(r) ==
    /\ status[r] = "processed"
    /\ r \notin dehydrated
    /\ dehydrated' = dehydrated \cup {r}
    /\ UNCHANGED <<claimVars, age, body, tasks, stopping, itemVars, faults>>

(* DeleteOlderThan goes by received_at and not by status: an open row is   *)
(* as good as any once it is old.                                          *)
DeleteOlderThan(r) ==
    /\ status[r] \in Terminal \/ (status[r] \in Open /\ age[r] = "old")
    /\ status' = [status EXCEPT ![r] = "deleted"]
    /\ claimToken' = [claimToken EXCEPT ![r] = 0]
    /\ lease' = [lease EXCEPT ![r] = "none"]
    /\ age' = [age EXCEPT ![r] = "fresh"]
    /\ dehydrated' = dehydrated \ {r}
    /\ UNCHANGED <<attempts, body, tasks, stopping, itemVars, faults>>

-----------------------------------------------------------------------------
(* The handlers.                                                           *)

(* handleGitHubWebhook for a delivery id seen for the first time.          *)
Receive(r, w) == r \in Deliveries /\ Create(r, VersionOf[r], w)

(* handleReplayWebhookDelivery copies an existing delivery to a new row.   *)
Replay(d, r, w) ==
    /\ r \in Replays
    /\ status[d] \in Open \cup Terminal
    /\ d \notin dehydrated
    /\ Create(r, body[d], w)

(* Either handler claims the row it created.  Somebody may have been       *)
(* faster: then it answers 503 and is done.                                *)
ClaimOwn(t) ==
    /\ t.stage = "received"
    /\ \/ /\ Claimable(t.row)
          /\ ClaimRows({t.row})
          /\ tasks' = (tasks \ {t}) \cup {Claim(t.replica, t.row, "waiting")}
       \/ /\ ~Claimable(t.row)
          /\ Drop(t)
          /\ UNCHANGED claimVars
    /\ UNCHANGED <<age, body, dehydrated, stopping, itemVars, faults>>

(* The claim returns an error, before or after it was committed.           *)
ClaimOwnFails(t) ==
    /\ t.stage = "received"
    /\ Fault
    /\ Drop(t)
    /\ UNCHANGED claimVars \/ (Claimable(t.row) /\ ClaimRows({t.row}))
    /\ UNCHANGED <<age, body, dehydrated, stopping, itemVars>>

(* respondWebhookDuplicate: GitHub sends the delivery again while its row  *)
(* is open.  Redeliveries are not bounded by the code; here they stop at   *)
(* the attempt that would doom the row.                                    *)
Duplicate(r, w) ==
    /\ r \in Deliveries
    /\ w \notin stopping
    /\ status[r] = "accepted" \/ (status[r] = "processing" /\ age[r] # "fresh")
    /\ Claimable(r)
    /\ attempts[r] < MaxAttempts
    /\ ClaimRows({r})
    /\ tasks' = tasks \cup {Claim(w, r, "waiting")}
    /\ UNCHANGED <<age, body, dehydrated, stopping, itemVars, faults>>

(* runOrphanRecoveryOnce sees the attempt count its claim has raised.      *)
GivesUp(r) == attempts[r] + 1 >= MaxAttempts \/ age[r] = "old"

RecoverOrphans(w) ==
    /\ w \notin stopping
    /\ Due # {}
    /\ ClaimRows(Due)
    /\ tasks' = tasks \cup
          {Claim(w, r, IF GivesUp(r) THEN "doomed" ELSE "waiting") : r \in Due}
    /\ UNCHANGED <<age, body, dehydrated, stopping, itemVars, faults>>

-----------------------------------------------------------------------------
(* The pipeline.                                                           *)

InSlot(w) == {t \in Of(w) : t.stage \in Pipeline \cup {"processed", "failed"}}

(* acquireWebhookSlot; no claim is looked at again before the mark.        *)
AcquireSlot(t) ==
    /\ t.stage = "waiting"
    /\ t.replica \notin stopping
    /\ Cardinality(InSlot(t.replica)) < Slots
    /\ Advance(t, "reading")
    /\ UNCHANGED <<rowVars, stopping, itemVars, faults>>

(* A shutdown ends the wait: the delivery is marked failed.                *)
CancelWait(t) ==
    /\ t.stage = "waiting"
    /\ t.replica \in stopping
    /\ Advance(t, "cancelled")
    /\ UNCHANGED <<rowVars, stopping, itemVars, faults>>

(* UpsertIfNewer reads the work item; a version it already has is stale:   *)
(* there is no event and the delivery counts as processed.                 *)
ReadItem(t) ==
    /\ t.stage = "reading"
    /\ tasks' = (tasks \ {t}) \cup
          {[t EXCEPT !.seen = stored,
                     !.stage = IF body[t.row] <= stored THEN "processed" ELSE "writing"]}
    /\ UNCHANGED <<rowVars, stopping, itemVars, faults>>

(* ... then writes it, by id and unconditionally; only an insert meets the *)
(* unique index if another task was faster.                                *)
WriteItem(t) ==
    /\ t.stage = "writing"
    /\ \/ /\ t.seen = 0 /\ stored # 0
          /\ Advance(t, "failed")
          /\ UNCHANGED stored
       \/ /\ t.seen # 0 \/ stored = 0
          /\ stored' = body[t.row]
          /\ Advance(t, "recording")
    /\ UNCHANGED <<rowVars, stopping, events, handed, faults>>

(* (variant) A duplicate fingerprint does not stop the event.              *)
KnownEventNever(v) == v = 0

KnownEvent(v) == v \in events

(* (variant) The event is inserted but not returned to the service.        *)
RecordEventDropped(t) ==
    /\ t.stage = "recording"
    /\ Advance(t, "processed")
    /\ events' = events \cup {body[t.row]}
    /\ UNCHANGED <<rowVars, stopping, stored, handed, faults>>

(* The fingerprint is looked up, then the event inserted under a unique    *)
(* index: either way a known event is not returned to the service.         *)
RecordEvent(t) ==
    /\ t.stage = "recording"
    /\ IF KnownEvent(body[t.row])
         THEN Advance(t, "processed") /\ UNCHANGED events
         ELSE Advance(t, "evaluating") /\ events' = events \cup {body[t.row]}
    /\ UNCHANGED <<rowVars, stopping, stored, handed, faults>>

(* The service hands the event to the evaluator (rules.Aggregator).        *)
Evaluate(t) ==
    /\ t.stage = "evaluating"
    /\ handed' = [handed EXCEPT ![body[t.row]] = @ + 1]
    /\ Advance(t, "processed")
    /\ UNCHANGED <<rowVars, stopping, stored, events, faults>>

(* Any call of the pipeline fails: normalize_failed or rule_failed.        *)
StepFails(t) ==
    /\ t.stage \in Pipeline
    /\ CallFails(t.replica)
    /\ Advance(t, "failed")
    /\ UNCHANGED <<rowVars, stopping, itemVars>>

(* The mark, applied if the claim still owns the row, stale otherwise.     *)
Mark(t) ==
    /\ t.stage \in Marks
    /\ \/ MarkGuard(t) /\ SetMarked(t)
       \/ ~MarkGuard(t) /\ UNCHANGED claimVars
    /\ Drop(t)
    /\ UNCHANGED <<age, body, dehydrated, stopping, itemVars, faults>>

MarkFails(t) ==
    /\ t.stage \in Marks
    /\ CallFails(t.replica)
    /\ Drop(t)
    /\ UNCHANGED <<rowVars, stopping, itemVars>>

-----------------------------------------------------------------------------
(* Processes and time.                                                     *)

(* The background context is cancelled; nothing waits for the goroutines.  *)
Shutdown(w) ==
    /\ w \notin stopping
    /\ Fault
    /\ stopping' = stopping \cup {w}
    /\ UNCHANGED <<rowVars, tasks, itemVars>>

(* The process ends, with whatever its goroutines were doing, and a new    *)
(* one starts in its place.                                                *)
Exit(w) ==
    /\ w \in stopping
    /\ tasks' = tasks \ Of(w)
    /\ stopping' = stopping \ {w}
    /\ UNCHANGED <<rowVars, itemVars, faults>>

Crash(w) ==
    /\ Of(w) # {}
    /\ Fault
    /\ tasks' = tasks \ Of(w)
    /\ stopping' = stopping \ {w}
    /\ UNCHANGED <<rowVars, itemVars>>

(* The lease of three minutes outlasts AcceptedAge.  It may run out while a *)
(* task waits for a slot or works; that the single statement of a dead     *)
(* letter takes that long is a fault.                                      *)
LeaseExpires(r) ==
    /\ status[r] = "processing"
    /\ lease[r] = "held"
    /\ age[r] # "fresh"
    /\ IF \E t \in tasks : t.row = r /\ t.stage = "doomed" /\ t.lease = "live"
         THEN Fault ELSE UNCHANGED faults
    /\ lease' = [lease EXCEPT ![r] = "expired"]
    /\ tasks' = {IF t.row = r THEN [t EXCEPT !.lease = "lapsed"] ELSE t : t \in tasks}
    /\ UNCHANGED <<status, claimToken, attempts, age, body, dehydrated, stopping,
                   itemVars>>

GrowsOld(r) ==
    /\ status[r] \in Open
    /\ \/ age[r] = "fresh" /\ age' = [age EXCEPT ![r] = "aged"]
       \/ age[r] = "aged" /\ age' = [age EXCEPT ![r] = "old"]
    /\ UNCHANGED <<claimVars, body, dehydrated, tasks, stopping, itemVars, faults>>

-----------------------------------------------------------------------------
TaskStep(t) ==
    \/ ClaimOwn(t)
    \/ AcquireSlot(t)
    \/ CancelWait(t)
    \/ ReadItem(t)
    \/ WriteItem(t)
    \/ RecordEvent(t)
    \/ Evaluate(t)
    \/ Mark(t)

ReplicaStep(w) == \E t \in Of(w) : TaskStep(t)

FaultStep ==
    \/ \E t \in tasks : ClaimOwnFails(t) \/ StepFails(t) \/ MarkFails(t)
    \/ \E w \in Replicas : Shutdown(w) \/ Crash(w)

RequestStep ==
    \E w \in Replicas, r \in Rows :
        \/ Duplicate(r, w)
        \/ /\ status[r] = "absent"
           /\ Receive(r, w) \/ \E d \in Rows : Replay(d, r, w)

RetentionStep == \E r \in Rows : Dehydrate(r) \/ DeleteOlderThan(r)

TimeStep == \E r \in Rows : LeaseExpires(r) \/ GrowsOld(r)

Next ==
    \/ \E w \in Replicas : ReplicaStep(w) \/ RecoverOrphans(w) \/ Exit(w)
    \/ FaultStep
    \/ RequestStep
    \/ RetentionStep
    \/ TimeStep

(* Goroutines run, the recovery worker ticks in every replica, a shutdown  *)
(* ends, and time passes.  No request and no retention run is owed.        *)
Fairness ==
    /\ \A w \in Replicas : WF_vars(ReplicaStep(w)) /\ WF_vars(RecoverOrphans(w))
                             /\ WF_vars(Exit(w))
    /\ \A r \in Rows : WF_vars(LeaseExpires(r)) /\ WF_vars(GrowsOld(r))

Spec == Init /\ [][Next]_vars /\ Fairness

-----------------------------------------------------------------------------
(* Properties.                                                             *)

(* A claim whose lease has not run out owns its row: while it works, no    *)
(* other replica, redelivery or recovery run takes the delivery over, and  *)
(* no stale mark settles it.  Only retention may delete it.                *)
OwnerUndisturbed ==
    \A t \in tasks :
        t.lease = "live" /\ status[t.row] # "deleted" =>
            /\ status[t.row] = "processing"
            /\ claimToken[t.row] = t.token

(* However often a delivery is redelivered, recovered, replayed or run     *)
(* twice at once, its event reaches the evaluator at most once: "重复处理   *)
(* 无害" of respondWebhookDuplicate, and nobody is notified twice.          *)
EvaluatedOnce == \A v \in Versions : handed[v] <= 1

(* The outcome of a delivery is written once: no late goroutine of an      *)
(* expired claim turns a processed row into a failed one or back.          *)
SettledOnce ==
    [][\A r \in Rows :
          status[r] \in Terminal => status'[r] \in {status[r], "deleted"}]_vars

(* A delivery goes to the dead letters only after MaxAttempts claims or    *)
(* when it is older than MaxRetentionAge.                                  *)
DeadLetterJustified ==
    \A r \in Rows :
        status[r] = "dead_letter" => attempts[r] >= MaxAttempts \/ age[r] = "old"

(* The event of a delivery reached the evaluator, or a task that recorded  *)
(* it is about to hand it over, or a newer version of the item arrived and *)
(* made it stale.                                                          *)
Accounted(v) ==
    \/ handed[v] > 0
    \/ \E t \in tasks : body[t.row] = v /\ t.stage \in {"recording", "evaluating"}
    \/ \E r \in Rows : body[r] > v

(* A delivery is marked processed only if its event is accounted for: a    *)
(* lost notification must show as failed ("通知已丢：状态必须可查", service.go). *)
ProcessedMeansEvaluated ==
    \A r \in Rows : status[r] = "processed" => Accounted(body[r])

(* ... which holds as long as nothing crashes, stops or fails, whatever    *)
(* leases run out meanwhile.                                               *)
SilentLossNeedsFault == faults = 0 => ProcessedMeansEvaluated

(* Every delivery that was stored is eventually settled: processed,        *)
(* failed, given up, or deleted by retention.                              *)
EventuallySettled ==
    \A r \in Rows : status[r] \in Open ~> status[r] \notin Open

-----------------------------------------------------------------------------
(* The inductive invariant behind the safety properties.                   *)

TaskRowsExist == \A t \in tasks : status[t.row] # "absent"

BodiesKnown == \A r \in Rows : status[r] # "absent" => body[r] \in Versions

(* The token of a claim is the number of the claim.                        *)
TokensCounted ==
    /\ \A r \in Rows : claimToken[r] <= attempts[r]
    /\ \A t \in tasks : t.token <= attempts[t.row]
    /\ \A t \in tasks : (t.stage = "received" /\ t.lease = "lapsed") \/ t.token > 0

TokensUnique == \A t, u \in tasks : t.row = u.row /\ t.token = u.token => t = u

(* The task whose token the row carries is the row's current claim.        *)
CurrentClaim ==
    \A t \in tasks :
        t.token > 0 /\ claimToken[t.row] = t.token =>
            /\ status[t.row] = "processing"
            /\ lease[t.row] # "held" => t.lease = "lapsed"

(* Whoever inserted an event row is the only one to hand it on.            *)
RecordedOnce ==
    /\ \A t \in tasks : t.stage = "evaluating" =>
          /\ body[t.row] \in events
          /\ handed[body[t.row]] = 0
    /\ \A t, u \in tasks :
          /\ t.stage = "evaluating"
          /\ u.stage = "evaluating"
          /\ body[t.row] = body[u.row]
          => t = u
    /\ \A v \in Versions : handed[v] > 0 => v \in events

DoomJustified ==
    \A t \in tasks : t.stage = "doomed" =>
        \/ attempts[t.row] >= MaxAttempts
        \/ age[t.row] = "old"
        \/ status[t.row] = "deleted"

IInv ==
    /\ TypeOK
    /\ TaskRowsExist
    /\ BodiesKnown
    /\ TokensCounted
    /\ TokensUnique
    /\ CurrentClaim
    /\ OwnerUndisturbed
    /\ RecordedOnce
    /\ EvaluatedOnce
    /\ DoomJustified
    /\ DeadLetterJustified

-----------------------------------------------------------------------------
(* The deliveries implement the intake of EventIntake.tla.                 *)
progressBar == [r \in Rows |-> IF status[r] \in Open THEN "open" ELSE status[r]]
oldBar == {r \in Rows : age[r] = "old"}

Intake == INSTANCE EventIntake
             WITH progress <- progressBar, version <- body, tries <- attempts, old <- oldBar,
                  cleared <- dehydrated, item <- stored, recorded <- events, told <- handed

(* Every step of any handler, goroutine or recovery run, with any claim    *)
(* however old, is a step the intake allows or invisible to it.            *)
ImplementsIntake == Intake!Spec
=============================================================================
