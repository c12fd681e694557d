# Repo-Sentinel in TLA+

Repo-Sentinel is a Go service that watches GitHub repositories: webhooks and
polls become events, rules turn events into notifications, an outbox delivers
them to chat and mail channels, and operators act back on GitHub from buttons in
those messages.  Several replicas may run against one database (SQLite
or PostgreSQL); everything they agree on is a row of it.

This directory holds TLA+ models of the parts where that gets hard, TLC
instances that check them, and TLAPS proofs of their main safety properties for
all values of the constants.  Source paths below are relative to `src/`.

    tlc -workers 2 -config MCOutbox_replicas.cfg MCOutbox    # one run
    tlapm OutboxProofs.tla                                   # one proof module

`PROJECT.json` lists the components, the runs with what each shows, for every
definition the lines of Go it models, for every property a mutation of the model
it catches, the hazards, the findings and the theorems.

## 1. Inventory

### How the parts fit together

    GitHub --webhook--> httpapi handlers --> webhook_deliveries (row, claim, lease)
                                                  |  slot
                                                  v
              webhooksvc.Service.Process: normalizer --> rules.Aggregator/Engine
                      |  work items, events                |  JEV verdicts, AI triage
                      v                                     v
                  store tables                       notification_outbox
                      ^                                     |  claim, lease, token
    syncx.Scheduler --+-- reconcile, external, starred      v
      (task leases)   +-- digest reports ------------> notify.Worker --> channels
                                                                            |
    operators <----------------- messages with buttons <--------------------+
        |  callback + one-time token
        v
    chatops --> guardrail (JEV) --> receipts (sideeffect) --> GitHub API

Three patterns carry all of it: a *claim* (row taken under a lease with a token
which the final mark repeats in its WHERE clause), a *unique key* (delivery id,
event fingerprint, idempotency key of a notification, receipt key) that makes a
repetition harmless, and a *ledger* (digest ledger, watermarks, consumed tokens)
that remembers what was done.

### Components

| component | state | operations | hard behaviour | correct means |
|---|---|---|---|---|
| Notification outbox (`store/domain_stores.go`), notify worker (`notify/worker.go`) | `notification_outbox`: status, attempts, lock, next attempt, token; items in a worker's memory | create, claim, send, mark sent/failed/dead, operator retry, cancel on unstar, retention | replicas claim and mark one row; a lease ends under a worker; mark lost after the channel accepted | a live claim owns its row; each outcome has its cause; retries bounded; everything queued is settled |
| Webhook intake, replay, recovery (`httpapi/webhook_*.go`, `orphan_recovery_worker.go`), pipeline (`webhooksvc/service.go`), normalizer (`normalizer/process.go`) | `webhook_deliveries`; work items and events; goroutines waiting for a slot | receive, redeliver, replay, recover, process, mark, dehydrate, delete | redelivery against a running or dead claim; waiting longer than the lease; crash between item, event and evaluation | an event is evaluated once and not silently lost; outcome written once; dead letters justified |
| Task leases (`syncx/lease_runner.go`, `system_leases`), scheduler (`syncx/scheduler.go`) | lease row; busy flags; heartbeat goroutine | acquire, renew, release, tick | renewal against expiry and takeover; answers lost; shutdown | one replica runs a task; it runs again after any crash |
| Digest (`digest/generator.go`) | ledger per report in the settings table; outbox rows | daily, weekly, monthly run | window of one hour against an hourly ticker; half a report; late subscriber | each report once, to all, covering its period |
| ChatOps (`chatops`), receipts (`sideeffect`) | tokens and claims in the settings table; `side_effect_receipts` | consume, bind, guardrail, execute, release, sweep | double clicks at two replicas; lost answers; sweep of claims before tokens | one effect per subject; tokens neither reused nor burnt without cause; true answers |
| Rules engine (`rules/engine.go`) | channels, ignore lists, tokens it issues | evaluate event, enqueue, label | repeated evaluation; failing verdicts | one row per event and channel |
| Aggregator (`rules/aggregate.go`, `jev_notification.go`), quiet hours (`quiet_hours.go`) | buckets, sliding windows and burst marks in each process's memory | prepare, add, flush, fold bursts, defer | timer against flush against the next bucket; two replicas in one time bucket; crash with full buckets | every event accounted for, once per channel, and on its own channels; due exactly at the end of the quiet hours |
| Reconciliation (`syncx/reconcile.go`) | cursor and sync status of a repository, work items and alerts shared with the webhooks | list, store, withdraw alerts, write back, move the cursor | lists that change while they are read; webhook against round; archived or deleted meanwhile | no change passed over, no open alert withdrawn, no archived repository revived |
| Releases of starred repositories (`syncx/starred.go`, `store/starred_tracker_store.go`) | a tracker per repository: state, cursor, ETag | star synchronisation, probe, removal, release poll, the user's switch | lists that change while they are read; a limit per round; two synchronisations, or one against the user | no release passed over untold, no tracker switched off or on against the user |
| External polls (`syncx/external.go`, `installations.go`) | watermarks | list, store | as in the rounds above | as above |
| JEV client, breaker, cache (`jev`) | breaker generation, permits, cooldown; shared flights; LRU | judge, trip, replace at run time | late results of an older generation; last waiter leaving a flight | breaker recovers; no caller gets another's cancellation |
| Failover and health of channels (`notify/failover.go`, `doctor.go`) | consecutive failures per process and channel | resolve, record | health of one process unknown to the others; read before the send, changed during it | a row outlives the outage of its channel |
| Code review of pull requests (`webhooksvc/code_review.go`, `review_*.go`) | debounce entries with timers, reviews in flight, stored report | schedule, supersede, run, comment, stop | a fired timer against the next push; a second webhook or a person against a running review; shutdown against all of them | the newest commit is reviewed, commented on once, and nothing runs after the drain |
| AI client (`ai`) | daily budget | call, parse | budget shared by goroutines | budget kept |
| Authentication (`auth`) | sessions, failed attempts, TOTP | login, rotate, revoke | limiter under concurrency; rotation races | revoked sessions end |
| HTTP API and event stream (`httpapi`) | SSE subscribers | CRUD, subscribe, broadcast, close | slow subscriber; close against broadcast | no send on a closed channel |
| Settings and value caches (`store/settings_cache.go`, `value_cache.go`) | map with 5 s life per process | get, put, invalidate | invalidation before commit; other replicas | staleness bounded |
| Encryption, key rotation (`cryptox`, `app/rotate_keys.go`) | key ring, encrypted columns | rotate | crash half way | every row readable |
| GitHub client, database layer, start-up and CLI, plugins, update check, statistics, web console | – | – | – | not modelled, see section 7 |

`PROJECT.json` "hazards" lists, at the line where each bites, what in this code
is hard to test; the properties below were chosen from that list.

## 2. Modules

| module | what it is |
|---|---|
| `Outbox` | the outbox table and the notify workers |
| `NotificationQueue` | what the outbox promises, without workers, claims and leases; `Outbox` refines it |
| `WebhookDelivery` | deliveries, their claims, slots, recovery, and the pipeline over one work item |
| `EventIntake` | what the intake promises, without replicas, claims, leases and goroutines; `WebhookDelivery` refines it |
| `LeaseRunner` | the lease row and `RunWithLease` with its heartbeat |
| `TaskLease` | a lease without rows, tokens, clocks and heartbeats; `LeaseRunner` refines it, and so does the lease as `Digest` uses it |
| `Digest` | the three periodic reports under their lease, ledger and calendar |
| `ChatOps` | buttons, page requests, token claims, guardrail verdicts, receipts |
| `OperatorAction` | what operators may rely on, without buttons, pages and handlers; `ChatOps` refines it |
| `JevBreaker` | the requests of one decision plane: breaker, slots, retry, back-off |
| `JevFlights` | how callers share such requests |
| `Aggregator` | from an event to rows of the outbox, for one repository and category over several replicas |
| `EventNotices` | what becomes of an event, without buckets, timers, bursts, replicas and keys; `Aggregator` refines it |
| `QuietHours` | when a row is due that a channel's quiet hours hold back |
| `Failover` | the notify worker's choice of another channel, and the health it goes by |
| `CodeReview` | debounced, automatic and manual reviews of one pull request, and the shutdown |
| `Reconcile` | the rounds over one repository next to its webhooks |
| `Starred` | the trackers of starred repositories, their synchronisation and the polls of their releases |
| `OutboxProofs`, `LeaseProofs`, `DigestProofs`, `ChatOpsProofs` | theorems about the module of that name, and its refinement of `NotificationQueue`, `TaskLease` (twice) and `OperatorAction` |
| `WebhookProofs` | theorems about `WebhookDelivery`, its refinement of `EventIntake`, and `CodeReview` |
| `JevProofs` | theorems about `JevBreaker` and `JevFlights` |
| `RulesProofs` | theorems about `Aggregator`, its refinement of `EventNotices`, `QuietHours` and `Failover` |
| `SyncProofs` | theorems about `Reconcile` and `Starred` |
| `MCOutbox`, `MCWebhook`, `MCIntake`, `MCLease`, `MCDigest`, `MCRules`, `MCJev` | instances for TLC |

`Digest` takes from `LeaseRunner` what that module establishes: one holder, except
after a fault (`Lapse`), and takeover after a crash (`Expire`). `TaskLease` states
it, and it is proved on both sides: `LeaseRunner` implements it, and the reports use
no more than it gives. `WebhookDelivery`
ends where the evaluator is called, `Aggregator` begins there and ends where a row
is created, and there `Outbox` begins; `Failover` refines what `Outbox` calls the
send. Each module uses the other's guarantee instead of its state, so that every one
stays small enough to be checked with faults.

Conventions in all of them: an action is a whole handler step between two points
at which another actor can interfere (a statement, a transaction, an external
call); a database call that fails may fail before or after its effect; crashes,
failing calls and late leases are charged to a budget `MaxFaults`, which is a
constant of the instance and unbounded in the proofs; definitions marked
"variant" are plausible slips, used only to see that a property notices them.

### Outbox

`status, attempts, lock, next, claimToken, lastError` are the columns of
`notification_outbox`; `inflight` is what `Worker.tick` holds in memory, one
record per claimed row with the claim's token, attempt and progress; `selected`
are the ids the retention job has read and not yet deleted.  `acked` counts what
the channel accepted, with or without an answer, and `unanswered` the acceptances
whose answer did not come: the worker takes those for transient errors and sends
again.  `faults` are the crashes, failing calls and early lapses; both share one
budget (`Charged`).

| action | code |
|---|---|
| `Create` | `Create`: due now, deferred by quiet hours, or suppressed |
| `ClaimOne`, `ClaimFails`, `StartDelivery`, `EndTick` | the claim loop of `tick`; `ClaimRow` is the one statement of `ClaimOne` |
| `Send`, `AnswerLost` (`Deliver`) | the channel call of `deliver`, row by row within a channel (`Turn`); a timeout or a lost answer of a message the channel has taken |
| `Mark`, `MarkFails` | `handleFailure` and `MarkSent/Failed/DeadWithToken` under `outboxTerminalGuard` |
| `RetryDead`, `RetryAllDead`, `CancelPendingByRepository` | operator retries, unstar |
| `SelectTerminal`, `DeleteSelected`, `DeleteFails` | the two statements of `DeleteTerminalOlderThan` |
| `Crash`, `LeaseRunsOut`, `LeaseRunsOutEarly`, `BackoffElapses` | processes and time |

Time is reduced to the comparisons made with it: a row is due or not, a lock
free, held or expired.  A lease ends freely once nobody works on its row and by a
fault under a working worker.  Tokens are compared only for equality, so a
deterministic fresh one stands for the UUID.  The senders of the channels are one
step with four outcomes (accepted, permanent, rate limited, transient); a transient
one may hide an acceptance.

### NotificationQueue

The promise: queued once, offered any number of times, recorded as sent only if
accepted; sent, cancelled and suppressed are final until deletion; only dead rows
are queued again.  Deletion is of rows *doomed* while terminal: the retention
job's gap between select and delete is part of the promise because it is part of
the code (section 4, observations).

### EventIntake, TaskLease, OperatorAction, EventNotices

The promises of the deliveries, the lease, the operator actions and the aggregator,
each with a mapping at the end of the module that implements it.

* `EventIntake`: a delivery is open from its arrival until it is settled, after at
  least one attempt and for good; it is given up only after `MaxAttempts` or when
  old; the event of a version is recorded once and told at most once, later.
  `taskRows`, `claimed`, slots and tokens have no counterpart: attempts may overlap.
* `TaskLease`: a free lease is taken, a held one is not; it becomes free under a
  worker that runs only by a lag, which is counted.  In `LeaseRunner` a lag is a
  heartbeat later than `Delay`, in `Digest` a lapse of the lease or of the settings.
* `OperatorAction`: an action on a subject is under way once at a time and tried
  again only when it had no effect, or one that a server error hid; who was told that
  it is done can rely on it.  The stage of an action is its receipt.
* `EventNotices`: an event is rejected, suppressed with a record on every channel
  chosen for it, summarised, or told on those channels, once each, by itself or with
  others.  The summary of a burst names no event and is no notice.

### WebhookDelivery

Rows carry status, claim, lease, attempts, age class and the version of the one
work item they report; `tasks` are the goroutines and handlers with a delivery in
hand and the pipeline step they are at; `stored`, `events`, `handed` are the
item's row, the event fingerprints and the calls of the evaluator.

| action | code |
|---|---|
| `Receive`, `ClaimOwn`, `ClaimOwnFails` | `handleGitHubWebhook` |
| `Duplicate` | `respondWebhookDuplicate` |
| `Replay` | `handleReplayWebhookDelivery` |
| `RecoverOrphans` | `runOrphanRecoveryOnce`: claim all due rows, give up or process |
| `AcquireSlot`, `CancelWait` | `acquireWebhookSlot` |
| `ReadItem`, `WriteItem`, `RecordEvent` | `processWorkItem` with `UpsertIfNewer` as the read and the write it is |
| `Evaluate`, `StepFails`, `Mark`, `MarkFails` | `Service.Process` and its marks |
| `Dehydrate`, `DeleteOlderThan` | retention |
| `Shutdown`, `Exit`, `Crash`, `LeaseExpires`, `GrowsOld` | processes and time |

A delivery's token is the number of its claim: marks compare it with one row
only, so numbers serve as well as UUIDs.  `Advance` forgets the version a task
read once it is past using it.  Redeliveries are unbounded in the code; the model
stops them at the attempt that dooms the row.  A lease that ends during the one
statement of a dead letter is charged as a fault, any other expiry is free: the
wait for a slot may well outlast three minutes.  All gates that drop an event for
good (ignored repository, muted kind) are open, and the recovery batch limit is
not reached.

### LeaseRunner

`row` is the lease (holder, fencing token, time left), `run` what each replica's
`RunWithLease` does, `stray` renewals on their way when the task returned.  Time
counts down in ticks.  `slack` is what is left until a heartbeat must have reached
the database; `Delay` bounds how late it may be, and `LateTick` exceeds it at the
price of a fault.  One task name stands for all: rows of different names do not
meet.  The in-process mutex and busy flags are subsumed by a replica running one
call at a time.

### Digest

The clock counts ticks (`Hour` to an hour, `Day` to a day).  Each replica has an
hourly ticker whose phase is where it booted.  A run takes its time once,
acquires the lease, then checks each due report (`Skip`, `Gather`), enqueues a row
per channel (`Enqueue`, conflict on the idempotency key) and writes the ledger
(`Book`); `ReportFails` gives the report up half way.  Settings that cannot be
read count as their default, as in `GetJSON`'s callers (`lapses`).  The time zone
has no DST change; a run is shorter than the ticker's period; the event limits
(500, 1000) are not reached; all reports share one subscription switch; channels
and events are read in one step.

### ChatOps

`token` and `claims` are the settings rows `chatops:token:*` and
`chatops:claim:*`, `receipt` the row of `side_effect_receipts` per key, `pc` where
each click's handler stands (`bind`, `guard`, `load`, `prelude`, `call`, then
`book`, `doubt` or `drop`, and `release`), `effects` what really happened at
GitHub.

| action | code |
|---|---|
| `Consume`, `Refuse`, `ConsumeFails` | the webhook handler's whitelist, `TokenStore.Consume` as its transaction |
| `CheckActor`, `GuardPass`, `GuardDeny`, `GuardUnavailable` | `VerifyActorBinding`, `checkGuardrail` by outcome |
| `WebAction` | the page's request, idempotency key instead of token |
| `LoadFails`, `CreateReceipt`, `FindReceipt`, `ReceiptFails` | executor's preparation, step 1 of `ExecuteWithReceiptDetail` |
| `Prelude`, `Call`, `CallRefused`, `CallLost` | the GitHub calls: repeatable ones, then the effect |
| `Book`, `Doubt`, `RecordFails`, `Drop`, `Release`, `ReleaseFails` | settling receipt and token |
| `Expire`, `SweepClaim`, `SweepToken`, `Crash` | time, cleanup, processes |

The verdict of the guardrail is its outcome; which risk and mode allow which is a
table a unit test covers.  A server error that hid an effect is treated as a
refusal by the code (`CallRefused`); such effects are counted in `doubtful`, the
`hidden` ones of `OperatorAction`, and `EffectOnce` excepts them.  The sweep of receipts after 90 days lies beyond the
life of any token (24 hours at most) and is left out.

### JevBreaker and JevFlights

`state, failures, probes` are the breaker's fields and `cooled` says whether
`openedAt` is a cooldown ago; `permit` is each request's permit.  A generation is
only ever compared with the present one, so a permit is *current* until the next
transition and *stale* after it.  `fresh` and `proven` are history: which requests
were sent since the breaker last opened, and whether one of them was answered.

| action | code |
|---|---|
| `Ask`, `Acquire`, `ShortCircuit`, `TakeSlot`, `SlotTimeout` | `Judge` and `executeWork` up to the request |
| `Succeed`, `Fail`, `Excused`, `TryAgain`, `RateLimited`, `RateLimitedRetry` | `doRequestWithRetry` by class of answer, with what `executeWork` then tells the breaker |
| `ReleasePermit`, `RecordSuccess`, `RecordFailure`, `TripOpen`, `Transition` | the breaker's methods |
| `CooldownEnds`, `BackoffEnds` | time |
| `Call`, `FindFlight`, `JoinFlight`, `NewFlight`, `DoChan`, `TakeAnswer`, `Leave` | a caller of `Judge`, lock by lock |
| `Execute`, `Store`, `Close`, `Deliver` | the closure given to singleflight, and its end |
| `BudgetEnds`, `CacheDrops` | time |

A context that ends may do so at any point of a request; a request whose slot wait
it ends is released or, if `select` takes a free slot all the same, fails with a
passed deadline, which counts as a failure of the upstream (`net.Error`).  The
inside of `executeWork` is one step of `JevFlights`: the breaker and the flights
share only the generation, on which the cache write depends (`Store` may skip it).
A flight nobody refers to is reused as a new one.

### Aggregator

One key of `buckets`, `bursts` and `burstNotified`, that is one repository and
category.  `home` says which replica evaluates an event; each replica has its
memory (`bucket, first, armed, fired, spawned, batches, bursts, notified,
flushed`), all share the switches and the unique keys of `outbox`.  A row's key is
what `idempotencyKey` hashes: kind, time bucket, and the event or the tag of the
batch.

| action | code |
|---|---|
| `Prepare` (skipped, refused, passed, suppressed) | `Evaluate` before the mutex: switches, `PrepareNotification`, the transaction that suppresses |
| `Admit` (`Fold`, `StartSummary`, `OpenBucket`, `AddToBucket`) | `Evaluate` under the mutex: sliding window, threshold, mark, bucket, early flush |
| `SummaryRead`, `SummaryWrite`, `SummaryFails` | `enqueueBurstSummary`, channel by channel |
| `TimerFires`, `Flush` | `time.AfterFunc` and `flush` with the bucket it expects |
| `ReadSingle`, `ReadMerged`, `Write`, `FlushFails` | `evaluatePrepared` for one event, `enqueueMerged` for more |
| `Tick`, `Switch`, `ReplicaDies` | time, the administrator, processes |

Jev's answer is the set of channels it leaves, with no answer outside `judged`.
`DecideQuietHours` is asked for each row (`Deferred`); when the row is due is the
matter of `QuietHours`.

### QuietHours, Failover

`QuietHours` keeps local time as day and minute, the configuration of a channel and
the row written last, with what it was decided under: `EvaluateQuietHours` as
`InQuiet`, `Deferring` and `ResumeAt`.  `Failover` keeps rows with their attempts,
the health each worker counts, and which channels work: `Claim` with
`ResolveChannel` (three hops, no channel twice), then `Delivered` or `Refused`, of
which the mark may be lost (`MarkLost`, `RefusalLost`).  Where the database fails on
the way to a channel, the row goes to its own, failing as that is (`LookupFails`), or
nowhere, which counts as a failure of its own (`ChannelUnread`); `unrouted` counts
both.  `Outage`, `Recovery`, `Restart` and `NewRow` are the environment.

### CodeReview

`hooks` are webhooks on their way, `entry, timers, callbacks` the debouncer's entry,
timers and fired callbacks, `callers` those about to enter the tracker, `inFlight`
the tracker's table, `reviews` the goroutines, `report` the stored setting, `phase`
where `App.Close` stands.  The service makes its debouncer and its tracker when it
first needs them and without a lock, so both are numbered.

| action | code |
|---|---|
| `Push`, `Redeliver` | GitHub, a delivery processed once more |
| `LookUp`, `Schedule`, `TimerFires`, `Callback` | `maybeTriggerAICodeReview`, `reviewDebouncer.schedule` |
| `Click`, `Prefix`, `Detail`, `DetailFails` | `TriggerWorkItemReviewWithOptions` |
| `Acquire`, `Reads`, `ReadFails`, `Skips`, `Stores`, `ReviewFails`, `Comments`, `MarksComment`, `Ends` | `launchReview`, `runPRReview`, `commentOnPR`, `release` |
| `Stops`, `StopTracker`, `StopDebouncer`, `Drained`, `CloseGivesUp` | `StopReviews`, `WaitReviews`, `Close` |

### Reconcile

`source` is GitHub, `inbox` the webhooks on their way, `local` the rows, `sync` and
`cursor` the repository's row; the rest is the round: where it is (`pc`), the page
and what the list has shown (`seen`), what is to be stored (`left`) and the store
under way (`save`).  `missed`, `moved` and `late` record what a property excuses,
`untold` what appeared in an active repository and was not told yet.

| action | code |
|---|---|
| `SourceChanges`, `AlertGone`, `Webhook`, `WebhookLost`, `Administered`, `TimePasses` | GitHub, the normalizer, the administrator |
| `Begin`, `ListIssues`, `IssuesDone`, `ListAlerts`, `AlertsDone`, `AlertsFail` | `reconcileRepositoryInternal`, `syncIssues`, `syncPageAlerts`, `retireMissingAlerts` |
| `SaveRead`, `SaveWrite`, `SaveFails` | `UpsertIfNewer` as the read and the write it is, and the event a round makes of an issue (`Compensated`) |
| `Reread`, `WriteBack`, `MoveCursor`, `RoundFails` | `finalizeSyncState`, errors, process death |

Issues are listed by their last update, alerts by their number; a page holds
`PageSize`, and `MaxPages` stands for the bound of 200 pages.

### Starred

`stars`, `releases` and `vanished` are GitHub, `trackerOf` the rows, `news` the
event of a release and whether it was evaluated. `poller` holds the rounds under
way: the leader's, which polls and synchronises by turns, and one a person asked
for, which may run at another replica and without the lease. A round keeps what it
read (the rows at its beginning, the page, the release in hand) while the world goes
on. `choice`, `raced` and `excused` are history: what the user decided last, whether
a round was under way then, and which releases the properties excuse.

| action | code |
|---|---|
| `SyncBegin`, `ListStars`, `Register`, `Recheck`, `PassOver`, `PageDone`, `Disable`, `SyncDone` | `syncStarsLocked`, `registerIfNew`, `removeUnstarred` |
| `Probe`, `ProbeFails`, `Revive` | `probeRelease` |
| `PollBegin`, `Poll`, `PollMore`, `PollFails`, `Scanned`, `PollDone` | `PollReleases`, branch by branch: gone, unchanged, empty, baseline, scan |
| `RecordRelease`, `RecordReleaseFails`, `EvaluateRelease`, `AtTheLimit` | `createReleaseEvent` and the limit of a round |
| `MarkGone`, `MarkEmpty`, `SetCursor`, `WriteFails` | `UpdateState`, `UpdateNoRelease`, `UpdatePollResult` |
| `RoundEnds` | rate limits, cancelled contexts, process death |
| `SetState` | `handleSetStarredTrackerState` |
| `Publish`, `Withdraw`, `Vanish`, `Reappear`, `Star`, `Unstar` | GitHub |

A release is its id; a list has what was published last in front, which is not the
order of the ids when a draft lies around. The ETag of a page is the page. Order and
number of the candidates of a round (200) are left open: a poll takes the trackers
in any order.

## 3. Runs

| run | instance | shows |
|---|---|---|
| `replicas` | two parts: 1 row, 2 workers, 3 faults, 2 attempts; a lease with 2 replicas, 3 boots, 1 shutdown, 1 fault, TTL 4, heartbeat 1, delay 2 | ownership, duplicates bounded by faults and lost answers, retries by faults, refinement of `NotificationQueue`, every queued row settled; one runner, no needless interrupt, runs end their lease, the task runs again |
| `wh_replicas` | 1 delivery, 2 replicas, 1 fault, an older item | refinement of `EventIntake`, live claims undisturbed, one outcome, no silent loss without a fault, every stored delivery settled |
| `wh_lost` | 1 delivery, 1 crash | **violation**: an event recorded but never evaluated, its delivery marked processed |
| `intake_replay` | four parts: 1 delivery and its replay in 2 slots; 6 scenarios of reviews; rounds over 2 issues or 3 alerts; 5 scenarios of up to 3 starred repositories | replayed and original evaluate once; the newest commit is reviewed and commented on once, a drained process is quiet; no change passed over, no open alert withdrawn, no archived repository revived; no release passed over untold, no tracker switched against the user |
| `review_comments` | the reviews of `intake_replay` | **violation**: a manual review of a commit comments on it again |
| `reconcile_untold` | a round over 1 issue, no fault | **violation**: an issue opened during a round is told neither by the round nor by its webhook |
| `lease_shutdown` | the lease of `replicas`, no fault | **violation**: a task returns in a graceful shutdown and its lease is not released |
| `digest_replicas` | 2 replicas, 9 ticks (three days of two-hour "days" in half hours), 1 event, 1 toggle, 1 fault | the digest goes out, the ledger means queued, events covered, nothing after booking |
| `digest_weekly` | 1 replica, 2 events | **violation**: the weekly report covers a few hours |
| `jev_plane` | 2 requests, threshold 2, 1 probe, 2 slots, 1 retry; 2 callers, 2 calls, 2 flights of one key | probes counted, only fresh answers close, a half-open breaker admits again; every waiter answered |
| `rules_storm` | four parts: 3 or 4 events in 5 scenarios of the aggregator; a channel's quiet hours over two days; failover of 2 rows among 4 channels by 2 workers; 2 buttons clicked by two people next to the page | events accounted for, one row each, on their own channels; rows due exactly at the end of quiet hours and diverted from a dead channel in time; refinement of `OperatorAction`, one holder, nothing stranded |
| `rules_burst` | the aggregator of `rules_storm` | **violation**: a critical event waits behind a summary made for another |

`replicas`, `intake_replay`, `rules_storm` and `jev_plane` put components that share no
variable into one instance.  A variable `part`, chosen at the start and kept, lets
one of them move while the others rest in one of their initial states, so that what
is explored is the sum of the parts and not their product, and a property about one
part means the same as in an instance of its own.

### Why the bounds are enough

Ownership is a matter of two claims on one row, so two workers and one row show
every overtaking; three faults allow a lapse, a lost mark and a crash in one
behaviour, two attempts make the last one differ from the first.  Rows interact
only through batch and channel order, which no property is about.  For deliveries,
two replicas and one row give redelivery against recovery against an expired
claim; a replay is the second copy of a body.  The lease needs two contenders and a
third process to take over from a crash; TTL 4 is the smallest with room for a
heartbeat and a late one (`Heartbeat + Delay < TTL`).  The digest's clock is the
smallest on which an hour has an inside (two ticks) and a day has hours outside the
window; three days hold two successive windows and the day after.  Of two requests
one can be a straggler of an older generation while the other opens, probes and
closes the breaker; two callers and two calls give the call that was forgotten
beside the one that replaced it.

`MCRules`. The aggregator runs in scenarios, since each hazard needs another mix of
the same few events: a burst that folds (threshold 1); four events that fill two
batches of one process, or of two, in one time bucket; a bucket opened after another
one's timer has fired; three events, of which one is routed by Jev, with a switch, a
crash or a database error. Time has three bucket ends, batches two places. The quiet
hours run over two days of four steps with every pair of borders, those over
midnight and the empty one included. Two rows and two workers let one worker give up
a channel the other still takes for healthy; of the channels one falls back on a
working one and one on a misconfigured one; eight attempts are the code's
`maxAttempts`, more than the threshold of two takes at both workers, with room for
one trouble: a recovery, a restart, a lost mark, or a channel or fallback that could
not be read. Clicks differ only in who presses: one is Alice's, one Bob's, and one
comes from the page, so that two meet on a token and one comes back after a release;
an unbound low-risk and a bound high-risk button reach every verdict.

`MCIntake`.  Reviews run in scenarios of at most two pushes, one redelivery, one
manual request, one error and one shutdown, in the combinations where they
meet.  A page of one entry makes a list slide under its reader as soon as
something is updated or vanishes; two pages for three alerts also show a list cut off
by the bound of pages.  Two changes and one mishap (lost webhook, error, crash)
suffice for everything a round can miss; they begin with a baseline of what is there
already, or active and empty, for the alerts with one still to come; the issues get
two rounds, because what a cursor passed over shows only in the next.  Releases come
two to a page, and two may be told in a round: the first scenario has three of six ids
published, so that a poll meets its limit, a second page, and a release published
meanwhile, be it the youngest, a draft or a prerelease; the others have a synchronisation with a limit of two trackers, pages of one star and a list longer than
the bound of pages, two synchronisations that register one repository, and a
synchronisation next to a poll of a repository that changes or vanishes.  Budgets of
one or two for each kind of event suffice, since every excuse of the properties was
found with them.

CHECK_DEADLOCK is off where the bounds end the behaviour (clock, boots, clicks,
row lives); a real deadlock of a worker would show in the liveness properties.

### Properties that need a word

* `DuplicatesNeedFaults` (`acked <= 1 + Charged`) is the exact form of
  "at-least-once": every duplicate is paid for by a crash, a failing claim, a lost
  mark, a lease that ended too soon, or an answer of the channel that never came. The
  last needs nothing to go wrong on this side: `worker.go:751` takes a timeout for a
  message not delivered.
* `SilentLossNeedsFault` limits the finding `wh_lost`: without a fault no event is
  lost, whichever leases run out.
* `OneReplicaRuns` is about tasks with a live context. It is conditional on
  heartbeats never later than `Delay`, because a task that lost its lease works on
  until its next heartbeat, and no write checks the fencing token.
* `DigestSent` and `EventsCovered` exclude faults, subscription changes and windows
  that cross midnight, and ask for a replica that was up before the window opened;
  `EventsCovered` excludes skipped ticks, after which the daily digest's fixed 24
  hours leave a gap.  What `DigestSent` promises is promised to each channel: one
  that ignores bots waits for an event of somebody else, also where empty digests
  are wanted, because the code drops its row when nothing is left for it.
* `NothingStranded` is for behaviours without faults: with them the code burns the
  token rather than risk a second effect.
* `ClosedMeansAnswered` is stronger than "the prober answered": stragglers sent
  before the opening may succeed at any time and must not count.
* `NobodyForgotten` gives the waiters no deadline of their own; the answer may be
  the error of another caller's call (section 4).
* `EventsAccounted` excuses what the code drops knowingly (filters, switches, Jev,
  trouble) and one case it drops unknowingly: `Crowded`, another replica's batch or
  summary has taken the key of the same time bucket. TLC finds it without the
  excuse.
* `DivertedInTime` counts the attempts a row may lose before its channel is given
  up: the threshold of every worker, since each counts for itself, and again for
  each recovery and restart; besides, each lost mark and restart takes one attempt
  (`losses`), and so does each time the channel or its fallback could not be read
  (`unrouted`).  It is not about rows a fallback refused, nor about rows whose own
  channel is misconfigured.  `RouteMap` maps a channel to no channel
  where the configuration routes it to itself, which diverts nothing.
* `CursorCovers`, `WithdrawnMeansGone` and `StatusKept` say what a round promises
  about changes it could see. They excuse what moved while the list was read
  (`moved`, alerts that came or slid up the list), a list longer than the bound of pages, the change a webhook loses or
  brings late, and for `StatusKept` the moment between the second look and the
  write. Each excuse is needed: TLC shows the behaviour without it (section 4).
* `ReleasesTold` says that whatever cursor or ETag keeps from being looked at again
  was told. It excuses what a baseline skips on purpose, what is recorded but not
  evaluated when a round dies in between, and what GitHub shows out of order: a
  draft published behind a younger release, or behind the cursor of a row or of a
  round that has read one, or a list that slides under its reader.
* `DisabledIsTheUsers` is about both directions: a synchronisation disables only
  what a complete list lacked (or what slid between two pages of it), and what the
  user has switched off stays off, unless a round was under way that had read the
  row before.
* `DrainedMeansQuiet` holds once a tracker existed when it was stopped; before the
  first review there is none to stop.

### Fairness

Only what the code's own loops provide. `Outbox`: each worker's ticker
(`WorkerStep`), the end of leases and backoffs; no crash, retry, retention or
creation is owed. `WebhookDelivery`: goroutines run, the recovery worker ticks, a
shutdown ends, time passes; GitHub owes no redelivery. `LeaseLiveSpec`: the
clock, the scheduler's ticker (`Start`), the heartbeat goroutine, and the end of the
task, which the 30-minute `scheduledTaskTimeout` enforces. All weak: every one of
these steps stays enabled until it is taken or its purpose is gone. `JevBreaker`: a
request ends, because its context has a deadline; nobody is obliged to ask.
`JevFlights`: goroutines run; strong fairness for the runner, whose last step waits
for a mutex that callers keep taking and that is not withheld for ever.
`Aggregator`, `QuietHours`, `Failover`, `CodeReview`, `Reconcile` and `Starred` are
checked for safety only; "in time" is counted there in attempts and time buckets.

## 4. Findings

Each is a run TLC finds violated, with the sentence of the repository it
contradicts (`PROJECT.json` "findings").

1. `wh_lost`: after a crash between the item's write and the evaluation, the
   recovered delivery meets its own write, is taken for stale and marked processed
   (`normalizer/process.go:658`, against `webhooksvc/service.go:193`).
2. `review_comments`: the report is overwritten before the comment looks in it for
   an earlier one, so every manual review of a commit comments on it again
   (`webhooksvc/code_review.go:376`, against `:457`).
3. `lease_shutdown`: a task has returned, the shutdown has cancelled the context
   that `Release` is then called with, and the call leaves the row as it was: the
   lease of a finished run stays taken (`syncx/lease_runner.go:150`, against `:67`).
4. `digest_weekly`: events are taken from the send day's midnight
   (`digest/generator.go:108`, against `:93` and the text at `:123`).
5. `rules_burst`: a critical event folded into a burst is told of only by a summary
   that waits for the morning (`rules/aggregate.go:294` and `:679`, against
   `CHANGELOG.md:94`).
6. `reconcile_untold`: a round that stores a new issue before its webhook arrives
   makes an event `updated`, which real-time notification drops, and leaves the
   webhook nothing newer to report (`syncx/reconcile.go:414`, `rules/engine.go:500`,
   against `docs/features.md:34`).  Alerts stored by a round make no event at all
   (`saveAlerts`), so a late webhook of an alert is lost to the same effect, though
   `engine.go` wants every alert told.

Observed while modelling, and not runs of their own:

* **Stores.** `DeleteTerminalOlderThan` deletes by id what was terminal a moment
  ago, a row queued again in between included (`store/domain_stores.go:2576`,
  against `domain.go:781`). `UpsertIfNewer` reads, compares, then updates by id: of
  two writers the older may win (`:1147`, against its comment at `:1141`).
* **JEV client**, each seen in a trace of TLC. A caller that finds a flight alive
  and joins it while its last waiter leaves gets that waiter's cancellation
  (`jev/client.go:328`, nine states, against the comment at `:311`); an answered
  waiter that has not yet counted itself out lets a query run on for nobody; a late
  `Forget` removes a newer call, so that two queries of one key run; a flight made
  between the runner's `delete` and the end of its call stays behind, and gives a
  later request a shortened budget. `TripOpen` overwrites the configured cooldown
  for good (`breaker.go:274`, against the 30 seconds of
  `docs/guide/jev-operations.md:92`).
* **Aggregator.** Two replicas' batches of one category and time bucket share an
  idempotency key, and the second is dropped with a log line (`enqueueMerged`). A
  folded event whose channels are not the summary's is told of on none.
  `burstNotified` is set before the summary is written, so one failed write silences
  the burst. A batch whose events name no channels falls back on every channel that
  accepts them. Batches and summaries do not look at the emergency mute. `FlushAll`
  has no caller outside tests: a shutdown loses open buckets.
* **Failover.** A diverted channel comes back only when a send on it succeeds, which
  nothing tries while it is diverted; the fallback's subscription is compared with a
  payload field, `event_kind`, that nothing sets; a misconfigured fallback ends rows
  whose own channel works again.
* **Reviews.** Debouncer and tracker are made on first use without a lock
  (`service.go:285`): two of either can exist, and a stop before the first review
  stops nothing (against `app.go:90`). A manual request cancels the pending review
  of a newer commit and may then fail, so that the newest is not reviewed. The
  report's head may differ from the diff that was fetched; of overlapping reviews
  the older may write last; what waits in the debouncer is lost at a crash.
* **Rounds.** The cursor moves to the round's end, so changes that a slow round or
  the bound of 200 pages passed over are never listed again; an alert withdrawn
  because it slid between pages stays so until GitHub updates it; an archive or
  deletion between the second look and the write is undone (`reconcile.go`,
  `finalizeSyncState`).  A round over all repositories takes three times its limit of
  rows, never synchronised ones first, and passes over the archived, unavailable and
  unmonitored without dating them (`reconcile.go:918`): as many of those as it takes
  rows, never synchronised, keep every other repository waiting, which is what the
  order was chosen to avoid (`store/domain.go:617`).
* **Starred releases.** A poll stops at the first id not above the cursor, so a
  draft published after a younger release hides that one, and moves the cursor back
  (`starred.go:532`, against the comment at `:527`). A repository that vanishes
  between two pages has its cursor moved past what the second page had. A tracker
  marked unavailable is never tracked again by a synchronisation, which the comment
  at `:477` promises: it lists only trackers it does not know or that are inactive.
  The user's switch is overwritten by a round that had read the row: a probe sets it
  to tracking, a poll to inactive or unavailable. When two replicas register one
  repository, the second begins its row anew and probes for an id no row has, so
  that the next poll takes a new baseline and skips what was published meanwhile, as
  does every return from inactive. A repository that slides between two pages of
  stars is switched off though starred, and starring it again does not switch it on.
  An event whose evaluation fails is not evaluated again.
* **Elsewhere.** A lost lease is noticed at the next heartbeat and its fencing token
  is used by no write; a send time after 23:00 cuts the digest window at midnight
  (`generator.go:183`); a digest that failed is tried again after an hour, when its
  window is over (`scheduler.go:217`); tokens issued for 2 and 24 hours get at most
  15 minutes (`store.go:95`), so that claims (1 hour) are swept after them; the
  receipt of a rerun is keyed by the run id, which a rerun keeps
  (`executor.go:160`); a pending receipt left by a crash answers "in progress" for
  90 days.

## 5. Proofs

All theorems hold for every value of the constants that the modules' `ASSUME`s
admit, any number of replicas, rows, faults and (where bounded only for TLC)
tokens and boots.

**Outbox.** `HolderUndisturbed` is not inductive: a stale item with the row's token
could do anything.  `IInv` adds that a token names one item and at most one row
(`TokensUnique`, from the freshness of `NewToken`), that the item whose token the
row carries is its current delivery (`CurrentClaim`: sending, same attempt, lock
not free, an expired lock means a lapsed item), that accepted items were counted,
and for the retry bound that a row waiting for a claim has a try left or a fault
took one (`TriesLeft`).  `OutboxProofs` splits it into facts about items, facts
about rows, and one lemma per kind of change (fewer items, a claim, a send, a
mark, a lapse).  `LeaseProtects`, `SentIsAccepted`, `DeadIsExhausted`,
`TriesAreBounded`, `TypeCorrect` follow.  `DuplicatesArePaid` is a count: the
items of a row that may still be sent and its acceptances together are at most
`1 + Charged` (`SendsPaid`), since a new claim of a row with a late item in hand needs
a lapse, which a fault pays for, and an item sent without an answer is paid for by
that (`OneLiveClaim`, and the cardinality theorems).

**Refinement.** `OutboxImplementsQueue`, also in `OutboxProofs`, maps `pending` and `sending` to queued, the
accepted rows to those with `acked > 0`, and the retention job's list to `doomed`.
It needs `IInv` and that no item refers to a row not yet created.  A claim, a
backoff, a lease change stutter; a send accepts; a mark records, gives up or
stutters.

Four more modules are shown to implement an abstract one, each step by step: initial
states map to initial states, every step to a step or a stutter.
`DeliveriesImplementIntake` needs of `WebhookDelivery` the invariant below: a mark
that succeeds is of a row still processing that was attempted; an event is recorded
by one task, which alone may tell the evaluator of it.
`TaskImplementsLease` assumes `Timely`: a live lease can end under a task at work
only by a late heartbeat, because what is left of a heartbeat's slack is less than
what is left of the lease (`WriterOutlived`); `LeaseExcludes` derives from
`TaskLease` alone that only the holder runs while nothing lagged.
`ReportsUseLease` is the other side: what runs, stops and lapses in `Digest` is what
`TaskLease` allows (`RunsKept`), so that the theorems about the reports rest on a
lease the scheduler implements.  `ActionsReliable` maps the receipts, their effects
and the answers given, with the counters bounded from below (`Counted`);
`ActionIsReliable` is the promise of the abstract action.
`AggregatorImplementsNotices` uses that rows are apart from what is in memory, of
the channels of their batch, and one per event and channel (`Written`):
what is still in memory or behind a summary has no row, so rejecting or summarising it
takes nothing back, and each write tells a channel of events it has not heard of.
`NoticesFaithful` is what follows for every behaviour of `EventNotices`.

**WebhookDelivery.** `IInv` says that tokens are claim numbers, unique per row,
that the current claim's row is processing under a lease at least as live as the
task thinks, that whoever inserted an event row is the only task about to hand it
over (`RecordedOnce`), and that a doomed row has its reason (`DoomJustified`).
Steps are classified by shape (moved, claimed, settled, deleted, created, aged)
and each conjunct is proved per shape.  `SettledForGood` is the action property.
`OnlyFaultsLose` follows an event through its task while no fault has happened
(`NothingLost`): whoever finds a version no older than its own finds the event of a
task that still has it in hand, handed it over or settled its delivery
(`StoredAccounted`, `StaleAccounted`).  It assumes `InitialsOlder`, that what
was stored before is older than what is delivered.

**Code reviews.** `ReviewIInv` is the types and that what is scheduled or entered in
a tracker has a head (`HeadsKnown`).  `NewestHeadReviewed` adds only that no debouncer
is halted before `App.Close` stops it (`NotHalted`): a head that waits is at one of the
stations from the webhook to the report.  `CommentedOnceByHead` needs that, while only one tracker was made, each
review has its head entered there alone (`OneTracker`), that a review which comments
has stored its report first (`StoredFirst`), and that a head an automatic review
commented on has a report, at which later automatic reviews end (`CommentedHeads`).
`ClosedMeansQuiet` rests on the tracker that was stopped being the one that is waited
for, if it is the only one (`StopsAndWaits`).

**Reconciliation.** `WithdrawalsJustified` says that an alert open on GitHub is
withdrawn only if it came or slid while a round listed the alerts: until then every
open alert is on a page still to be read or among those the round has seen
(`PagesRead`).  `CursorPassesNothing` is about two rounds: of what changed since the
cursor, each is in the round's hand, on a page to come, no older than what the next round
will ask for, or on record as missed (`Covered`, `IssuesRead`, `UnseenAccounted`), and
the round asks from the cursor its row has (`AsksFromCursor`).  The place of a subject in a list is the number of those in front
of it, so that "on a page to come" is a fact about cardinalities; the lists are finite
and have a first element by the well-founded order of the naturals, used for one
set at a time.  `StatusKeptByRounds` is the action property.

**Starred releases.** `StarredInv` is the types and, for each round under way, that
what it has in hand fits the branch it is in (`Sound`).  `Paired` says that a row's
ETag is of a page whose first entry is its cursor.  With it, `SwitchedOffStays`
needs only that what a synchronisation has not come across stands further down the
list of stars (`Listing`), and that a tracker the user switched off while nothing was
under way is in no round's hand (`Hands`).  `EveryReleaseTold` follows a release that
waits to be told (`Waiting`): GitHub lists it behind younger ones only, it is above
the row's cursor and the one a round has read, above the newest id too when the round
is about to write that as the cursor, and what the poll read past is in hand or on a
page to come (`Tells`); a release recorded is being evaluated or excused (`Heard`,
`AtHead`).  The lemmas under it are about
lists without repetition, their pages, and what is cut out of or put into them.

**LeaseRunner.** `TokensFenceAlways` rests on distinct process ids and on the row
holding the newest token granted.  `MutualExclusion` and `NoNeedlessInterrupt`
assume `Timely` (`Heartbeat + Delay < TTL`) and use `WriterHolds`: a task with a
live context holds the row, and the time left exceeds the slack of its heartbeat.
`LiveLeaseKept` is the action property.  `RunsEndTheirLease` needs no timing: a row
held by a replica at work carries the token of its run (`RunOwnsRow`), so that its
`Release` ends exactly that lease.

**Digest.** `ServeInv` says that of the channels a run is to serve, those no longer
on its list have their row, and the same for what the ledger books; together with
`HolderWorks` (a run that has not lapsed holds the lease, hence is alone) it gives
`LedgerMeansQueuedAlways` and `NoBackfillAlways`.  `DigestSentAlways` says that a
window cannot pass unused.  Its invariant `SentIInv` adds that a run started when its
replica's ticker was set anew (`OnTime`), the lease is with a run at work or free
(`LeaseKept`), a run at the digest still has in hand each channel it owes a row, and
a run past it owes none (`RunSound`), that what is booked was served (`BookedServed`),
and the heart of it: once the window of a day is open, its channels are served, or a
run for it is under way, or some replica has yet to tick inside it (`WindowUsed`).  `EventsCoveredAlways` then follows an event from day to
day: `CoverIInv` says that a run at the digest has read every event of its 24 hours
(`Sweeps`), that events and bookings lie in the past, that a row of the digest is
booked or of a run about to book it (`RowBooked`), that the day last booked was swept
by a ticker that still beats (`BookedSweeps`), and that each event is in a row, with a
run, or before the window that will take it (`Planned`).  Both are arithmetic on ticks, hours and days for
every length of either, with lemmas that a time lies in one day and in one hour.

**ChatOps.** `IInv` says that a click in hand of a key has actor, token and key
known, a holder's token is not fresh, one click at most executes under a key and
then its receipt is pending, an effect not doubtful is behind a receipt or a click
that has not sent again (`Unsent`, `Settled`), and answers are backed by
effects (`Proven`).  That without faults a claimed token and a pending receipt have a
click at work on them (`TokensTied`, `ReceiptsTied`) gives `NothingStrandedAlways`.
One leaf per action and conjunct.  `EffectOnceAlways` is a theorem only; the run
checks the refinement instead, which says more.

**JEV.** `IInv` adds where permits are (none before `Acquire`, none current while
the breaker is open) and that a probe which was sent was sent since the opening
(`ProbesFresh`); the probe counter equals the number of current permits, by the
cardinality lemmas for one holder more, one fewer, and the first one.  For the shared
requests, `FlightInv` says that a flight's counter is the size of its party
(`WaitersCounted`), that nobody refers to a free flight, and which callers hold one.
Two theorems are the safety cores of the liveness TLC checks.  `PlacesComeBack`: a
half-open breaker that counts a probe has a request under way that will give the place
back, so that no cancelled or rate-limited request shuts its plane off
(`HalfOpenAdmits`).  `EverybodyAttended`: whoever waits on a shared request has its
answer or a call at work for its flight (`Attended`), whatever a Forget, a newer call
or the last waiter of another flight does (`NobodyForgotten`).

**Aggregator.** `AggInv` follows each event that was taken on. It is at one place of
its replica's memory (`Homed`, `Opened`, `Placed`); rows are apart from what is in
memory, have the channels of their batch, and no event has two on one channel
(`Written`); a flush under way is due, and a bucket has one or a timer (`Clocked`);
without faults every channel of an event whose batch was written is told, left by
choice, or crowded out (`Traced`), and a burst's mark has its summary (`Said`, which
needs a channel). Steps are proved per replica (`At(r)` predicates) with a lemma
that nothing changes elsewhere. `EventsAccounted`, `OneRowPerEvent`,
`RoutesRespected` and `FlushPending` follow, and `WindowKept` as an action property.

**Quiet hours, failover.** `Decided` keeps with the row what it was decided from, and
`DeferredExactlyAlways` is then arithmetic on days and minutes.  `FailoverInv` adds to
the types that a row in flight has a worker and a channel, and bounds its attempts.
`OutagesDiverted` pays for each attempt of a row on its own channel by what some
worker has counted of that channel: `Paid` bounds the tries by these counts, by what
recoveries and restarts have wiped out, by the attempts that lost marks and failed
reads took (`Granted`), and by the attempt under way, whose worker has not given the
channel up (`HeldIfSending` names the worker).

**Only model-checked.** All liveness (`EventuallySettled` of `Outbox` and of
`WebhookDelivery`, `TaskRunsAgain`, `HalfOpenAdmits`, `NobodyForgotten`), because TLAPS
has no rules for fairness and ENABLED; of the last two the safety core is proved.
Where a run expects a violation there is nothing to prove.  Every invariant and action
property of a passing run is a theorem.

**Only proved.** `ImplementsLease`, `UsesLease` and `ImplementsNotices` are no
property of a run: each was checked on the instance of its component before it was
proved, and the properties that the runs keep there would break first.

The theorems assume of the constants what the modules' `ASSUME`s say and no bound of
a run.  Proving them found statements that hold in the runs and not beyond: a promise
of `DigestSent` to channels that ignore bots, rows on misconfigured channels in
`DivertedInTime`, and a draft published behind the cursor a round had read in
`ReleasesTold`.  Each is stated above as it is true of the code.

## 6. Plan

Done, in this order: outbox and its abstract queue; deliveries and pipeline; task
lease; digest; operator actions; JEV requests; aggregator, quiet hours and failover;
code reviews; reconciliation; starred releases.  Left, most important first:

1. External polls (`syncx/external.go`), whose rounds have the shape of `Reconcile`.
2. The rest of the normalizer: workflow runs, alerts, releases, installations, over
   the delivery protocol of `WebhookDelivery`; the workflow runs of `Reconcile`.
3. The rest of the JEV client: replacement of a plane's client under way
   (`Runtime.Replace`), a run for the cancellation a joining caller inherits.
4. The rules engine's triage and token issue, between `EventIntake` and `EventNotices`.
5. `Sessions` and the login limiter; the SSE hub; caches and key rotation.
6. Proofs: that `Failover` fills in the attempts of `Outbox`.  Its `NewRow` reuses a
   row that is done, so the mapping needs a history of rows; and an abstract review of
   a pull request for `CodeReview`, as one commit from push to report.

Small components that share no state share an instance; each run stays under four
minutes with two workers, with 10^5 to 3 * 10^6 states.

## 7. Not modelled, and why

* Pure I/O and presentation: start-up, command line, configuration parsing,
  statistics, web console, most of the HTTP API, message formatting, feedback in
  the chat.  They keep no shared state an invariant could be about.
* Calls to remote systems (GitHub, chat platforms, language models): present as
  outcomes (accepted, refused, unknown) in the models that make them.
* Cryptography (envelope encryption, signatures, password hashing, TOTP).
* `store/ent`: generated.  The stores' transactions are the atomic steps of the
  models; isolation is that of a row-level UPDATE with a WHERE clause, which all
  two databases give.
* Components of the inventory that the plan names and no module has yet.
