----------------------------- MODULE Aggregator -----------------------------
(***************************************************************************)
(* From an event the normalizer let through to rows of the outbox: the     *)
(* aggregator (rules/aggregate.go) and the part of the rules engine that   *)
(* writes what it flushes (rules/engine.go, rules/jev_notification.go).    *)
(*                                                                         *)
(* One repository and category, that is one key of buckets, bursts and     *)
(* burstNotified.  Each replica keeps its own of these in memory, under    *)
(* its mutex a.mu; the replicas share the settings, the channels and the   *)
(* unique idempotency keys of the outbox.  Evaluate answers nil once an    *)
(* event is in a bucket, so from there on the memory of one process is the *)
(* only thing that stands for it.                                          *)
(*                                                                         *)
(* Bounds: now stops at `horizon', at most MaxEvaluating events are evaluated *)
(* at once, and at most `budget' switches are turned, crashes and database *)
(* errors happen.                                                          *)
(***************************************************************************)
EXTENDS Integers, FiniteSets

CONSTANTS
    Replicas,
    Events,
    Channels,        \* all of them subscribe to the kind of the events
    NoOne,
    Filters,         \* event -> channels whose static filter lets it through
    Critical,        \* events that pierce the quiet hours, isCriticalSecurityAlert
    Quiet,           \* channels in their quiet hours, see QuietHours
    Window,          \* notify.aggregate_window_sec
    BurstWindow,     \* notify.burst_window_sec
    MaxBatch,        \* maxBucketBatch
    Scenarios,       \* what an instance starts from, see AggInit
    MaxEvaluating

ASSUME AggregatorAssumption ==
    /\ NoOne \notin Events \cup Replicas
    /\ Filters \in [Events -> SUBSET Channels]
    /\ Critical \subseteq Events /\ Quiet \subseteq Channels
    /\ Window \in Nat \ {0} /\ BurstWindow \in Nat \ {0}
    /\ MaxEvaluating \in Nat \ {0} /\ MaxBatch \in Nat \ {0}
    /\ Scenarios \subseteq [home : [Events -> Replicas \cup {NoOne}], threshold : Nat \ {0},
                        judged : SUBSET Events, horizon : Nat, budget : Nat]

VARIABLES
    now,
    feature,   \* the global switch of the kind
    muted,     \* an emergency mute of the repository is in force
    enabled,   \* channels that are switched on
    threshold, \* notify.burst_threshold
    judged,    \* events Jev has a verdict on: public repository, noise of bots
    horizon,
    budget,
    flips,
    troubles,
    outcome,   \* event -> where its Evaluate stands, or how it ended
    home,      \* event -> the replica that evaluates it, NoOne for none
    chans,     \* event -> prep.Channels
    stamp,     \* event -> when it was counted
    todo,      \* event -> channels its burst summary still has to reach
    slot,      \* event -> the time bucket in the key of that summary
    bucket,    \* replica -> events in its bucket
    first,     \* replica -> the event that opened the bucket: its identity
    armed,     \* replica -> the timer of the bucket is running
    fired,     \* replica -> buckets whose timer has fired, flush under way
    spawned,   \* replica -> buckets whose early flush is under way
    batches,   \* replica -> buckets taken out and being written
    bursts,    \* replica -> events in the sliding window
    notified,  \* replica -> burstNotified
    flushed,   \* replica -> flushedVariants
    outbox

settings == <<feature, muted, enabled, threshold, judged, horizon, budget, flips>>
perEvent == <<outcome, home, chans, stamp, todo, slot>>
buckets == <<bucket, first, armed, fired, spawned>>
counters == <<bursts, notified>>
aggVars == <<now, settings, troubles, perEvent, buckets, batches, counters,
             flushed, outbox>>

Kinds == {"realtime", "suppressed", "agg", "burst"}

(* What idempotencyKey hashes, apart from the channel: variant, time bucket, *)
(* and the event or the tag of the batch.                                    *)
RowKeys == [kind : Kinds, at : Int, tag : Events \cup {NoOne}]

Rows == [ch : Channels, key : RowKeys, events : SUBSET Events, muted : BOOLEAN, deferred : BOOLEAN]

Batches == [items : SUBSET Events, stage : {"taken", "single", "merged"},
            key : RowKeys, left : SUBSET Channels, muted : BOOLEAN]

AggTypeOK ==
    /\ horizon \in Nat /\ now \in 0..horizon
    /\ feature \in BOOLEAN /\ muted \in BOOLEAN
    /\ enabled \subseteq Channels
    /\ threshold \in Nat \ {0} /\ judged \subseteq Events
    /\ budget \in Nat /\ flips \in 0..budget /\ troubles \in 0..budget
    /\ outcome \in [Events -> {"new", "prepared", "skipped", "refused", "suppressed",
                               "bucketed", "bursting", "announcing", "announced", "folded"}]
    /\ home \in [Events -> Replicas \cup {NoOne}]
    /\ chans \in [Events -> SUBSET Channels]
    /\ stamp \in [Events -> Nat]
    /\ todo \in [Events -> SUBSET Channels]
    /\ slot \in [Events -> Int]
    /\ bucket \in [Replicas -> SUBSET Events]
    /\ first \in [Replicas -> Events \cup {NoOne}]
    /\ armed \in [Replicas -> BOOLEAN]
    /\ fired \in [Replicas -> SUBSET Events]
    /\ spawned \in [Replicas -> SUBSET Events]
    /\ batches \in [Replicas -> SUBSET Batches]
    /\ bursts \in [Replicas -> SUBSET Events]
    /\ notified \in [Replicas -> Int]
    /\ flushed \in [Replicas -> SUBSET Int]
    /\ outbox \subseteq Rows

AggInit ==
    /\ now = 0
    /\ feature = TRUE /\ muted = FALSE /\ enabled = Channels
    /\ flips = 0 /\ troubles = 0
    /\ outcome = [e \in Events |-> "new"]
    /\ \E s \in Scenarios : /\ home = s.home /\ threshold = s.threshold
                           /\ judged = s.judged /\ horizon = s.horizon /\ budget = s.budget
    /\ chans = [e \in Events |-> {}]
    /\ stamp = [e \in Events |-> 0]
    /\ todo = [e \in Events |-> {}]
    /\ slot = [e \in Events |-> 0]
    /\ bucket = [r \in Replicas |-> {}]
    /\ first = [r \in Replicas |-> NoOne]
    /\ armed = [r \in Replicas |-> FALSE]
    /\ fired = [r \in Replicas |-> {}]
    /\ spawned = [r \in Replicas |-> {}]
    /\ batches = [r \in Replicas |-> {}]
    /\ bursts = [r \in Replicas |-> {}]
    /\ notified = [r \in Replicas |-> -1]
    /\ flushed = [r \in Replicas |-> {}]
    /\ outbox = {}

-----------------------------------------------------------------------------
(* The outbox: Create refuses a second row with the key of a first one.    *)

Key(kind, at, tag) == [kind |-> kind, at |-> at, tag |-> tag]
Row(c, key, es, m, d) ==
    [ch |-> c, key |-> key, events |-> es, muted |-> m, deferred |-> d]

(* DecideQuietHoursForEvents: one critical event pierces for its batch.    *)
Deferred(c, es) == c \in Quiet /\ es \cap Critical = {}

Conflict(c, key) == \E row \in outbox : row.ch = c /\ row.key = key

Create(rows) == outbox' = outbox \cup {row \in rows : ~Conflict(row.ch, row.key)}

Evaluating == {e \in Events : outcome[e] \in {"prepared", "bursting", "announcing"}}

TimeBucket(t, w) == t \div w

Trouble == troubles + flips < budget /\ troubles' = troubles + 1

-----------------------------------------------------------------------------
(* Evaluate, up to the mutex: the switches, then Jev's verdict.            *)

Prepared(e, to, sel) ==
    /\ outcome' = [outcome EXCEPT ![e] = to]
    /\ chans' = [chans EXCEPT ![e] = sel]
    /\ UNCHANGED <<now, settings, home, stamp, todo, slot, buckets, batches, counters, flushed>>

PrepareSkipped(e) ==
    /\ ~feature
    /\ Prepared(e, "skipped", {})
    /\ UNCHANGED <<troubles, outbox>>

PrepareRefused(e) ==
    /\ feature
    /\ Trouble
    /\ Prepared(e, "refused", {})
    /\ UNCHANGED outbox

(* Jev may narrow the channels the filters leave, but not to none.         *)
Selections(e) ==
    LET static == Filters[e] \cap enabled
    IN IF e \in judged THEN ((SUBSET static) \ {{}}) \cup {static} ELSE {static}

PreparePassed(e) ==
    /\ feature
    /\ \E sel \in Selections(e) : Prepared(e, "prepared", sel)
    /\ UNCHANGED <<troubles, outbox>>

PrepareSuppressedGoesOn(e) ==
    /\ feature
    /\ e \in judged /\ Filters[e] \cap enabled # {}
    /\ \E sel \in Selections(e) :
        /\ Prepared(e, "prepared", sel)
        /\ Create({Row(c, Key("suppressed", 0, e), {e}, FALSE, FALSE) : c \in sel})
    /\ UNCHANGED troubles
(* The verdict to suppress counts only with its rows: a transaction that   *)
(* fails is rolled back and the event goes on as if it had passed.         *)
PrepareSuppressed(e) ==
    /\ feature
    /\ e \in judged /\ Filters[e] \cap enabled # {}
    /\ \E sel \in Selections(e) :
        LET rows == {Row(c, Key("suppressed", 0, e), {e}, FALSE, FALSE) : c \in sel}
        IN \/ Prepared(e, "suppressed", sel) /\ Create(rows) /\ UNCHANGED troubles
           \/ Prepared(e, "prepared", sel) /\ Trouble /\ UNCHANGED outbox

-----------------------------------------------------------------------------
(* Evaluate, under the mutex.                                              *)

Recent(r, t) == {x \in bursts[r] : t - stamp[x] <= BurstWindow}

Count(e, to) ==
    LET r == home[e] IN
    /\ outcome' = [outcome EXCEPT ![e] = to]
    /\ stamp' = [stamp EXCEPT ![e] = now]
    /\ bursts' = [bursts EXCEPT ![r] = Recent(r, now) \cup {e}]
    /\ UNCHANGED <<now, settings, troubles, home, chans, todo, slot, batches, flushed, outbox>>

Bursting(r) == Cardinality(Recent(r, now)) + 1 > threshold

(* Above the threshold only the first event of a time bucket makes a       *)
(* summary; the mark is set before the summary is written.                 *)
Fold(e) ==
    /\ Bursting(home[e])
    /\ notified[home[e]] = TimeBucket(now, BurstWindow)
    /\ Count(e, "folded")
    /\ UNCHANGED <<buckets, notified>>

StartSummary(e) ==
    /\ Bursting(home[e])
    /\ notified[home[e]] # TimeBucket(now, BurstWindow)
    /\ Count(e, "bursting")
    /\ notified' = [notified EXCEPT ![home[e]] = TimeBucket(now, BurstWindow)]
    /\ UNCHANGED buckets

OpenBucket(e) ==
    LET r == home[e] IN
    /\ ~Bursting(r)
    /\ bucket[r] = {}
    /\ Count(e, "bucketed")
    /\ bucket' = [bucket EXCEPT ![r] = {e}]
    /\ first' = [first EXCEPT ![r] = e]
    /\ armed' = [armed EXCEPT ![r] = TRUE]
    /\ UNCHANGED <<fired, spawned, notified>>

EarlyFlush(r, n) == IF n >= MaxBatch THEN {first[r]} ELSE {}

(* A full bucket is flushed by a goroutine of its own; the timer is stopped, *)
(* which comes too late once it has fired.                                   *)
AddToBucket(e) ==
    LET r == home[e]
        full == Cardinality(bucket[r]) + 1 >= MaxBatch
    IN
    /\ ~Bursting(r)
    /\ bucket[r] # {}
    /\ Count(e, "bucketed")
    /\ bucket' = [bucket EXCEPT ![r] = @ \cup {e}]
    /\ armed' = [armed EXCEPT ![r] = @ /\ ~full]
    /\ spawned' = [spawned EXCEPT ![r] = @ \cup EarlyFlush(r, Cardinality(bucket[r]) + 1)]
    /\ UNCHANGED <<first, fired, notified>>

-----------------------------------------------------------------------------
(* The summary of a burst, after the unlock.                               *)

Summary(e, from, to) ==
    /\ outcome[e] = from
    /\ outcome' = [outcome EXCEPT ![e] = to]
    /\ UNCHANGED <<now, settings, home, chans, stamp, buckets, batches, counters, flushed>>

(* Without selected channels the summary goes to every enabled one.        *)
SummaryRead(e) ==
    LET targets == (IF chans[e] = {} THEN Channels ELSE chans[e]) \cap enabled IN
    /\ Summary(e, "bursting", IF targets = {} THEN "announced" ELSE "announcing")
    /\ todo' = [todo EXCEPT ![e] = targets]
    /\ slot' = [slot EXCEPT ![e] = TimeBucket(now, BurstWindow)]
    /\ UNCHANGED <<troubles, outbox>>

SummaryWrite(e) ==
    \E c \in todo[e] :
        /\ Summary(e, "announcing", IF todo[e] = {c} THEN "announced" ELSE "announcing")
        /\ todo' = [todo EXCEPT ![e] = @ \ {c}]
        /\ slot' = [slot EXCEPT ![e] = IF todo[e] = {c} THEN 0 ELSE @]
        /\ Create({Row(c, Key("burst", slot[e], NoOne), {}, FALSE, Deferred(c, {e}))})
        /\ UNCHANGED troubles

(* Evaluate answers with the error; the mark in burstNotified stays.       *)
SummaryFails(e) ==
    /\ \/ Summary(e, "bursting", "refused")
       \/ Summary(e, "announcing", "refused")
    /\ Trouble
    /\ todo' = [todo EXCEPT ![e] = {}]
    /\ slot' = [slot EXCEPT ![e] = 0]
    /\ UNCHANGED outbox

-----------------------------------------------------------------------------
(* flush.  A call names the bucket it was made for; the map may hold a     *)
(* newer one by the time it gets the mutex.                                *)

TimerDue(r) == now >= stamp[first[r]] + Window \/ now = horizon

TimerFires(r) ==
    /\ armed[r] /\ TimerDue(r)
    /\ armed' = [armed EXCEPT ![r] = FALSE]
    /\ fired' = [fired EXCEPT ![r] = @ \cup {first[r]}]
    /\ UNCHANGED <<now, settings, troubles, perEvent, bucket, first, spawned, batches,
                   counters, flushed, outbox>>

Taken(items, x) == [items |-> items, stage |-> "taken", key |-> Key("agg", 0, x),
                    left |-> {}, muted |-> FALSE]

ExpectsAny(r, x) == bucket[r] # {}
Expects(r, x) == bucket[r] # {} /\ first[r] = x

TakeBucket(r, x) ==
    IF Expects(r, x)
    THEN /\ bucket' = [bucket EXCEPT ![r] = {}]
         /\ first' = [first EXCEPT ![r] = NoOne]
         /\ armed' = [armed EXCEPT ![r] = FALSE]
         /\ batches' = [batches EXCEPT ![r] = @ \cup {Taken(bucket[r], x)}]
    ELSE UNCHANGED <<bucket, first, armed, batches>>

Flush(r, x) ==
    /\ \/ x \in fired[r] /\ fired' = [fired EXCEPT ![r] = @ \ {x}] /\ UNCHANGED spawned
       \/ x \in spawned[r] /\ spawned' = [spawned EXCEPT ![r] = @ \ {x}] /\ UNCHANGED fired
    /\ TakeBucket(r, x)
    /\ UNCHANGED <<now, settings, troubles, perEvent, counters, flushed, outbox>>

(* Batch b of r becomes b2, or is gone when nothing is left to write.      *)
Becomes(r, b, b2) ==
    batches' = [batches EXCEPT ![r] = (@ \ {b}) \cup (IF b2.left = {} THEN {} ELSE {b2})]

OnBatch ==
    UNCHANGED <<now, settings, perEvent, buckets, counters>>

(* One event goes back through the engine, which looks at the switches,    *)
(* the channels and the mute once more, and only then asks the AI.         *)
ReadSingle(r, b) ==
    /\ b.stage = "taken" /\ Cardinality(b.items) = 1
    /\ LET e == CHOOSE x \in b.items : TRUE
           left == IF feature THEN chans[e] \cap enabled ELSE {}
       IN Becomes(r, b, [b EXCEPT !.stage = "single", !.left = left, !.muted = muted,
                                  !.key = Key(IF muted THEN "suppressed" ELSE "realtime", 0, e)])
    /\ OnBatch
    /\ UNCHANGED <<troubles, flushed, outbox>>

(* The events of a batch that channel c gets: all of them that no channel  *)
(* was selected for, as p.Channels is nil then.                            *)
ForAll(c, items) == items
For(c, items) == {e \in items : chans[e] = {} \/ c \in chans[e]}

(* The second batch a process has in one time bucket is tagged with its    *)
(* first event; a batch of another replica has the same key on purpose.    *)
MergedKeyUntagged(r, b) == Key("agg", TimeBucket(now, Window), NoOne)
MergedKey(r, b) ==
    LET at == TimeBucket(now, Window)
    IN Key("agg", at, IF at \in flushed[r] THEN b.key.tag ELSE NoOne)

ReadMerged(r, b) ==
    /\ b.stage = "taken" /\ Cardinality(b.items) > 1
    /\ LET left == IF feature THEN {c \in enabled : For(c, b.items) # {}} ELSE {}
       IN Becomes(r, b, [b EXCEPT !.stage = "merged", !.left = left, !.muted = muted,
                                  !.key = MergedKey(r, b)])
    /\ flushed' = [flushed EXCEPT ![r] = @ \cup {TimeBucket(now, Window)}]
    /\ OnBatch
    /\ UNCHANGED <<troubles, outbox>>

(* One channel after the other; a row that is there already is passed over.*)
Write(r, b) ==
    /\ b.stage # "taken"
    /\ \E c \in b.left :
        /\ LET es == IF b.stage = "single" THEN b.items ELSE For(c, b.items)
           IN Create({Row(c, b.key, es, b.muted,
                          b.key.kind # "suppressed" /\ Deferred(c, es))})
        /\ Becomes(r, b, [b EXCEPT !.left = @ \ {c}])
    /\ OnBatch
    /\ UNCHANGED <<troubles, flushed>>

(* The list of channels cannot be read, or a row not be written: the error *)
(* is logged and the rest of the batch is gone.                            *)
FlushFails(r, b) ==
    /\ Trouble
    /\ batches' = [batches EXCEPT ![r] = @ \ {b}]
    /\ OnBatch
    /\ UNCHANGED <<flushed, outbox>>

-----------------------------------------------------------------------------
(* The environment.                                                        *)

(* Only events in the sliding window and first events need their time.     *)
Dated(e) == \E r \in Replicas : e \in Recent(r, now + 1) \/ first[r] = e

Tick ==
    /\ now < horizon
    /\ now' = now + 1
    /\ bursts' = [r \in Replicas |-> Recent(r, now + 1)]
    /\ stamp' = [e \in Events |-> IF Dated(e) THEN stamp[e] ELSE 0]
    /\ UNCHANGED <<settings, troubles, outcome, home, chans, todo, slot, buckets, batches,
                   notified, flushed, outbox>>

Switch ==
    /\ troubles + flips < budget
    /\ flips' = flips + 1
    /\ \/ feature' = ~feature /\ UNCHANGED <<muted, enabled>>
       \/ muted' = ~muted /\ UNCHANGED <<feature, enabled>>
       \/ /\ \E c \in enabled : enabled' = enabled \ {c}
          /\ UNCHANGED <<feature, muted>>
    /\ UNCHANGED <<now, threshold, judged, horizon, budget, troubles, perEvent, buckets, batches, counters,
                   flushed, outbox>>

(* A replica dies, or is shut down: nothing calls FlushAll.  The caller of *)
(* an Evaluate under way dies with it.                                     *)
ReplicaDies(r) ==
    /\ Trouble
    /\ outcome' = [e \in Events |->
           IF home[e] = r /\ e \in Evaluating
           THEN "refused" ELSE outcome[e]]
    /\ todo' = [e \in Events |-> IF home[e] = r THEN {} ELSE todo[e]]
    /\ bucket' = [bucket EXCEPT ![r] = {}]
    /\ first' = [first EXCEPT ![r] = NoOne]
    /\ armed' = [armed EXCEPT ![r] = FALSE]
    /\ fired' = [fired EXCEPT ![r] = {}]
    /\ spawned' = [spawned EXCEPT ![r] = {}]
    /\ batches' = [batches EXCEPT ![r] = {}]
    /\ bursts' = [bursts EXCEPT ![r] = {}]
    /\ notified' = [notified EXCEPT ![r] = -1]
    /\ flushed' = [flushed EXCEPT ![r] = {}]
    /\ UNCHANGED <<now, settings, home, chans, stamp, slot, outbox>>

Prepare(e) ==
    /\ home[e] # NoOne /\ outcome[e] = "new"
    /\ Cardinality(Evaluating) < MaxEvaluating
    /\ \/ PrepareSkipped(e)
       \/ PrepareRefused(e)
       \/ PreparePassed(e)
       \/ PrepareSuppressed(e)

Admit(e) ==
    /\ outcome[e] = "prepared"
    /\ \/ Fold(e)
       \/ StartSummary(e)
       \/ OpenBucket(e)
       \/ AddToBucket(e)

Progress(r) ==
    \/ TimerFires(r)
    \/ \E x \in Events : Flush(r, x)
    \/ \E b \in batches[r] : ReadSingle(r, b) \/ ReadMerged(r, b) \/ Write(r, b)

AggNext ==
    \/ \E e \in Events :
        Prepare(e) \/ Admit(e) \/ SummaryRead(e) \/ SummaryWrite(e) \/ SummaryFails(e)
    \/ \E r \in Replicas : Progress(r) \/ ReplicaDies(r) \/ \E b \in batches[r] : FlushFails(r, b)
    \/ Tick
    \/ Switch

AggSpec == AggInit /\ [][AggNext]_aggVars

-----------------------------------------------------------------------------
Buffered(e) ==
    \E r \in Replicas : e \in bucket[r] \/ \E b \in batches[r] : e \in b.items

Told(e, c) == \E row \in outbox : row.ch = c /\ e \in row.events

(* Another replica's batch of the same time bucket holds the key.          *)
Crowded(e, c) ==
    \E row \in outbox :
        /\ row.ch = c /\ row.key.kind = "agg" /\ row.key.tag = NoOne
        /\ \E x \in row.events : home[x] # home[e]

Announced(e) ==
    \/ \E row \in outbox : row.key.kind = "burst"
    \/ \E x \in Events : home[x] = home[e] /\ outcome[x] \in {"bursting", "announcing"}

(* An event Evaluate took on is in memory, in a row on each channel chosen *)
(* for it, or behind the summary of a burst.  Else a crash, a database     *)
(* error or a switch took it, or the row another replica made of its own   *)
(* events in the same time bucket: enqueueMerged only logs that conflict.  *)
EventsAccounted ==
    troubles = 0 /\ flips = 0 => \A e \in Events :
        /\ outcome[e] = "bucketed" /\ ~Buffered(e) =>
               \A c \in chans[e] : Told(e, c) \/ Crowded(e, c)
        /\ outcome[e] = "folded" => Announced(e)

(* A channel hears of an event at most once: an event is not written both  *)
(* alone and in a batch, nor suppressed and sent.                          *)
OneRowPerEvent ==
    \A r1, r2 \in outbox : r1.ch = r2.ch /\ r1.events \cap r2.events # {} => r1 = r2

(* No blackhole, no leak: an event that has channels of its own is written *)
(* for no other, whatever batch it travels in, and one that Jev suppressed *)
(* has its record on each of them.                                         *)
RoutesRespected ==
    /\ \A row \in outbox : \A e \in row.events : chans[e] # {} => row.ch \in chans[e]
    /\ \A e \in Events : outcome[e] = "suppressed" => chans[e] # {} /\ \A c \in chans[e] : Told(e, c)

(* A bucket leaves the map full or after its own window: a timer or an     *)
(* early flush of the bucket before it does not cut it short.              *)
WindowKept ==
    [][\A r \in Replicas : bucket[r] # {} /\ bucket'[r] = {} =>
         \/ Cardinality(bucket[r]) >= MaxBatch
         \/ TimerDue(r)
         \/ troubles' > troubles]_aggVars

(* Whatever order timers, early flushes and Evaluate get the mutex in, a   *)
(* bucket in the map has a timer running or a flush of its own on the way: *)
(* none is left behind with its events.                                    *)
FlushPending ==
    \A r \in Replicas : bucket[r] # {} => armed[r] \/ first[r] \in fired[r] \cup spawned[r]

(* A critical alert pierces the quiet hours of a channel, also behind the  *)
(* summary of a burst: not every summary it is folded into waits.          *)
CriticalPierces ==
    \A e \in Events : outcome[e] = "folded" /\ e \in Critical =>
        \/ \E x \in Events : home[x] = home[e] /\ outcome[x] \in {"bursting", "announcing", "refused"}
        \/ \E row \in outbox : row.key.kind = "burst" /\ ~row.deferred

-----------------------------------------------------------------------------
(* The aggregator implements the notices of EventNotices.tla.               *)

FateOf(o) ==
    CASE o \in {"new", "suppressed"} -> o
      [] o \in {"skipped", "refused"} -> "rejected"
      [] o \in {"announced", "folded"} -> "summarised"
      [] OTHER -> "open"

fateNow == [e \in Events |-> FateOf(outcome[e])]
wantedNow == [e \in Events |-> IF outcome[e] = "new" THEN {} ELSE chans[e]]

(* The summary of a burst names no event; its rows are no notices.          *)
NoticeOf(row) ==
    [ch |-> row.ch, events |-> row.events, silent |-> row.key.kind = "suppressed"]
noticesNow == {NoticeOf(row) : row \in {x \in outbox : x.events # {}}}

Notices == INSTANCE EventNotices
             WITH fate <- fateNow, wanted <- wantedNow, notices <- noticesNow

(* Whatever buckets, timers, bursts, switches and crashes do, each step is  *)
(* one of the notices or invisible to them.                                 *)
ImplementsNotices == Notices!Spec
=============================================================================
