------------------------------- MODULE Digest -------------------------------
(***************************************************************************)
(* The periodic reports of digest/generator.go (RunOnce, RunWeekly and     *)
(* RunMonthly) as the digest loop of syncx.Scheduler calls them: an hourly *)
(* ticker in every replica, one replica at a time under the lease "digest" *)
(* (module LeaseRunner), a row of notification_outbox per channel and      *)
(* period, and the ledger of system_settings that says what was sent.      *)
(*                                                                         *)
(* The clock counts ticks of which Hour make an hour and Day a day of the  *)
(* administrator's time zone.  A report's text is the set of the events it *)
(* was made from.                                                          *)
(***************************************************************************)
EXTENDS Integers, FiniteSets

CONSTANTS
    Replicas,
    Channels,
    BotFree,     \* channels with IgnoreBots
    Subscribed,  \* channels that take the reports at first
    Hour, Day,   \* ticks in an hour, DigestEvery, and in a day
    SendAt,      \* digest.local_time, a tick of the day
    SendEmpty,   \* digest.send_empty
    WeekDays, MonthDays,      \* days in a week and in a month
    WeeklyDay, MonthlyDay,    \* report.weekly_day, report.monthly_day
    MaxClock, MaxBoots, MaxEvents, MaxLag, MaxToggles, MaxFaults   \* bounds

ASSUME ConstantAssumption ==
    /\ "none" \notin Replicas
    /\ Hour \in Nat \ {0}
    /\ Day \in Nat \ {0} /\ Day % Hour = 0
    /\ SendAt \in 0 .. Day - 1
    /\ SendEmpty \in BOOLEAN
    /\ WeekDays \in Nat \ {0}
    /\ MonthDays \in Nat \ {0}
    /\ BotFree \subseteq Channels /\ Subscribed \subseteq Channels

(* The window of an hour ends before the day does.                         *)
WindowInDay == SendAt + Hour <= Day

VARIABLES
    clock,
    next,        \* replica -> ticks until its ticker fires
    run,         \* replica -> its run of the three reports
    booted,      \* replica -> time of its last start
    boots,
    holder,      \* the replica that holds the lease "digest", or "none"
    lapses,      \* times a run lost its lease, or could not read its settings
    skips,       \* ticks that found the lease taken
    ledger,      \* report -> key last sent, -1 for none
    owed,        \* history: report -> channels the ledger's run was to serve
    rows,        \* the rows written to notification_outbox
    events,      \* events the digests select: occurred, recorded, by a bot?
    subscribed,  \* channels that take the reports
    toggles,
    faults

replicaVars == <<next, run, booted, boots, holder, lapses, skips>>
sentVars == <<ledger, owed, rows>>
inputVars == <<events, subscribed, toggles>>
vars == <<clock, replicaVars, sentVars, inputVars, faults>>

Reports == {"digest", "weekly", "monthly"}
Events == [at : Int, seen : Nat, bot : BOOLEAN]
Runs == [stage : {"down", "idle", "checking", "queueing"}, report : Reports, now : Nat,
         evs : SUBSET Events, owed : SUBSET Channels, todo : SUBSET Channels]
Rows == [report : Reports, channel : Channels, key : Nat, made : Nat, evs : SUBSET Events]

Resting(stage) == [stage |-> stage, report |-> "digest", now |-> 0,
                   evs |-> {}, owed |-> {}, todo |-> {}]

TypeOK ==
    /\ clock \in Nat
    /\ next \in [Replicas -> 0 .. Hour]
    /\ run \in [Replicas -> Runs]
    /\ booted \in [Replicas -> Nat]
    /\ boots \in Nat
    /\ holder \in Replicas \cup {"none"}
    /\ lapses \in Nat
    /\ skips \in Nat
    /\ ledger \in [Reports -> Nat \cup {-1}]
    /\ owed \in [Reports -> SUBSET Channels]
    /\ rows \subseteq Rows
    /\ events \subseteq Events
    /\ subscribed \subseteq Channels
    /\ toggles \in Nat
    /\ faults \in Nat

Init ==
    /\ clock = 0
    /\ next = [r \in Replicas |-> Hour]
    /\ run = [r \in Replicas |-> Resting("down")]
    /\ booted = [r \in Replicas |-> 0]
    /\ boots = 0
    /\ holder = "none"
    /\ lapses = 0
    /\ skips = 0
    /\ ledger = [p \in Reports |-> -1]
    /\ owed = [p \in Reports |-> {}]
    /\ rows = {}
    /\ events = {}
    /\ subscribed = Subscribed
    /\ toggles = 0
    /\ faults = 0

Fault == faults < MaxFaults /\ faults' = faults + 1

-----------------------------------------------------------------------------
(* The calendar.  The definitions named as variants are slips the          *)
(* properties below must notice.                                           *)

DayOf(t) == t \div Day
WindowOpens(d) == d * Day + SendAt

InWindowHalf(t) ==                            \* variant: half an hour
    2 * (t - WindowOpens(DayOf(t))) \in 0 .. Hour - 1
(* sendWindow: the hour from the local send time on, within one local day. *)
InWindow(t) ==
    /\ WindowOpens(DayOf(t)) <= t
    /\ t < WindowOpens(DayOf(t)) + Hour

SendDay(p, d) ==
    CASE p = "digest" -> TRUE
      [] p = "weekly" -> d % WeekDays = WeeklyDay
      [] p = "monthly" -> d % MonthDays = MonthlyDay

(* dateKey, which the ledger and the idempotency key of a row carry.       *)
Key(p, t) == IF p = "monthly" THEN DayOf(t) \div MonthDays ELSE DayOf(t)

SinceWindow(p, t) ==                          \* variant: from a fixed hour
    IF p = "digest" THEN WindowOpens(DayOf(t)) + Hour - Day ELSE t - Day
(* Where ListSince starts: the weekly report begins at its day's midnight. *)
Since(p, t) ==
    CASE p = "digest" -> t - Day
      [] p = "weekly" -> DayOf(t) * Day
      [] p = "monthly" -> t - MonthDays * Day

Due(p, t) == InWindow(t) /\ SendDay(p, DayOf(t))

NotSentAlways(p, t) == TRUE                   \* variant: the ledger is ignored
NotSent(p, t) == ledger[p] # Key(p, t)

Selected(p, t) == {e \in events : e.at >= Since(p, t)}
Human(evs) == {e \in evs : ~e.bot}

(* A channel that ignores bots gets no report of nothing but bots.         *)
Wants(ch, evs) == ch \in BotFree => Human(evs) # {} \/ evs = {}
TextFor(ch, evs) == IF ch \in BotFree THEN Human(evs) ELSE evs

-----------------------------------------------------------------------------
(* The loop of the scheduler.                                              *)

Active(r) == run[r].stage \in {"checking", "queueing"}

(* The ticker fires: digestBusy and the lease admit one run at a time, and *)
(* a tick that finds the lease taken is skipped.  A run takes its time     *)
(* once, at its start.                                                     *)
Tick(r) ==
    /\ run[r].stage = "idle"
    /\ next[r] = 0
    /\ next' = [next EXCEPT ![r] = Hour]
    /\ \/ /\ holder = "none"
          /\ holder' = r
          /\ run' = [run EXCEPT ![r] = [Resting("checking") EXCEPT !.now = clock]]
          /\ UNCHANGED skips
       \/ /\ holder # "none"
          /\ skips' = skips + 1
          /\ UNCHANGED <<holder, run>>
    /\ UNCHANGED <<clock, booted, boots, lapses, sentVars, inputVars, faults>>

AcquireFails(r) ==
    /\ run[r].stage = "idle"
    /\ next[r] = 0
    /\ Fault
    /\ next' = [next EXCEPT ![r] = Hour]
    /\ UNCHANGED <<clock, run, booted, boots, holder, lapses, skips, sentVars, inputVars>>

(* The report of r's run is over, in whatever way: the next one that has   *)
(* its day is checked; after the last the lease is released.               *)
After(p) == CASE p = "digest" -> {"weekly", "monthly"}
              [] p = "weekly" -> {"monthly"}
              [] p = "monthly" -> {}

NextReport(r) ==
    LET left == {p \in After(run[r].report) : Due(p, run[r].now)}
        first == IF "weekly" \in left THEN "weekly" ELSE "monthly"
    IN IF left = {}
         THEN /\ run' = [run EXCEPT ![r] = Resting("idle")]
              /\ holder' = IF holder = r THEN "none" ELSE holder
         ELSE /\ run' = [run EXCEPT ![r] = [Resting("checking") EXCEPT !.now = run[r].now,
                                                                    !.report = first]]
              /\ UNCHANGED holder

-----------------------------------------------------------------------------
(* One report.                                                             *)

Checks(r) == run[r].stage = "checking"
Wanted(r) == Due(run[r].report, run[r].now) /\ NotSent(run[r].report, run[r].now)
Found(r) == Selected(run[r].report, run[r].now)

Skip(r) ==
    /\ Checks(r)
    /\ Wanted(r) => Found(r) = {} /\ ~SendEmpty
    /\ NextReport(r)
    /\ UNCHANGED <<clock, next, booted, boots, lapses, skips, sentVars, inputVars, faults>>

(* The events and the channels are read, the texts made.  Window and       *)
(* ledger are settings: one that cannot be read counts as its default, as  *)
(* if the report were due and had not been sent.                           *)
Gather(r) ==
    /\ Checks(r)
    /\ \/ Wanted(r) /\ UNCHANGED <<lapses, faults>>
       \/ ~Wanted(r) /\ Fault /\ lapses' = lapses + 1
    /\ Found(r) # {} \/ SendEmpty
    /\ LET serve == {ch \in subscribed : Wants(ch, Found(r))}
       IN run' = [run EXCEPT ![r] = [@ EXCEPT !.stage = "queueing", !.evs = Found(r),
                                              !.owed = serve, !.todo = serve]]
    /\ UNCHANGED <<clock, next, booted, boots, holder, skips, sentVars, inputVars>>

(* Create: a row with the idempotency key of an existing one is a conflict *)
(* that enqueue passes over.                                               *)
Insert(r, ch) ==
    LET p == run[r].report
        k == Key(p, run[r].now)
    IN rows' = IF \E row \in rows : row.report = p /\ row.channel = ch /\ row.key = k
                 THEN rows
                 ELSE rows \cup {[report |-> p, channel |-> ch, key |-> k, made |-> run[r].now,
                                  evs |-> TextFor(ch, run[r].evs)]}

Enqueue(r) ==
    /\ run[r].stage = "queueing"
    /\ \E ch \in run[r].todo :
        /\ Insert(r, ch)
        /\ run' = [run EXCEPT ![r].todo = @ \ {ch}]
    /\ UNCHANGED <<clock, next, booted, boots, holder, lapses, skips, ledger, owed, inputVars, faults>>

BookUnfinished(r) ==                          \* variant: not every channel served
    /\ run[r].stage = "queueing"
    /\ ledger' = [ledger EXCEPT ![run[r].report] = Key(run[r].report, run[r].now)]
    /\ owed' = [owed EXCEPT ![run[r].report] = run[r].owed]
    /\ NextReport(r)
    /\ UNCHANGED <<clock, next, booted, boots, lapses, skips, rows, inputVars, faults>>

(* The ledger is written when every channel was served, even if none was.  *)
Book(r) ==
    /\ run[r].stage = "queueing"
    /\ run[r].todo = {}
    /\ ledger' = [ledger EXCEPT ![run[r].report] = Key(run[r].report, run[r].now)]
    /\ owed' = [owed EXCEPT ![run[r].report] = run[r].owed]
    /\ NextReport(r)
    /\ UNCHANGED <<clock, next, booted, boots, lapses, skips, rows, inputVars, faults>>

(* A call fails, an insert perhaps after it took effect: the report is     *)
(* given up, the others are still made.  A lost ledger write is only       *)
(* logged, which comes to the same.                                        *)
ReportFails(r) ==
    /\ Active(r)
    /\ Fault
    /\ \/ UNCHANGED rows
       \/ run[r].stage = "queueing" /\ \E ch \in run[r].todo : Insert(r, ch)
    /\ NextReport(r)
    /\ UNCHANGED <<clock, next, booted, boots, lapses, skips, ledger, owed, inputVars>>

-----------------------------------------------------------------------------
(* The lease, processes, the administrator, the world.                     *)

(* A run that lost its lease goes on until its context is cancelled.       *)
Lapse(r) ==
    /\ holder = r
    /\ Active(r)
    /\ Fault
    /\ holder' = "none"
    /\ lapses' = lapses + 1
    /\ UNCHANGED <<clock, next, run, booted, boots, skips, sentVars, inputVars>>

Interrupt(r) ==
    /\ Active(r)
    /\ holder # r
    /\ run' = [run EXCEPT ![r] = Resting("idle")]
    /\ UNCHANGED <<clock, next, booted, boots, holder, lapses, skips, sentVars, inputVars, faults>>

Crash(r) ==
    /\ run[r].stage # "down"
    /\ Fault
    /\ run' = [run EXCEPT ![r] = Resting("down")]
    /\ UNCHANGED <<clock, next, booted, boots, holder, lapses, skips, sentVars, inputVars>>

(* The lease of a crashed holder runs out.                                 *)
Expire(r) ==
    /\ holder = r
    /\ ~Active(r)
    /\ holder' = "none"
    /\ UNCHANGED <<clock, next, run, booted, boots, lapses, skips, sentVars, inputVars, faults>>

(* The digest loop has no startup timer: its first tick is an hour away.   *)
Boot(r) ==
    /\ run[r].stage = "down"
    /\ boots < MaxBoots
    /\ boots' = boots + 1
    /\ run' = [run EXCEPT ![r] = Resting("idle")]
    /\ next' = [next EXCEPT ![r] = Hour]
    /\ booted' = [booted EXCEPT ![r] = clock]
    /\ UNCHANGED <<clock, holder, lapses, skips, sentVars, inputVars, faults>>

(* An administrator subscribes a channel to the reports, or takes it off.  *)
Toggle(ch) ==
    /\ toggles < MaxToggles
    /\ toggles' = toggles + 1
    /\ subscribed' = IF ch \in subscribed THEN subscribed \ {ch} ELSE subscribed \cup {ch}
    /\ UNCHANGED <<clock, replicaVars, sentVars, events, faults>>

(* An event is recorded, at most MaxLag after it occurred.                 *)
Record(lag, bot) ==
    LET e == [at |-> clock - lag, seen |-> clock, bot |-> bot]
    IN /\ e \notin events
       /\ Cardinality(events) < MaxEvents
       /\ events' = events \cup {e}
       /\ UNCHANGED <<clock, replicaVars, sentVars, subscribed, toggles, faults>>

(* Time passes.  Tickers are served at once, and a run is over before its  *)
(* replica's next tick: the reports take minutes.                          *)
Elapse ==
    /\ clock < MaxClock
    /\ \A r \in Replicas : run[r].stage # "down" =>
          next[r] > 0 /\ (next[r] = 1 => run[r].stage = "idle")
    /\ clock' = clock + 1
    /\ next' = [r \in Replicas |-> IF run[r].stage = "down" THEN next[r] ELSE next[r] - 1]
    /\ UNCHANGED <<run, booted, boots, holder, lapses, skips, sentVars, inputVars, faults>>

-----------------------------------------------------------------------------
ReplicaStep(r) ==
    \/ Tick(r) \/ AcquireFails(r)
    \/ Skip(r) \/ Gather(r) \/ Enqueue(r) \/ Book(r) \/ ReportFails(r)
    \/ Lapse(r) \/ Interrupt(r) \/ Crash(r) \/ Expire(r) \/ Boot(r)

Next ==
    \/ \E r \in Replicas : ReplicaStep(r)
    \/ \E ch \in Channels : Toggle(ch)
    \/ \E lag \in 0 .. MaxLag, bot \in BOOLEAN : Record(lag, bot)
    \/ Elapse

Spec == Init /\ [][Next]_vars

-----------------------------------------------------------------------------
(* Properties.                                                             *)

HasRow(p, ch, k) ==
    \E row \in rows : row.report = p /\ row.channel = ch /\ row.key = k

(* The ledger says "sent" only when every channel the run was to serve has *)
(* its row: a report that failed half way is not taken for sent.           *)
LedgerMeansQueued ==
    \A p \in Reports : \A ch \in owed[p] : HasRow(p, ch, ledger[p])

(* A channel that subscribes after the report was booked does not get it   *)
(* any more ("避免之后开启订阅时当日补发"): no row joins a booked report,   *)
(* whichever replica ticks again, unless a run outlived its lease or could  *)
(* not read the ledger.                                                    *)
NoBackfill ==
    [][ lapses = 0 =>
          \A row \in rows' \ rows : ledger[row.report] # row.key ]_vars

(* RunOnce's promise: when the send time was reached the digest goes out   *)
(* that day, whatever the phases of the tickers and whoever held the lease *)
(* when they fired.  Needed: no fault, a replica up before the window      *)
(* opened, and a window that ends within the day; a channel that ignores   *)
(* bots waits for an event that is not one, also where an empty digest is  *)
(* wanted.                                                                 *)
Promised(d, ch) ==
    \/ SendEmpty /\ ch \notin BotFree
    \/ \E e \in events :
          ~e.bot /\ e.seen < WindowOpens(d) /\ e.at >= WindowOpens(d) + Hour - Day

DigestSent ==
    WindowInDay /\ faults = 0 /\ toggles = 0 =>
        \A d \in 0 .. DayOf(clock) :
            LET opens == WindowOpens(d)
            IN /\ clock >= opens + 2 * Hour
               /\ \E r \in Replicas : run[r].stage # "down" /\ booted[r] < opens
               => \A ch \in subscribed : Promised(d, ch) => HasRow("digest", ch, d)

(* No event slips between two digests: one that was recorded as it         *)
(* occurred is in a digest of every subscribed channel by the end of the   *)
(* next window.  Needed, besides: no tick skipped for another replica's    *)
(* run, which would put the next digest off and leave a gap.               *)
EventsCovered ==
    WindowInDay /\ faults = 0 /\ toggles = 0 /\ skips = 0 =>
        \A e \in events : \A ch \in subscribed :
            /\ e.at = e.seen
            /\ e.bot => ch \notin BotFree
            /\ clock >= WindowOpens(DayOf(e.at) + 1) + 2 * Hour
            /\ \E r \in Replicas : run[r].stage # "down" /\ booted[r] < WindowOpens(DayOf(e.at))
            => \E row \in rows : row.report = "digest" /\ row.channel = ch /\ e \in row.evs

(* A weekly report covers the week its text speaks of ("过去 7 天"; the     *)
(* period of RunWeekly's comment is the last 7 days).                      *)
WeeklyCoversWeek ==
    \A row \in rows : \A e \in events :
        /\ row.report = "weekly"
        /\ row.channel \notin BotFree
        /\ e.seen < row.made
        /\ e.at >= row.made - WeekDays * Day
        => e \in row.evs

-----------------------------------------------------------------------------
(* What the reports need of their lease is what TaskLease.tla promises and *)
(* LeaseRunner implements; a run that could not read its settings counts   *)
(* as a lag, since it may report what was reported.                        *)
Lease == INSTANCE TaskLease
           WITH Workers <- Replicas, None <- "none",
                running <- {r \in Replicas : Active(r)}, late <- lapses

(* The reports take, lose and give back their lease as TaskLease allows.   *)
UsesLease == Lease!Spec
=============================================================================
