------------------------------ MODULE Reconcile ------------------------------
(***************************************************************************)
(* The reconciliation of one repository with GitHub (syncx/reconcile.go)   *)
(* next to the webhooks of the same issues and alerts and to a user who    *)
(* archives or deletes the repository.                                     *)
(*                                                                         *)
(* A change of a subject, an issue or an alert, is the time of its update  *)
(* and the state it leads to.  A round lists the changes page by page,     *)
(* stores each if it is newer than the row, withdraws the alerts a         *)
(* complete list lacks, reads the repository again, writes its progress    *)
(* back and moves the cursor the next round lists from.  A store reads the *)
(* row and then writes it; a webhook is handled in one step here, its own  *)
(* interleavings are those of WebhookDelivery.  An issue that a round      *)
(* stores makes an event, which goes to the evaluator in the same step;    *)
(* the bound of ten such events in a round is not reached.                 *)
(*                                                                         *)
(* Bounds: the clock stops at Horizon, GitHub makes at most MaxChanges     *)
(* changes, as many rounds begin as MaxRounds says for what is enabled, and *)
(* at most MaxMishaps webhooks are lost, errors, crashes and               *)
(* administrations happen.                                                 *)
(***************************************************************************)
EXTENDS Integers, FiniteSets

CONSTANTS
    Issues, Alerts,  \* their numbers
    Capabilities,    \* what the repository may have switched on
    Overlap,         \* how far behind the cursor a round lists, 30 s
    PageSize,        \* 100 issues, 50 alerts
    MaxPages,
    Horizon, MaxChanges, MaxRounds, MaxMishaps

Subjects == Issues \cup Alerts

ASSUME ReconcileAssumption ==
    /\ Issues \subseteq Nat \ {0} /\ Alerts \subseteq Nat \ {0} /\ Issues \cap Alerts = {}
    /\ IsFiniteSet(Issues) /\ IsFiniteSet(Alerts)
    /\ Capabilities \subseteq SUBSET {"issues", "alerts"}
    /\ Overlap \in Nat /\ PageSize \in Nat \ {0} /\ MaxPages \in Nat \ {0}
    /\ Horizon \in Nat \ {0} /\ MaxChanges \in Nat /\ MaxMishaps \in Nat
    /\ MaxRounds \in [Capabilities -> Nat]

VARIABLES
    now,
    enabled,    \* IssuesEnabled, AlertsEnabled
    source,     \* subject -> its last change on GitHub
    inbox,      \* webhooks on their way
    local,      \* subject -> the change its row holds
    sync,       \* repo.SyncStatus, "deleted" when the row is
    cursor,     \* of the issues, -1 for none
    changes, rounds, mishaps,
    pc,         \* where the round is, "idle" between rounds
    snapshot,   \* the status it began with, then the one it read again
    since, page, full, soft,
    seen,       \* subjects its pages have shown, an issue as it still is
    left,       \* listed, not stored yet
    save,       \* the store under way, and the change it found
    began,      \* when it asked for the first page of issues
    ended,      \* when it began to write its progress back
    missed,     \* issues behind that changed after a list or after its last page
    moved,      \* alerts that appeared, or slid up the list, while it was read
    late,       \* the user acted between the second look at the row and its write
    untold      \* subjects that appeared since the baseline and nobody was told of

world == <<now, enabled, source, inbox, changes>>
round == <<pc, snapshot, since, page, full, soft, seen, left, save, began, ended>>
history == <<missed, moved, late, untold>>
reconcileVars == <<world, local, sync, cursor, rounds, mishaps, round, history>>

Change(x, at, state) == [x |-> x, at |-> at, state |-> state]
Nothing == [at |-> 0, state |-> "none"]
Stored == [at : 0..Horizon, state : {"none", "open", "fixed", "withdrawn"}]
Idle == [x |-> 0, new |-> Nothing, known |-> Nothing]
SyncStatuses == {"baseline", "active", "archived", "unavailable", "deleted"}

ReconcileTypeOK ==
    /\ now \in 1..Horizon
    /\ enabled \in Capabilities
    /\ source \in [Subjects -> [at : 0..Horizon, state : {"none", "open", "fixed", "gone"}]]
    /\ inbox \subseteq [x : Subjects, at : 0..Horizon, state : {"open", "fixed"},
                     action : {"opened", "edited"}]
    /\ local \in [Subjects -> Stored]
    /\ sync \in SyncStatuses
    /\ cursor \in -1..Horizon
    /\ changes \in 0..MaxChanges
    /\ rounds \in 0..MaxRounds[enabled] /\ mishaps \in 0..MaxMishaps
    /\ pc \in {"idle", "issues", "alerts", "reread", "writeback", "cursor"}
    /\ snapshot \in SyncStatuses
    /\ since \in (-Overlap - 1)..Horizon
    /\ page \in 0..MaxPages /\ full \in BOOLEAN /\ soft \in BOOLEAN
    /\ seen \subseteq Subjects
    /\ left \subseteq [x : Subjects, at : 0..Horizon, state : {"open", "fixed", "withdrawn"}]
    /\ save \in [x : Subjects \cup {0}, new : Stored, known : Stored]
    /\ began \in 0..Horizon /\ ended \in 0..Horizon
    /\ missed \subseteq Issues
    /\ moved \subseteq Alerts /\ late \in BOOLEAN
    /\ untold \subseteq Subjects

ReconcileInit ==
    /\ now = 1
    /\ enabled \in Capabilities
    /\ \E there \in SUBSET Subjects :
          source = [x \in Subjects |-> [at |-> 0, state |-> IF x \in there THEN "open" ELSE "none"]]
    /\ local = source /\ inbox = {}
    /\ sync \in {"baseline", "active"} /\ cursor = -1
    /\ changes = 0 /\ rounds = 0 /\ mishaps = 0
    /\ pc = "idle" /\ snapshot = "deleted" /\ since = -1
    /\ page = 0 /\ full = FALSE /\ soft = FALSE /\ seen = {} /\ left = {} /\ save = Idle
    /\ began = 0 /\ ended = 0
    /\ missed = {} /\ moved = {} /\ late = FALSE /\ untold = {}

Mishap == mishaps < MaxMishaps /\ mishaps' = mishaps + 1

-----------------------------------------------------------------------------
(* GitHub, its webhooks and the user.                                      *)

Watched == (IF "issues" \in enabled THEN Issues ELSE {})
           \cup (IF "alerts" \in enabled THEN Alerts ELSE {})

(* The webhook of an alert that appears says created, which is as good.    *)
Message(x, at, state, action) == [x |-> x, at |-> at, state |-> state, action |-> action]

SourceChanges(x, state) ==
    /\ changes < MaxChanges /\ changes' = changes + 1
    /\ x \in Watched
    /\ source[x].at < now /\ source[x].state # "gone"
    /\ state = "fixed" => x \in Alerts /\ source[x].state = "open"
    /\ source' = [source EXCEPT ![x] = [at |-> now, state |-> state]]
    /\ LET new == source[x].state = "none"
       IN /\ inbox' = inbox \cup {Message(x, now, state, IF new THEN "opened" ELSE "edited")}
          /\ untold' = untold \cup IF new /\ sync = "active" THEN {x} ELSE {}
    /\ moved' = IF x \in Alerts /\ source[x].state = "none" /\ pc = "alerts"
                THEN moved \cup {x} ELSE moved
    /\ seen' = seen \ ({x} \cap Issues)
    /\ UNCHANGED <<now, enabled, local, sync, cursor, rounds, mishaps, pc, snapshot, since,
                   page, full, soft, left, save, began, ended, missed, late>>

(* An alert GitHub takes back leaves its lists, without a webhook; what     *)
(* stands behind it moves up.                                               *)
AlertGone(x) ==
    /\ changes < MaxChanges /\ changes' = changes + 1
    /\ x \in Watched
    /\ source[x].state = "open" /\ source[x].at < now
    /\ source' = [source EXCEPT ![x] = [at |-> now, state |-> "gone"]]
    /\ moved' = IF pc = "alerts" THEN moved \cup {y \in Alerts : y < x} ELSE moved
    /\ UNCHANGED <<now, enabled, inbox, local, sync, cursor, rounds, mishaps, round,
                   missed, late, untold>>

(* UpsertIfNewer: an older change, or the same once more, is ignored.      *)
Newer(old, at, state) == old.at < at \/ (old.at = at /\ old.state # state)

(* shouldNotifyRealtime: of an issue's actions only some are notified, of  *)
(* an alert's all; the rest is left to the digest.                         *)
Realtime(x, action) == x \in Alerts \/ action \in {"opened", "reopened", "closed"}

(* An event goes to the evaluator.                                         *)
Evaluated(x, action) ==
    untold' = IF Realtime(x, action) THEN untold \ {x} ELSE untold

(* The normalizer: a change that is not newer than the row makes no event, *)
(* during the baseline an event is suppressed; nothing is taken in for a   *)
(* repository that is archived or unavailable.                             *)
Webhook(m) ==
    /\ inbox' = inbox \ {m}
    /\ IF sync \in {"baseline", "active"} /\ Newer(local[m.x], m.at, m.state)
       THEN /\ local' = [local EXCEPT ![m.x] = [at |-> m.at, state |-> m.state]]
            /\ IF sync = "active" THEN Evaluated(m.x, m.action) ELSE UNCHANGED untold
       ELSE UNCHANGED <<local, untold>>
    /\ UNCHANGED <<now, enabled, source, changes, sync, cursor, rounds, mishaps, round,
                   missed, moved, late>>

WebhookLost(m) ==
    /\ Mishap
    /\ inbox' = inbox \ {m}
    /\ UNCHANGED <<now, enabled, source, changes, local, sync, cursor, rounds, round, history>>

Administered(to) ==
    /\ Mishap
    /\ sync \in {"baseline", "active"}
    /\ sync' = to
    /\ late' = (pc = "writeback")
    /\ UNCHANGED <<world, local, cursor, rounds, round, missed, moved, untold>>

TimePasses ==
    /\ now < Horizon
    /\ now' = now + 1
    /\ UNCHANGED <<enabled, source, inbox, changes, local, sync, cursor, rounds, mishaps,
                   round, history>>

-----------------------------------------------------------------------------
(* The lists of a round.                                                   *)

Begin ==
    /\ pc = "idle" /\ rounds < MaxRounds[enabled]
    /\ sync \in {"baseline", "active"}
    /\ rounds' = rounds + 1
    /\ snapshot' = sync
    /\ pc' = IF "issues" \in enabled THEN "issues" ELSE "alerts"
    /\ since' = IF sync = "baseline" \/ cursor = -1 THEN -1 ELSE cursor - Overlap
    /\ UNCHANGED <<world, local, sync, cursor, mishaps, page, full, soft, seen, left, save,
                   began, ended, history>>

Calm == left = {} /\ save = Idle

MorePages == page = 0 \/ (full /\ page < MaxPages)

LaterUpdate(x, y) == source[x].at > source[y].at \/ (source[x].at = source[y].at /\ x > y)

(* The page of a list, given how many stand before each of its subjects.   *)
PageOf(rank) ==
    {x \in DOMAIN rank : page * PageSize <= rank[x] /\ rank[x] < (page + 1) * PageSize}

Listed(got) ==
    /\ left' = {Change(x, source[x].at, source[x].state) : x \in got}
    /\ seen' = seen \cup got
    /\ full' = (Cardinality(got) = PageSize)
    /\ page' = page + 1

ListIssues ==
    /\ pc = "issues" /\ Calm /\ MorePages
    /\ LET list == {x \in Issues : source[x].state # "none" /\ source[x].at >= since}
       IN Listed(PageOf([x \in list |-> Cardinality({y \in list : LaterUpdate(y, x)})]))
    /\ began' = IF page = 0 THEN now ELSE began
    /\ UNCHANGED <<world, local, sync, cursor, rounds, mishaps, pc, snapshot, since, soft,
                   save, ended, history>>

(* Issues the list did not show: they changed while it was read, or stood  *)
(* behind its last page.                                                   *)
IssuesDone ==
    /\ pc = "issues" /\ Calm /\ ~MorePages
    /\ pc' = IF "alerts" \in enabled THEN "alerts" ELSE "reread"
    /\ page' = 0
    /\ full' = FALSE
    /\ missed' = missed \cup (IF full THEN {x \in Issues : local[x] # source[x]} \ seen ELSE {})
    /\ UNCHANGED <<world, local, sync, cursor, rounds, mishaps, snapshot, since, soft, seen,
                   left, save, began, ended, moved, late, untold>>

ListAlerts ==
    /\ pc = "alerts" /\ Calm /\ MorePages
    /\ LET list == {x \in Alerts : source[x].state \in {"open", "fixed"}}
       IN Listed(PageOf([x \in list |-> Cardinality({y \in list : y > x})]))
    /\ UNCHANGED <<world, local, sync, cursor, rounds, mishaps, pc, snapshot, since, soft,
                   save, began, ended, history>>

(* Only a list that came to its end tells which alerts are gone; the rows  *)
(* of the others that are not in a final state are to be withdrawn.        *)
DoomedAlways(complete) ==
    {Change(x, now, "withdrawn") : x \in {y \in Alerts \ seen : local[y].state = "open"}}
Doomed(complete) ==
    IF complete
    THEN {Change(x, now, "withdrawn") : x \in {y \in Alerts \ seen : local[y].state = "open"}}
    ELSE {}

AlertsDone ==
    /\ pc = "alerts" /\ Calm /\ ~MorePages
    /\ pc' = "reread"
    /\ left' = Doomed(~full)
    /\ UNCHANGED <<world, local, sync, cursor, rounds, mishaps, snapshot, since, page, full,
                   soft, seen, save, began, ended, history>>

(* The list of alerts fails: a soft failure that ends the alerts, not the  *)
(* round; nothing is withdrawn.                                            *)
AlertsFail ==
    /\ pc = "alerts" /\ Calm
    /\ Mishap
    /\ pc' = "reread" /\ soft' = TRUE
    /\ UNCHANGED <<world, local, sync, cursor, rounds, snapshot, since, page, full, seen,
                   left, save, began, ended, history>>

-----------------------------------------------------------------------------
(* A row is read, then written.                                            *)

SaveRead(c) ==
    /\ save = Idle
    /\ left' = left \ {c}
    /\ save' = [x |-> c.x, new |-> [at |-> c.at, state |-> c.state], known |-> local[c.x]]
    /\ UNCHANGED <<world, local, sync, cursor, rounds, mishaps, pc, snapshot, since, page,
                   full, soft, seen, began, ended, history>>

(* What a round stores of an issue, once the baseline is over, makes an    *)
(* event whatever has changed; what it stores of an alert makes none.      *)
Compensated(x) ==
    IF x \in Issues /\ snapshot # "baseline" THEN Evaluated(x, "updated") ELSE UNCHANGED untold

SaveWrite ==
    /\ save # Idle
    /\ save' = Idle
    /\ IF Newer(save.known, save.new.at, save.new.state)
       THEN /\ local' = [local EXCEPT ![save.x] = save.new]
            /\ Compensated(save.x)
       ELSE UNCHANGED <<local, untold>>
    /\ UNCHANGED <<world, sync, cursor, rounds, mishaps, pc, snapshot, since, page, full, soft,
                   seen, left, began, ended, missed, moved, late>>

(* The read or the write of a row fails: an issue makes the round a soft   *)
(* failure, an alert is only logged.                                       *)
SoftFailsNever(x) == FALSE
SoftFails(x) == x \in Issues

SaveFails ==
    /\ save # Idle
    /\ Mishap
    /\ save' = Idle
    /\ soft' = (soft \/ SoftFails(save.x))
    /\ UNCHANGED <<world, local, sync, cursor, rounds, pc, snapshot, since, page, full, seen,
                   left, began, ended, history>>

-----------------------------------------------------------------------------
(* finalizeSyncState.                                                      *)

EndRound ==
    /\ pc' = "idle" /\ snapshot' = "deleted" /\ since' = -1
    /\ page' = 0 /\ full' = FALSE /\ soft' = FALSE /\ seen' = {} /\ left' = {} /\ save' = Idle
    /\ began' = 0 /\ ended' = 0

(* The row is read again; a round whose repository is gone ends here.      *)
CurrentOfRound == snapshot
Current == sync

Reread ==
    /\ pc = "reread" /\ Calm
    /\ IF Current = "deleted"
       THEN EndRound
       ELSE /\ pc' = "writeback"
            /\ snapshot' = IF Current = "baseline" /\ snapshot = "baseline" /\ ~soft
                           THEN "active" ELSE Current
            /\ ended' = now
            /\ UNCHANGED <<since, page, full, soft, seen, left, save, began>>
    /\ UNCHANGED <<world, local, sync, cursor, rounds, mishaps, history>>

(* Repositories().Upsert of the whole row: it creates one that is gone.    *)
WriteBack ==
    /\ pc = "writeback"
    /\ sync' = snapshot
    /\ pc' = "cursor"
    /\ UNCHANGED <<world, local, cursor, rounds, mishaps, snapshot, since, page, full, soft, seen,
                   left, save, began, ended, history>>

(* The cursor moves to the end of the round, not to its list of issues.    *)
CursorAfter == ended

MoveCursor ==
    /\ pc = "cursor"
    /\ LET synced == "issues" \in enabled /\ ~soft
       IN /\ cursor' = IF synced THEN CursorAfter ELSE cursor
          /\ missed' = {x \in missed : local[x] # source[x]}
                       \cup (IF synced
                             THEN {x \in Issues \ seen : began <= source[x].at} ELSE {})
    /\ EndRound
    /\ UNCHANGED <<world, local, sync, rounds, mishaps, moved, late, untold>>

(* The list of issues fails, or the process dies: the round is forgotten.  *)
(* A repository GitHub does not know any more is polled no longer.         *)
RoundFails ==
    /\ pc # "idle"
    /\ Mishap
    /\ EndRound
    /\ sync' \in {sync} \cup (IF pc = "issues" /\ Calm /\ sync # "deleted"
                                  THEN {"unavailable"} ELSE {})
    /\ UNCHANGED <<world, local, cursor, rounds, history>>

ReconcileNext ==
    \/ \E x \in Subjects, s \in {"open", "fixed"} : SourceChanges(x, s)
    \/ \E x \in Alerts : AlertGone(x)
    \/ \E m \in inbox : Webhook(m) \/ WebhookLost(m)
    \/ \E to \in {"archived", "deleted"} : Administered(to)
    \/ TimePasses
    \/ Begin
    \/ ListIssues \/ IssuesDone
    \/ ListAlerts \/ AlertsDone \/ AlertsFail
    \/ \E c \in left : SaveRead(c)
    \/ SaveWrite \/ SaveFails
    \/ Reread \/ WriteBack \/ MoveCursor \/ RoundFails

ReconcileSpec == ReconcileInit /\ [][ReconcileNext]_reconcileVars

-----------------------------------------------------------------------------
(* Between rounds, a change of an issue that the row lacks is one the next *)
(* round lists.  It is passed over in two ways only: it came while the     *)
(* list was read and the round then outran the overlap, or it stood behind *)
(* the last page; never because a row could not be read or written, nor    *)
(* because the round put the row back over a webhook it had not seen.      *)
CursorCovers ==
    pc = "idle" /\ cursor # -1 =>
        \A x \in Issues : local[x].at < source[x].at =>
            source[x].at >= cursor - Overlap \/ x \in missed

(* An alert that is open on GitHub is not withdrawn here, unless it came,  *)
(* or slid up the list towards the pages already read, while the list was  *)
(* being read: then it stays withdrawn, as its own change is older than    *)
(* the withdrawal.                                                         *)
WithdrawnMeansGone ==
    \A x \in Alerts : local[x].state = "withdrawn" /\ source[x].state = "open" => x \in moved

(* What appears in an active repository is told in real time, by its       *)
(* webhook or, where that is missing, by the round that finds it: once it  *)
(* is stored and no webhook of it is on its way, the evaluator has had an  *)
(* event of it that it takes.  docs/features.md:34 promises as much of the *)
(* compensating notifications, which end silent losses of events.          *)
CompensationTells ==
    sync = "active" =>
        \A x \in untold : local[x].state # "none" => \E m \in inbox : m.x = x

(* A round that was under way when the repository was archived or deleted  *)
(* does not undo it, save between its second look at the row and its write.*)
StatusKept ==
    [][(sync \in {"archived", "deleted"} /\ sync' \notin {sync, "unavailable"})
           => late]_reconcileVars
=============================================================================
