------------------------------- MODULE Starred -------------------------------
(***************************************************************************)
(* The releases of the repositories a user has starred (syncx/starred.go). *)
(*                                                                         *)
(* A synchronisation lists the stars page by page, registers a tracker for *)
(* each new repository with a probe of its releases as the baseline, and   *)
(* disables the trackers of what a complete list lacks.  A poll lists, for *)
(* every tracker it found, the releases newer than its cursor, and records *)
(* an event of each and has it evaluated.  The replica that holds the      *)
(* lease runs both, one after the other (Leader); the user's request runs  *)
(* a synchronisation at any replica, without the lease (Manual).  What a   *)
(* mutex keeps apart within one process is a subset of that.               *)
(*                                                                         *)
(* A release is its id, which GitHub hands out when it is drafted; lists   *)
(* have what was published last in front.  The ETag of a first page is the *)
(* page.  Rounds that are not due, switched off or without candidates do   *)
(* nothing and are left out; so is the outbox, whose rows the evaluation   *)
(* writes and an unstar cancels (Outbox).                                  *)
(*                                                                         *)
(* Bounds: a scenario limits the publications, withdrawals, stars given    *)
(* and taken, decisions of the user, synchronisations and mishaps.         *)
(***************************************************************************)
EXTENDS Integers, Sequences, FiniteSets, SequencesExt

CONSTANTS
    Repos,
    ReleaseIds,
    Prereleases,     \* the ids nobody is told of
    StarPage, MaxStarPages,   \* 100, MaxTrackers / 100 + 2
    MaxTrackers,
    ReleasePage,     \* ReleaseListPerPage, 30
    MaxBackfill,     \* maxBackfillPerRound, 5
    NoRepo, Leader, Manual,
    StarScenarios    \* what is starred, tracked and published at first, and may happen

ListsOf(S) == {list \in Seq(S) : IsInjective(list)}

Happenings == {"publish", "withdraw", "star", "decide", "sync", "mishap"}

(* What was published since the last poll lies above it, and in order.     *)
ScenarioOK(s) ==
    /\ s.stars \in ListsOf(Repos) /\ s.tracked \subseteq Repos
    /\ s.past \in [Repos -> ListsOf(ReleaseIds)]
    /\ s.releases \in [Repos -> ListsOf(ReleaseIds)]
    /\ s.budget \in [Happenings -> Nat]
    /\ \A r \in Repos : \A i \in DOMAIN s.releases[r] :
          LET x == s.releases[r][i]
          IN x \notin ToSet(s.past[r]) =>
                /\ s.past[r] # <<>> => x > Head(s.past[r])
                /\ \A k \in 1..(i - 1) : s.releases[r][k] > x

ASSUME StarredAssumption ==
    /\ IsFiniteSet(Repos) /\ NoRepo \notin Repos /\ Leader # Manual
    /\ ReleaseIds \subseteq Nat \ {0} /\ Prereleases \subseteq ReleaseIds
    /\ StarPage \in Nat \ {0} /\ MaxStarPages \in Nat \ {0} /\ MaxTrackers \in Nat
    /\ ReleasePage \in Nat \ {0} /\ MaxBackfill \in Nat \ {0}
    /\ \A s \in StarScenarios : ScenarioOK(s)

VARIABLES
    stars,       \* the user's list on GitHub, the newest star first
    releases,    \* repository -> what is published
    vanished,    \* repositories deleted or made private
    trackerOf,   \* repository -> state, cursor and ETag of its row
    news,        \* repository -> release -> has it an event, has it been told
    poller,      \* actor -> the poller it is in
    budget,      \* what may still happen
    choice,      \* repository -> what the user decided about its tracker last
    raced,       \* trackers switched off while a poller was under way
    excused      \* releases that a baseline, a mishap or GitHub's order hides

github == <<stars, releases, vanished>>
decided == <<choice, raced>>
starredVars == <<github, trackerOf, news, poller, budget, decided, excused>>

Pollers == {Leader, Manual}
Lead == poller[Leader]
NoTag == <<0>>
NoRow == [state |-> "none", cursor |-> 0, etag |-> NoTag]
AtRest == [pc |-> "idle", job |-> "none", known |-> [r \in Repos |-> NoRow], left |-> {},
           page |-> 0, more |-> FALSE, seen |-> {}, absent |-> {}, room |-> 0,
           token |-> FALSE, repo |-> NoRepo, items |-> <<>>, newest |-> 0,
           mark |-> NoTag, told |-> 0]

PagesOf(S) == {list \in ListsOf(S) : Len(list) <= ReleasePage}
Tags == PagesOf(ReleaseIds) \cup {NoTag}

Trackers == [state : {"none", "tracking", "inactive", "unavailable", "disabled"},
         cursor : ReleaseIds \cup {0}, etag : Tags]

Locals ==
    [pc : {"idle", "stars", "register", "probe", "remove", "poll", "list", "gone",
           "empty", "cursor", "revive", "scan", "evaluate"},
     job : {"none", "sync", "poll"}, known : [Repos -> Trackers], left : SUBSET Repos,
     page : Nat, more : BOOLEAN, seen : SUBSET Repos, absent : SUBSET Repos, room : Nat,
     token : BOOLEAN, repo : Repos \cup {NoRepo}, items : PagesOf(ReleaseIds),
     newest : ReleaseIds \cup {0}, mark : Tags, told : 0..MaxBackfill]

StarredTypeOK ==
    /\ stars \in ListsOf(Repos)
    /\ releases \in [Repos -> ListsOf(ReleaseIds)]
    /\ vanished \subseteq Repos
    /\ trackerOf \in [Repos -> Trackers]
    /\ news \in [Repos -> [ReleaseIds -> {"none", "recorded", "told"}]]
    /\ poller \in [Pollers -> Locals]
    /\ budget \in [Happenings -> Nat]
    /\ choice \in [Repos -> {"on", "off"}] /\ raced \subseteq Repos
    /\ excused \subseteq Repos \X ReleaseIds

(* A part of a list, as its page of so many entries.                       *)
Cut(list, page, size) ==
    LET end == page * size
    IN SubSeq(list, end - size + 1, IF end < Len(list) THEN end ELSE Len(list))

FirstPage(r) == Cut(releases[r], 1, ReleasePage)

(* A tracker begins as an earlier poll of what was published then left it; *)
(* more may have been published since, while polling was switched off.     *)
Tracked(list) ==
    IF list = <<>> THEN [NoRow EXCEPT !.state = "inactive"]
    ELSE [state |-> "tracking", cursor |-> Head(list), etag |-> Cut(list, 1, ReleasePage)]

StarredInit ==
    /\ \E s \in StarScenarios :
          /\ stars = s.stars /\ releases = s.releases /\ budget = s.budget
          /\ trackerOf = [r \in Repos |->
                 IF r \in s.tracked THEN Tracked(s.past[r]) ELSE NoRow]
          /\ excused = UNION {{r} \X ToSet(s.past[r]) : r \in Repos}
    /\ vanished = {}
    /\ news = [r \in Repos |-> [x \in ReleaseIds |-> "none"]]
    /\ poller = [a \in Pollers |-> AtRest]
    /\ choice = [r \in Repos |-> "on"] /\ raced = {}

Spend(what) == budget[what] > 0 /\ budget' = [budget EXCEPT ![what] = @ - 1]

-----------------------------------------------------------------------------
(* GitHub and the user.                                                    *)

InHand(r) == {a \in Pollers : poller[a].repo = r}
Untold(r, ids) == {r} \X {x \in ids : news[r][x] = "none"}
Behind(list, x) ==
    {list[i] : i \in {j \in DOMAIN list : \E k \in 1..(j - 1) : list[k] = x}}

(* A draft published after a younger release stands in front of it and may *)
(* hide it; and its own id may have been passed already, by the row or by  *)
(* a round that has read it.                                               *)
Publish(r, x) ==
    /\ Spend("publish")
    /\ x \notin ToSet(releases[r]) /\ news[r][x] = "none"
    /\ releases' = [releases EXCEPT ![r] = <<x>> \o @]
    /\ LET above == ToSet(releases[r]) \cup {trackerOf[r].cursor, Lead.known[r].cursor}
                     \cup {poller[a].newest : a \in InHand(r)}
       IN excused' = IF \A y \in above : y < x THEN excused
                     ELSE excused \cup Untold(r, ToSet(releases[r]) \cup {x})
    /\ UNCHANGED <<stars, vanished, trackerOf, news, poller, decided>>

(* What stands behind a release that is withdrawn slides up, and may slide *)
(* past the page a poll is at.                                             *)
Withdraw(r, x) ==
    /\ Spend("withdraw")
    /\ \E i \in DOMAIN releases[r] :
          releases[r][i] = x /\ releases' = [releases EXCEPT ![r] = RemoveAt(@, i)]
    /\ excused' = excused \cup
           UNION {Untold(r, Behind(releases[r], x) \ ToSet(poller[a].items)) :
                      a \in InHand(r)}
    /\ UNCHANGED <<stars, vanished, trackerOf, news, poller, decided>>

Vanish(r) ==
    /\ Spend("withdraw")
    /\ vanished' = vanished \cup {r}
    /\ excused' = IF InHand(r) = {} THEN excused
                  ELSE excused \cup Untold(r, ToSet(releases[r]))
    /\ UNCHANGED <<stars, releases, trackerOf, news, poller, decided>>

Reappear(r) ==
    /\ r \in vanished
    /\ vanished' = vanished \ {r}
    /\ UNCHANGED <<stars, releases, trackerOf, news, poller, budget, decided, excused>>

Star(r) ==
    /\ Spend("star")
    /\ r \notin ToSet(stars)
    /\ stars' = <<r>> \o stars
    /\ UNCHANGED <<releases, vanished, trackerOf, news, poller, decided, excused>>

(* Who is listing the stars misses what slides past the page it is at.     *)
Unstar(r) ==
    /\ Spend("star")
    /\ \E i \in DOMAIN stars : stars[i] = r /\ stars' = RemoveAt(stars, i)
    /\ poller' = [a \in Pollers |->
           IF poller[a].job # "sync" THEN poller[a]
           ELSE [poller[a] EXCEPT !.absent =
                     @ \cup {r} \cup (Behind(stars, r) \ poller[a].seen)]]
    /\ UNCHANGED <<releases, vanished, trackerOf, news, decided, excused>>

(* The user switches a tracker off or on again.                            *)
SetState(r, state) ==
    /\ Spend("decide")
    /\ trackerOf[r].state # "none"
    /\ trackerOf' = [trackerOf EXCEPT ![r].state = state]
    /\ choice' = [choice EXCEPT ![r] = IF state = "disabled" THEN "off" ELSE "on"]
    /\ raced' = IF state = "disabled" /\ \E a \in Pollers : poller[a].pc # "idle"
                THEN raced \cup {r} ELSE raced \ {r}
    /\ UNCHANGED <<github, news, poller, excused>>

-----------------------------------------------------------------------------
(* What the rounds have in common.                                         *)

Goes(a, to) == poller' = [poller EXCEPT ![a] = to]
At(a, pc) == [poller[a] EXCEPT !.pc = pc]

(* Done with the repository in hand, the round turns to the next.          *)
Done(a) == [poller[a] EXCEPT !.pc = IF poller[a].job = "sync" THEN "register" ELSE "poll",
                !.repo = NoRepo, !.items = <<>>, !.newest = 0, !.mark = NoTag]

Aside == <<github, decided>>

(* UpdateState of a repository GitHub does not know.  A poll that had the  *)
(* first page moves the cursor all the same.                               *)
AfterGone(a) == IF poller[a].newest = 0 THEN Done(a) ELSE At(a, "cursor")

MarkGone(a) ==
    /\ poller[a].pc = "gone"
    /\ trackerOf' = [trackerOf EXCEPT ![poller[a].repo].state = "unavailable"]
    /\ Goes(a, AfterGone(a))
    /\ UNCHANGED <<Aside, news, budget, excused>>

(* UpdateNoRelease.                                                        *)
MarkEmpty(a) ==
    /\ poller[a].pc = "empty"
    /\ trackerOf' = [trackerOf EXCEPT ![poller[a].repo].state = "inactive"]
    /\ Goes(a, Done(a))
    /\ UNCHANGED <<Aside, news, budget, excused>>

(* UpdatePollResult; a probe brings the tracker back to life after it.     *)
SetCursor(a) ==
    /\ poller[a].pc = "cursor"
    /\ trackerOf' = [trackerOf EXCEPT ![poller[a].repo].cursor = poller[a].newest,
                                     ![poller[a].repo].etag = poller[a].mark]
    /\ Goes(a, IF poller[a].job = "sync" THEN At(a, "revive") ELSE Done(a))
    /\ UNCHANGED <<Aside, news, budget, excused>>

Revive(a) ==
    /\ poller[a].pc = "revive"
    /\ trackerOf' = [trackerOf EXCEPT ![poller[a].repo].state = "tracking"]
    /\ Goes(a, Done(a))
    /\ UNCHANGED <<Aside, news, budget, excused>>

WriteFails(a) ==
    /\ poller[a].pc \in {"gone", "empty", "cursor", "revive"}
    /\ Spend("mishap")
    /\ Goes(a, IF poller[a].pc = "gone" THEN AfterGone(a) ELSE Done(a))
    /\ UNCHANGED <<Aside, trackerOf, news, excused>>

(* Errors that end a round, a rate limit, the process.                     *)
RoundEnds(a) ==
    /\ poller[a].pc # "idle"
    /\ Spend("mishap")
    /\ excused' = excused \cup IF poller[a].pc = "evaluate"
                              THEN {<<poller[a].repo, Head(poller[a].items)>>} ELSE {}
    /\ Goes(a, AtRest)
    /\ UNCHANGED <<Aside, trackerOf, news>>

-----------------------------------------------------------------------------
(* syncStarsLocked.                                                        *)

(* The rows of all trackers; without them the round is given up.           *)
LoadedOrNothing == {trackerOf, [r \in Repos |-> NoRow]}
Loaded == {trackerOf}

Counted == Cardinality({r \in Repos : trackerOf[r].state \notin {"none", "disabled"}})

(* A count that fails lets everything in; without a token nothing is       *)
(* probed.                                                                 *)
SyncBegin(a, counted, token) ==
    /\ poller[a].pc = "idle"
    /\ budget["sync"] > 0
    /\ ~counted \/ ~token => budget["mishap"] > 0
    /\ budget' = [budget EXCEPT !["sync"] = @ - 1,
                                !["mishap"] = IF counted /\ token THEN @ ELSE @ - 1]
    /\ \E map \in Loaded :
          Goes(a, [AtRest EXCEPT
                       !.pc = "stars", !.job = "sync", !.known = map, !.token = token,
                       !.absent = Repos \ ToSet(stars),
                       !.room = IF ~counted THEN Cardinality(Repos)
                                ELSE IF Counted < MaxTrackers THEN MaxTrackers - Counted
                                ELSE 0])
    /\ UNCHANGED <<github, trackerOf, news, decided, excused>>

(* Beyond the last page it may ask for, a round has no complete list and   *)
(* disables nothing.                                                       *)
ListStars(a) ==
    /\ poller[a].pc = "stars"
    /\ LET page == poller[a].page + 1
           got == ToSet(Cut(stars, page, StarPage))
       IN Goes(a, IF page > MaxStarPages THEN AtRest
                  ELSE [poller[a] EXCEPT !.pc = "register", !.page = page, !.left = got,
                            !.seen = @ \cup got, !.more = Len(stars) > page * StarPage])
    /\ UNCHANGED <<Aside, trackerOf, news, budget, excused>>

(* registerIfNew: a repository without a row gets one, or one anew; an     *)
(* inactive one is probed again after a week, or at once if it had a       *)
(* release.  Where another synchronisation has made the row since, it is   *)
(* begun anew, and the probe writes to an id that no row has.              *)
Register(a, r) ==
    /\ poller[a].pc = "register" /\ r \in poller[a].left
    /\ poller[a].known[r].state = "none" /\ poller[a].room > 0
    /\ LET row == [NoRow EXCEPT !.state = "tracking"]
           probes == poller[a].token /\ trackerOf[r].state = "none"
       IN /\ trackerOf' = [trackerOf EXCEPT ![r] = row]
          /\ Goes(a, [poller[a] EXCEPT !.left = @ \ {r}, !.room = @ - 1, !.known[r] = row,
                           !.pc = IF probes THEN "probe" ELSE "register",
                           !.repo = IF probes THEN r ELSE NoRepo])
    /\ UNCHANGED <<Aside, news, budget, excused>>

Recheck(a, r) ==
    /\ poller[a].pc = "register" /\ r \in poller[a].left
    /\ poller[a].known[r].state = "inactive" /\ poller[a].token
    /\ Goes(a, [poller[a] EXCEPT !.left = @ \ {r}, !.pc = "probe", !.repo = r])
    /\ UNCHANGED <<Aside, trackerOf, news, budget, excused>>

(* Known, not due, or beyond the limit; or the row could not be written.   *)
PassOver(a, r) ==
    /\ poller[a].pc = "register" /\ r \in poller[a].left
    /\ LET row == poller[a].known[r]
       IN IF row.state = "none" /\ poller[a].room > 0 THEN Spend("mishap")
          ELSE /\ row.state = "inactive" /\ poller[a].token => row.cursor = 0
               /\ UNCHANGED budget
    /\ Goes(a, [poller[a] EXCEPT !.left = @ \ {r}])
    /\ UNCHANGED <<Aside, trackerOf, news, excused>>

(* probeRelease: nobody is told of what is there already.                  *)
Baseline(a, r) ==
    /\ Goes(a, [poller[a] EXCEPT !.pc = "cursor", !.repo = r,
                     !.newest = Head(releases[r]), !.mark = FirstPage(r)])
    /\ excused' = excused \cup Untold(r, ToSet(releases[r]))

Probe(a) ==
    /\ poller[a].pc = "probe"
    /\ LET r == poller[a].repo
       IN \/ r \in vanished /\ Goes(a, At(a, "gone")) /\ UNCHANGED excused
          \/ r \notin vanished /\ releases[r] = <<>> /\ Goes(a, At(a, "empty"))
             /\ UNCHANGED excused
          \/ r \notin vanished /\ releases[r] # <<>> /\ Baseline(a, r)
    /\ UNCHANGED <<Aside, trackerOf, news, budget>>

ProbeFails(a) ==
    /\ poller[a].pc = "probe"
    /\ Spend("mishap")
    /\ Goes(a, Done(a))
    /\ UNCHANGED <<Aside, trackerOf, news, excused>>

(* ListPollCandidates.                                                     *)
Candidates == {r \in Repos : trackerOf[r].state = "tracking"}

(* After the last page, removeUnstarred looks for what no page had.        *)
PageDone(a) ==
    /\ poller[a].pc = "register" /\ poller[a].left = {}
    /\ Goes(a, IF poller[a].more THEN At(a, "stars")
               ELSE [poller[a] EXCEPT !.pc = "remove",
                         !.left = Candidates \ poller[a].seen])
    /\ UNCHANGED <<Aside, trackerOf, news, budget, excused>>

Disable(a, r) ==
    /\ poller[a].pc = "remove" /\ r \in poller[a].left
    /\ \/ trackerOf' = [trackerOf EXCEPT ![r].state = "disabled"] /\ UNCHANGED budget
       \/ Spend("mishap") /\ UNCHANGED trackerOf
    /\ Goes(a, [poller[a] EXCEPT !.left = @ \ {r}])
    /\ UNCHANGED <<Aside, news, excused>>

SyncDone(a) ==
    /\ poller[a].pc = "remove" /\ poller[a].left = {}
    /\ Goes(a, AtRest)
    /\ UNCHANGED <<Aside, trackerOf, news, budget, excused>>

-----------------------------------------------------------------------------
(* PollReleases.                                                           *)

PollBegin ==
    /\ Lead.pc = "idle"
    /\ Candidates # {}
    /\ Goes(Leader, [AtRest EXCEPT !.pc = "poll", !.job = "poll", !.known = trackerOf,
                          !.left = Candidates])
    /\ UNCHANGED <<Aside, trackerOf, news, budget, excused>>

(* Of a page, the releases before the first that is not newer than the     *)
(* cursor.                                                                 *)
NewIn(list, cursor) ==
    LET first == SelectInSeq(list, LAMBDA x : x <= cursor)
    IN IF first = 0 THEN list ELSE SubSeq(list, 1, first - 1)

(* A page that is full and ends above the cursor is not the last.          *)
NotLast(list, cursor) == Len(list) = ReleasePage /\ Last(list) > cursor

Scanning(r, list, at) ==
    [at EXCEPT !.pc = "scan", !.items = NewIn(list, at.known[r].cursor),
               !.more = NotLast(list, at.known[r].cursor)]

(* The first page of a repository, under the ETag of its row.              *)
Poll(r) ==
    /\ Lead.pc = "poll" /\ Lead.told < MaxBackfill
    /\ r \in Lead.left
    /\ LET known == Lead.known[r]
           list == FirstPage(r)
           changed == r \notin vanished /\ known.etag # list
           To(pc, newest) == [Lead EXCEPT !.left = @ \ {r}, !.page = 1, !.repo = r,
                                  !.pc = pc, !.newest = newest, !.mark = list]
       IN \/ r \in vanished /\ Goes(Leader, To("gone", 0)) /\ UNCHANGED excused
          \/ /\ r \notin vanished /\ known.etag = list
             /\ Goes(Leader, To("cursor", known.cursor))
             /\ UNCHANGED excused
          \/ changed /\ list = <<>> /\ Goes(Leader, To("empty", 0)) /\ UNCHANGED excused
          \/ /\ changed /\ list # <<>> /\ known.cursor = 0
             /\ Goes(Leader, To("cursor", Head(list)))
             /\ excused' = excused \cup Untold(r, ToSet(releases[r]))
          \/ /\ changed /\ list # <<>> /\ known.cursor # 0
             /\ Goes(Leader, Scanning(r, list, To("scan", Head(list))))
             /\ UNCHANGED excused
    /\ UNCHANGED <<Aside, trackerOf, news, budget>>

PollMore ==
    /\ Lead.pc = "list"
    /\ LET at == [Lead EXCEPT !.page = @ + 1]
           r == at.repo
           list == Cut(releases[r], at.page, ReleasePage)
       IN Goes(Leader, IF r \in vanished THEN [at EXCEPT !.pc = "gone"]
                       ELSE IF list = <<>> THEN [at EXCEPT !.pc = "cursor"]
                       ELSE Scanning(r, list, at))
    /\ UNCHANGED <<Aside, trackerOf, news, budget, excused>>

(* A page that cannot be had: the cursor stays.                            *)
PollFails(r) ==
    /\ Spend("mishap")
    /\ \/ /\ Lead.pc = "poll" /\ r \in Lead.left
          /\ Goes(Leader, [Lead EXCEPT !.left = @ \ {r}])
       \/ /\ Lead.pc = "list" /\ r = Lead.repo
          /\ Goes(Leader, Done(Leader))
    /\ UNCHANGED <<Aside, trackerOf, news, excused>>

(* Passed over are those nobody is told of and those that have an event.   *)
ToTell(r, x) == x \notin Prereleases /\ news[r][x] = "none"
IsNext(i) ==
    /\ i \in DOMAIN Lead.items /\ ToTell(Lead.repo, Lead.items[i])
    /\ \A k \in 1..(i - 1) : ~ToTell(Lead.repo, Lead.items[k])

(* createReleaseEvent: the event, then its evaluation.                     *)
RecordRelease ==
    /\ Lead.pc = "scan"
    /\ \E i \in DOMAIN Lead.items :
          /\ IsNext(i)
          /\ news' = [news EXCEPT ![Lead.repo][Lead.items[i]] = "recorded"]
          /\ Goes(Leader, [Lead EXCEPT !.pc = "evaluate",
                               !.items = SubSeq(@, i, Len(@))])
    /\ UNCHANGED <<Aside, trackerOf, budget, excused>>

RecordReleaseFails ==
    /\ Lead.pc = "scan" /\ \E i \in DOMAIN Lead.items : IsNext(i)
    /\ Spend("mishap")
    /\ Goes(Leader, Done(Leader))
    /\ UNCHANGED <<Aside, trackerOf, news, excused>>

(* At the limit the cursor and the ETag stay for the next round.           *)
AtTheLimitMoves(a) == At(a, "cursor")
AtTheLimit(a) == Done(a)

Told(a) ==
    LET told == poller[a].told + 1
    IN IF told = MaxBackfill THEN [AtTheLimit(a) EXCEPT !.told = told]
       ELSE [poller[a] EXCEPT !.pc = "scan", !.items = Tail(@), !.told = told]

EvaluateRelease ==
    /\ Lead.pc = "evaluate"
    /\ LET r == Lead.repo
           x == Head(Lead.items)
       IN \/ /\ news' = [news EXCEPT ![r][x] = "told"]
             /\ UNCHANGED <<budget, excused>>
          \/ /\ Spend("mishap")
             /\ excused' = excused \cup {<<r, x>>}
             /\ UNCHANGED news
    /\ Goes(Leader, Told(Leader))
    /\ UNCHANGED <<Aside, trackerOf>>

Scanned ==
    /\ Lead.pc = "scan" /\ ~\E i \in DOMAIN Lead.items : IsNext(i)
    /\ Goes(Leader, [Lead EXCEPT !.pc = IF Lead.more THEN "list" ELSE "cursor", !.items = <<>>])
    /\ UNCHANGED <<Aside, trackerOf, news, budget, excused>>

PollDone ==
    /\ Lead.pc = "poll"
    /\ Lead.left = {} \/ Lead.told = MaxBackfill
    /\ Goes(Leader, AtRest)
    /\ UNCHANGED <<Aside, trackerOf, news, budget, excused>>

StarredNext ==
    \/ \E r \in Repos, x \in ReleaseIds : Publish(r, x) \/ Withdraw(r, x)
    \/ \E r \in Repos : Vanish(r) \/ Reappear(r) \/ Star(r) \/ Unstar(r)
    \/ \E r \in Repos, s \in {"disabled", "tracking"} : SetState(r, s)
    \/ \E a \in Pollers, counted, token \in BOOLEAN : SyncBegin(a, counted, token)
    \/ \E a \in Pollers :
          \/ MarkGone(a) \/ MarkEmpty(a) \/ SetCursor(a) \/ Revive(a)
          \/ WriteFails(a) \/ RoundEnds(a)
          \/ ListStars(a) \/ Probe(a) \/ ProbeFails(a) \/ PageDone(a) \/ SyncDone(a)
          \/ \E r \in Repos :
                Register(a, r) \/ Recheck(a, r) \/ PassOver(a, r) \/ Disable(a, r)
    \/ PollBegin \/ PollMore \/ PollDone
    \/ \E r \in Repos : Poll(r) \/ PollFails(r)
    \/ RecordRelease \/ RecordReleaseFails \/ EvaluateRelease \/ Scanned

StarredSpec == StarredInit /\ [][StarredNext]_starredVars

-----------------------------------------------------------------------------
BeingTold(r, x) ==
    /\ Lead.pc = "evaluate"
    /\ Lead.repo = r /\ Head(Lead.items) = x

(* A release the cursor has passed, or that the ETag keeps from being      *)
(* listed again, was told: none is lost between pages, at the limit of a   *)
(* round, at an error or by a second synchronisation.  Excused are those   *)
(* of a baseline, those of a mishap between event and evaluation, and      *)
(* those GitHub listed out of order or moved while it was asked.           *)
ReleasesTold ==
    \A r \in Repos : \A x \in ToSet(releases[r]) \ Prereleases :
        trackerOf[r].state # "none"
          /\ (x <= trackerOf[r].cursor \/ trackerOf[r].etag = FirstPage(r))
        => news[r][x] = "told" \/ <<r, x>> \in excused \/ BeingTold(r, x)

(* A synchronisation disables a tracker only if the repository was missing *)
(* from the stars, or slid between pages, while it listed them; and what   *)
(* the user has switched off stays off until he switches it on, unless a   *)
(* round had read the row before.                                          *)
DisabledIsTheUsers ==
    [][\A r \in Repos :
          /\ (trackerOf[r].state # "disabled" /\ trackerOf'[r].state = "disabled" =>
                 choice'[r] = "off" \/ \E a \in Pollers : r \in poller[a].absent)
          /\ (trackerOf[r].state = "disabled" /\ trackerOf'[r].state # "disabled" =>
                 choice[r] = "on" \/ choice'[r] = "on" \/ r \in raced)]_starredVars
=============================================================================
