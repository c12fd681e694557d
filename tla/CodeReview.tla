----------------------------- MODULE CodeReview -----------------------------
(***************************************************************************)
(* The automatic and the manual reviews of one pull request                *)
(* (webhooksvc/code_review.go): webhooks arm a debouncer's timer, the      *)
(* timer's callback and an operator's request enter the review in the      *)
(* tracker of reviews in flight, the review stores its report and comments *)
(* on the pull request, and App.Close stops both and waits.                *)
(*                                                                         *)
(* Service makes its debouncer and its tracker when it first needs them,   *)
(* without a lock: two callers that both find none make two, and the later *)
(* one stays.  They are numbered in the order they are made.               *)
(*                                                                         *)
(* Bounds: a scenario limits the heads that are pushed, the webhooks that  *)
(* are processed once more, the requests and the failing calls, and says   *)
(* whether the application closes.                                         *)
(***************************************************************************)
EXTENDS Naturals, FiniteSets

CONSTANTS MaxHead, MaxCallers, ReviewScenarios

ASSUME ReviewAssumption ==
    /\ MaxHead \in Nat \ {0} /\ MaxCallers \in Nat
    /\ ReviewScenarios \subseteq [heads : 1..MaxHead, resent : Nat, clicks : Nat, errors : Nat,
                                  closes : BOOLEAN]
    /\ \A s \in ReviewScenarios : s.heads + s.resent + s.clicks <= MaxCallers

VARIABLES
    limit,      \* the scenario
    pushed,     \* the newest head of the pull request
    hooks,      \* webhooks on their way: the head, and whether sent again
    resent,     \* heads whose webhook was sent again
    debouncer,  \* how many debouncers were made, the last is s.debouncer
    entry,      \* debouncer -> its entry of the pull request
    armed,      \* number of entries made
    timers,     \* entries whose timer runs
    callbacks,  \* entries whose timer has fired, their callback not yet run
    callers,    \* handlers and callbacks on their way to schedule or acquire
    tracker,    \* how many trackers were made, the last is s.reviews
    inFlight,   \* tracker -> heads entered in it
    refusing,   \* trackers that are stopped
    halted,     \* debouncers that are stopped
    reviews,    \* goroutines of launchReview
    report,     \* the setting ai.pr_review.<item>
    phase,      \* of App.Close: "up", "stopping", "tracker", "debouncer", "waiting", "closed"
    waits,      \* the tracker WaitReviews waits for
    gaveUp,     \* its context ended first
    clicks, errors,
    owed,       \* the head last scheduled, until it is reviewed or cancelled
    comments,   \* head -> comments, of automatic reviews and of others
    displaced   \* heads whose report another's replaced, or could not be read

schedulers == <<debouncer, entry, armed, timers, callbacks>>
trackers == <<tracker, inFlight, refusing>>
closing == <<phase, waits, gaveUp>>
outcome == <<report, comments, displaced>>
reviewVars == <<limit, pushed, resent, hooks, schedulers, callers, trackers, halted, reviews,
                closing, clicks, errors, owed, outcome>>

Heads == 1..MaxHead
Kinds == {"auto", "manual"}
Ids == 0..MaxCallers   \* entries, debouncers and trackers, each made by one caller
NoEntry == [n |-> 0, deb |-> 0, head |-> 0]
Entries == [n : Ids, deb : Ids, head : 0..MaxHead]
CallerStages == {"schedule", "prefix", "detail", "acquire"}
Steps == {"start", "working", "commenting", "marking"}

ReviewTypeOK ==
    /\ limit \in ReviewScenarios
    /\ pushed \in Heads
    /\ hooks \subseteq [head : Heads, again : BOOLEAN] /\ resent \subseteq Heads
    /\ debouncer \in Ids /\ entry \in [Ids -> Entries] /\ armed \in Ids
    /\ timers \subseteq Entries /\ callbacks \subseteq Entries
    /\ callers \subseteq [n : Ids, kind : Kinds, at : CallerStages, head : 0..MaxHead, saw : Ids]
    /\ tracker \in Ids /\ inFlight \in [Ids -> SUBSET Heads]
    /\ refusing \subseteq Ids /\ halted \subseteq Ids
    /\ reviews \subseteq [n : Ids, kind : Kinds, head : Heads, step : Steps, of : Ids]
    /\ report \in [head : 0..MaxHead, commented : BOOLEAN]
    /\ phase \in {"up", "stopping", "tracker", "debouncer", "waiting", "closed"}
    /\ waits \in Ids /\ gaveUp \in BOOLEAN
    /\ clicks \in 0..limit.clicks /\ errors \in 0..limit.errors
    /\ owed \in 0..MaxHead
    /\ comments \in [Heads -> [Kinds -> Nat]]
    /\ displaced \subseteq Heads

ReviewInit ==
    /\ limit \in ReviewScenarios
    /\ pushed = 1 /\ hooks = {[head |-> 1, again |-> FALSE]} /\ resent = {}
    /\ debouncer = 0 /\ entry = [d \in Ids |-> NoEntry] /\ armed = 0
    /\ timers = {} /\ callbacks = {} /\ callers = {}
    /\ tracker = 0 /\ inFlight = [t \in Ids |-> {}] /\ refusing = {} /\ halted = {}
    /\ reviews = {} /\ report = [head |-> 0, commented |-> FALSE]
    /\ phase = "up" /\ waits = 0 /\ gaveUp = FALSE
    /\ clicks = 0 /\ errors = 0
    /\ owed = 0 /\ comments = [h \in Heads |-> [k \in Kinds |-> 0]] /\ displaced = {}

Error == errors < limit.errors /\ errors' = errors + 1

-----------------------------------------------------------------------------
(* Pushes and their webhooks, in any order.                                *)

Push ==
    /\ pushed < limit.heads
    /\ pushed' = pushed + 1
    /\ hooks' = hooks \cup {[head |-> pushed', again |-> FALSE]}
    /\ UNCHANGED <<limit, resent, schedulers, callers, trackers, halted, reviews, closing,
                   clicks, errors, owed, outcome>>

(* A delivery processed once more, by the orphan recovery or a replay.     *)
Redeliver(h) ==
    /\ h <= pushed /\ h \notin resent /\ Cardinality(resent) < limit.resent
    /\ resent' = resent \cup {h}
    /\ hooks' = hooks \cup {[head |-> h, again |-> TRUE]}
    /\ UNCHANGED <<limit, pushed, schedulers, callers, trackers, halted, reviews, closing,
                   clicks, errors, owed, outcome>>

(* maybeTriggerAICodeReview, up to getDebouncer.  Once the background      *)
(* context is cancelled the work item is not found and nothing follows.    *)
LookUp(h) ==
    /\ hooks' = hooks \ {h}
    /\ callers' = IF phase = "up"
                THEN callers \cup {[n |-> IF h.again THEN 1 ELSE 0, kind |-> "auto",
                                  at |-> "schedule", head |-> h.head, saw |-> debouncer]}
                ELSE callers
    /\ UNCHANGED <<limit, pushed, resent, schedulers, trackers, halted, reviews, closing,
                   clicks, errors, owed, outcome>>

-----------------------------------------------------------------------------
(* The debouncer.                                                          *)

(* What a caller uses that saw the last of `made'.                         *)
Used(saw, made) == IF saw = 0 THEN made + 1 ELSE saw
Made(saw, made) == IF saw = 0 THEN made + 1 ELSE made

Schedule(t) ==
    /\ t.at = "schedule"
    /\ callers' = callers \ {t}
    /\ LET d == Used(t.saw, debouncer)
           e == [n |-> armed + 1, deb |-> d, head |-> t.head]
       IN /\ debouncer' = Made(t.saw, debouncer)
          /\ IF d \in halted
             THEN UNCHANGED <<entry, armed, timers, owed>>
             ELSE /\ entry' = [entry EXCEPT ![d] = e]
                  /\ armed' = armed + 1
                  /\ timers' = (timers \ {entry[d]}) \cup {e}
                  /\ owed' = t.head
    /\ UNCHANGED <<limit, pushed, resent, hooks, callbacks, trackers, halted, reviews, closing,
                   clicks, errors, outcome>>

(* A timer runs longer than App.Close takes.                               *)
TimerFires(e) ==
    /\ phase # "closed"
    /\ timers' = timers \ {e}
    /\ callbacks' = callbacks \cup {e}
    /\ UNCHANGED <<limit, pushed, resent, hooks, debouncer, entry, armed, callers, trackers,
                   halted, reviews, closing, clicks, errors, owed, outcome>>

(* The callback goes on if its entry is still the debouncer's.             *)
StaleNever(e) == entry[e.deb] = NoEntry       \* variant: any entry will do
Stale(e) == entry[e.deb] # e

Callback(e) ==
    /\ callbacks' = callbacks \ {e}
    /\ IF e.deb \in halted \/ Stale(e)
       THEN UNCHANGED <<entry, callers>>
       ELSE /\ entry' = [entry EXCEPT ![e.deb] = NoEntry]
            /\ callers' = callers \cup {[n |-> e.n, kind |-> "auto", at |-> "acquire",
                                     head |-> e.head, saw |-> tracker]}
    /\ UNCHANGED <<limit, pushed, resent, hooks, debouncer, armed, timers, trackers, halted,
                   reviews, closing, clicks, errors, owed, outcome>>

-----------------------------------------------------------------------------
(* TriggerWorkItemReviewWithOptions.                                       *)

Click ==
    /\ phase = "up" /\ clicks < limit.clicks
    /\ clicks' = clicks + 1
    /\ LET d == Used(debouncer, debouncer)
       IN /\ debouncer' = d
          /\ timers' = timers \ {entry[d]}
          /\ entry' = [entry EXCEPT ![d] = NoEntry]
          /\ owed' = IF entry[d].head = owed THEN 0 ELSE owed
    /\ callers' = callers \cup {[n |-> clicks', kind |-> "manual", at |-> "prefix", head |-> 0,
                             saw |-> tracker]}
    /\ UNCHANGED <<limit, pushed, resent, hooks, armed, callbacks, trackers, halted, reviews,
                   closing, errors, outcome>>

(* inFlightPrefix: whatever head is being reviewed, the request ends.      *)
Prefix(t) ==
    /\ t.at = "prefix"
    /\ LET u == Used(t.saw, tracker)
       IN callers' = (callers \ {t}) \cup
                   (IF inFlight[u] = {} THEN {[t EXCEPT !.at = "detail", !.saw = u]} ELSE {})
    /\ tracker' = Made(t.saw, tracker)
    /\ UNCHANGED <<limit, pushed, resent, hooks, schedulers, inFlight, refusing, halted,
                   reviews, closing, clicks, errors, owed, outcome>>

(* GetPRDetail tells the head of the moment.                               *)
Detail(t) ==
    /\ t.at = "detail"
    /\ callers' = (callers \ {t}) \cup
                  {[t EXCEPT !.at = "acquire", !.head = pushed, !.saw = tracker]}
    /\ UNCHANGED <<limit, pushed, resent, hooks, schedulers, trackers, halted, reviews,
                   closing, clicks, errors, owed, outcome>>

DetailFails(t) ==
    /\ t.at = "detail"
    /\ Error
    /\ callers' = callers \ {t}
    /\ UNCHANGED <<limit, pushed, resent, hooks, schedulers, trackers, halted, reviews,
                   closing, clicks, owed, outcome>>

-----------------------------------------------------------------------------
(* The tracker and the review.                                             *)

RefusesRunning(u, h) == h \in inFlight[u]     \* variant: it grants after stop, too
Refuses(u, h) == u \in refusing \/ h \in inFlight[u]

(* acquire, and launchReview if it is granted.                             *)
Acquire(t) ==
    /\ t.at = "acquire"
    /\ callers' = callers \ {t}
    /\ tracker' = Made(t.saw, tracker)
    /\ owed' = IF t.head = owed THEN 0 ELSE owed
    /\ LET u == Used(t.saw, tracker)
       IN IF Refuses(u, t.head)
          THEN UNCHANGED <<inFlight, reviews>>
          ELSE /\ inFlight' = [inFlight EXCEPT ![u] = @ \cup {t.head}]
               /\ reviews' = reviews \cup {[n |-> t.n, kind |-> t.kind, head |-> t.head,
                                            step |-> "start", of |-> 0]}
    /\ UNCHANGED <<limit, pushed, resent, hooks, schedulers, refusing, halted, closing, clicks,
                   errors, outcome>>

GoesOn(v, step) == reviews' = (reviews \ {v}) \cup {[v EXCEPT !.step = step]}
Ends(v) ==
    /\ reviews' = reviews \ {v}
    /\ inFlight' = [inFlight EXCEPT ![v.of] = @ \ {v.head}]

StoredNever(v) == FALSE                       \* variant: it is always reviewed anew
AlreadyStored(v) == v.kind = "auto" /\ report.head = v.head

(* The goroutine asks for the tracker it will release, which need not be   *)
(* the one that granted it; reviewAlreadyStored ends an automatic review.  *)
Reads(v) ==
    /\ v.step = "start"
    /\ reviews' = (reviews \ {v}) \cup
                  (IF AlreadyStored(v) THEN {}
                   ELSE {[v EXCEPT !.step = "working", !.of = tracker]})
    /\ inFlight' = IF AlreadyStored(v) THEN [inFlight EXCEPT ![tracker] = @ \ {v.head}]
                   ELSE inFlight
    /\ UNCHANGED <<limit, pushed, resent, hooks, schedulers, callers, tracker, refusing, halted,
                   closing, clicks, errors, owed, outcome>>

(* A report that cannot be read does not end it.                           *)
ReadFails(v) ==
    /\ v.step = "start"
    /\ Error
    /\ reviews' = (reviews \ {v}) \cup {[v EXCEPT !.step = "working", !.of = tracker]}
    /\ displaced' = displaced \cup {v.head}
    /\ UNCHANGED <<limit, pushed, resent, hooks, schedulers, callers, trackers, halted, closing,
                   clicks, owed, report, comments>>

Put(h, commented) ==
    /\ report' = [head |-> h, commented |-> commented]
    /\ displaced' = IF report.head \in {0, h} THEN displaced ELSE displaced \cup {report.head}

(* persistPRReview: the whole report, which says nothing of comments.      *)
Stores(v) ==
    /\ v.step = "working"
    /\ Put(v.head, FALSE)
    /\ GoesOn(v, "commenting")
    /\ UNCHANGED <<limit, pushed, resent, hooks, schedulers, callers, trackers, halted, closing,
                   clicks, errors, owed, comments>>

(* evaluatePRGate: documentation only; the report says so.                 *)
Skips(v) ==
    /\ v.step = "working"
    /\ Put(v.head, FALSE)
    /\ Ends(v)
    /\ UNCHANGED <<limit, pushed, resent, hooks, schedulers, callers, tracker, refusing, halted,
                   closing, clicks, errors, owed, comments>>

(* reviewCommentedForHead, and the comment if it says no.                  *)
Comments(v) ==
    /\ v.step = "commenting"
    /\ IF report = [head |-> v.head, commented |-> TRUE]
       THEN Ends(v) /\ UNCHANGED comments
       ELSE /\ GoesOn(v, "marking") /\ UNCHANGED inFlight
            /\ comments' = [comments EXCEPT ![v.head][v.kind] = @ + 1]
    /\ UNCHANGED <<limit, pushed, resent, hooks, schedulers, callers, tracker, refusing, halted,
                   closing, clicks, errors, owed, report, displaced>>

MarksComment(v) ==
    /\ v.step = "marking"
    /\ Put(v.head, TRUE)
    /\ Ends(v)
    /\ UNCHANGED <<limit, pushed, resent, hooks, schedulers, callers, tracker, refusing, halted,
                   closing, clicks, errors, owed, comments>>

(* No diff, no answer of the model, or a write or a comment that fails.    *)
ReviewFails(v) ==
    /\ v.step # "start"
    /\ Error
    /\ Ends(v)
    /\ UNCHANGED <<limit, pushed, resent, hooks, schedulers, callers, tracker, refusing, halted,
                   closing, clicks, owed, outcome>>

-----------------------------------------------------------------------------
(* App.Close, after the background context is cancelled.                   *)

Stops ==
    /\ limit.closes
    /\ phase = "up"
    /\ phase' = "stopping"
    /\ UNCHANGED <<limit, pushed, resent, hooks, schedulers, callers, trackers, halted, reviews,
                   waits, gaveUp, clicks, errors, owed, outcome>>

(* StopReviews, once the server has waited for its handlers: only what was *)
(* made by now is stopped.                                                 *)
StopTracker ==
    /\ phase = "stopping"
    /\ \A t \in callers : t.kind = "auto"
    /\ phase' = "tracker"
    /\ refusing' = IF tracker = 0 THEN {} ELSE {tracker}
    /\ UNCHANGED <<limit, pushed, resent, hooks, schedulers, callers, tracker, inFlight, halted,
                   reviews, waits, gaveUp, clicks, errors, owed, outcome>>

StopDebouncer ==
    /\ phase = "tracker"
    /\ phase' = "waiting"
    /\ halted' = IF debouncer = 0 THEN {} ELSE {debouncer}
    /\ timers' = timers \ {entry[debouncer]}
    /\ entry' = [entry EXCEPT ![debouncer] = NoEntry]
    /\ waits' = tracker
    /\ UNCHANGED <<limit, pushed, resent, hooks, debouncer, armed, callbacks, callers, trackers,
                   reviews, gaveUp, clicks, errors, owed, outcome>>

(* WaitReviews.                                                            *)
Drained ==
    /\ phase = "waiting"
    /\ inFlight[waits] = {}
    /\ phase' = "closed"
    /\ UNCHANGED <<limit, pushed, resent, hooks, schedulers, callers, trackers, halted, reviews,
                   waits, gaveUp, clicks, errors, owed, outcome>>

CloseGivesUp ==
    /\ phase = "waiting"
    /\ inFlight[waits] # {}
    /\ phase' = "closed" /\ gaveUp' = TRUE
    /\ UNCHANGED <<limit, pushed, resent, hooks, schedulers, callers, trackers, halted, reviews,
                   waits, clicks, errors, owed, outcome>>

ReviewNext ==
    \/ Push
    \/ \E h \in Heads : Redeliver(h)
    \/ \E h \in hooks : LookUp(h)
    \/ \E t \in callers : Schedule(t) \/ Prefix(t) \/ Detail(t) \/ DetailFails(t) \/ Acquire(t)
    \/ \E e \in timers : TimerFires(e)
    \/ \E e \in callbacks : Callback(e)
    \/ Click
    \/ \E v \in reviews :
           \/ Reads(v) \/ ReadFails(v)
           \/ Stores(v) \/ Skips(v)
           \/ Comments(v) \/ MarksComment(v) \/ ReviewFails(v)
    \/ Stops \/ StopTracker \/ StopDebouncer \/ Drained \/ CloseGivesUp

ReviewSpec == ReviewInit /\ [][ReviewNext]_reviewVars

-----------------------------------------------------------------------------
(* Of a burst of pushes the head scheduled last is reviewed: until it has  *)
(* entered the tracker, or a request has cancelled it, its timer runs or   *)
(* its callback is on the way and will not find itself replaced.           *)
NewestReviewed ==
    owed # 0 /\ phase = "up" =>
        \/ \E e \in timers \cup callbacks : e.head = owed /\ entry[e.deb] = e
        \/ \E t \in callers : t.at = "acquire" /\ t.kind = "auto" /\ t.head = owed

(* Automatic reviews comment once on a head, however often its webhook is  *)
(* processed, unless another head's report took the place of its own; the  *)
(* tracker must be the only one made.                                      *)
AutoCommentsOnce ==
    \A h \in Heads : comments[h]["auto"] > 1 => h \in displaced \/ tracker > 1

(* App.Close that has waited to the end closes the database under no       *)
(* review and none begins later, provided it found the only tracker made.  *)
DrainedMeansQuiet ==
    phase = "closed" /\ ~gaveUp /\ refusing = {1} /\ tracker = 1 => reviews = {}

(* A head is commented on once: reviewCommentedForHead is there "so that   *)
(* repeated manual triggers do not flood the pull request".                *)
CommentedOnce ==
    \A h \in Heads :
        comments[h]["auto"] + comments[h]["manual"] > 1 => h \in displaced \/ tracker > 1
=============================================================================
