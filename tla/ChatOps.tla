------------------------------- MODULE ChatOps -------------------------------
(***************************************************************************)
(* Operator actions (internal/chatops, internal/sideeffect): a button in a *)
(* chat message carries a one-time token, an administrator's page carries  *)
(* an idempotency key.  A click claims the token, passes the actor and     *)
(* guardrail checks, writes a pending receipt for the action's subject,    *)
(* calls GitHub, and settles receipt and token by the call's outcome.      *)
(* Clicks arrive at any replica: all state below is rows of the database,  *)
(* apart from where each handler stands.                                   *)
(***************************************************************************)
EXTENDS Naturals, FiniteSets

CONSTANTS
    Clicks,     \* callback and page requests, each handled once
    Tokens,     \* issued buttons
    Keys,       \* subjects of receipts: a workflow run, or an issue and token
    Actors,     \* operators of the chat platforms
    Operators,  \* the actors the whitelist admits
    KeyOf,      \* the receipt key each token's action writes under
    WebKeys,    \* the keys of page requests
    Bound,      \* the actors a token accepts (all, when it is unbound)
    Risky,      \* keys of high and critical actions
    MaxFaults,  \* bound: storage errors and crashes
    None        \* no token, actor or key yet

ASSUME ChatOpsAssumption ==
    /\ Operators \subseteq Actors
    /\ KeyOf \in [Tokens -> Keys]
    /\ WebKeys \subseteq Keys
    /\ Bound \in [Tokens -> SUBSET Actors]
    /\ Risky \subseteq Keys
    /\ MaxFaults \in Nat
    /\ None \notin Tokens \cup Actors \cup Keys

VARIABLES
    token,      \* token row: fresh, consumed, or removed
    expired,    \* tokens past their expiry
    claims,     \* tokens with a claim row
    receipt,    \* receipt row of each key, "none" when there is none
    pc,         \* where each click's handler stands
    held,       \* the token a click consumed, None for a page request
    actor,      \* who pressed the button
    key,        \* the key a click works on
    answer,     \* what the click was told
    effects,    \* history: times the effect took place, per key
    doubtful,   \* history: effects of calls answered with a server error
    faults      \* storage errors and crashes so far

vars == <<token, expired, claims, receipt, pc, held, actor, key, answer,
          effects, doubtful, faults>>

rows    == <<token, claims>>
history == <<effects, doubtful>>
click   == <<held, actor, key>>

TokenStates   == {"fresh", "consumed", "gone"}
ReceiptStates == {"none", "pending", "succeeded", "unknown"}

\* Stages of a click that have the token in hand; the second set also has
\* the key's pending receipt.
Checking  == {"bind", "guard", "load", "release"}
Executing == {"prelude", "call", "book", "doubt", "drop"}

\* Outcome.Status, "none" before there is one.
Answers == {"none", "executed", "already_done", "pending", "indeterminate",
            "retryable_failure", "forbidden", "invalid_token",
            "guardrail_denied", "guardrail_unavailable"}

TypeOK ==
    /\ token \in [Tokens -> TokenStates]
    /\ expired \subseteq Tokens
    /\ claims \subseteq Tokens
    /\ receipt \in [Keys -> ReceiptStates]
    /\ pc \in [Clicks -> {"new", "done"} \cup Checking \cup Executing]
    /\ held \in [Clicks -> Tokens \cup {None}]
    /\ actor \in [Clicks -> Actors \cup {None}]
    /\ key \in [Clicks -> Keys \cup {None}]
    /\ answer \in [Clicks -> Answers]
    /\ effects \in [Keys -> Nat]
    /\ doubtful \in [Keys -> Nat]
    /\ faults \in 0..MaxFaults

Init ==
    /\ token = [t \in Tokens |-> "fresh"]
    /\ expired = {}
    /\ claims = {}
    /\ receipt = [k \in Keys |-> "none"]
    /\ pc = [c \in Clicks |-> "new"]
    /\ held = [c \in Clicks |-> None]
    /\ actor = [c \in Clicks |-> None]
    /\ key = [c \in Clicks |-> None]
    /\ answer = [c \in Clicks |-> "none"]
    /\ effects = [k \in Keys |-> 0]
    /\ doubtful = [k \in Keys |-> 0]
    /\ faults = 0

Fault == faults < MaxFaults /\ faults' = faults + 1

Goto(c, stage) == pc' = [pc EXCEPT ![c] = stage]

Tell(c, status) == answer' = [answer EXCEPT ![c] = status]

\* The handler returns: the click is over.
Finish(c, status) == Goto(c, "done") /\ Tell(c, status)

\* What a failed click does with its token: button clicks give it back,
\* page requests have none.
GiveBack(c) == IF held[c] = None THEN "done" ELSE "release"

Holds(c, t) == held[c] = t /\ pc[c] \in Checking \cup Executing

-----------------------------------------------------------------------------
(* Token store *)

\* Variant of Available: no check of earlier clicks.
AvailableUnclaimed(t) == token[t] # "gone" /\ t \notin expired

\* Consume's transaction commits: no claim row, the token is there, neither
\* consumed nor expired.
Available(t) == t \notin claims /\ token[t] = "fresh" /\ t \notin expired

Take(t) ==
    /\ claims' = claims \cup {t}
    /\ token' = [token EXCEPT ![t] = "consumed"]

\* A button click of a whitelisted operator consumes the token.
Consume(c, t, a) ==
    /\ pc[c] = "new" /\ a \in Operators
    /\ Available(t)
    /\ Take(t)
    /\ held' = [held EXCEPT ![c] = t]
    /\ actor' = [actor EXCEPT ![c] = a]
    /\ key' = [key EXCEPT ![c] = KeyOf[t]]
    /\ Goto(c, "bind")
    /\ UNCHANGED <<expired, receipt, answer, history, faults>>

\* The whitelist does not admit the actor, or the transaction is rolled back.
Refuse(c, t, a) ==
    /\ pc[c] = "new"
    /\ \/ a \notin Operators /\ Finish(c, "forbidden")
       \/ a \in Operators /\ ~Available(t) /\ Finish(c, "invalid_token")
    /\ UNCHANGED <<rows, expired, receipt, click, history, faults>>

\* Consume reports an error: rolled back, or committed with the reply lost.
ConsumeFails(c, t, a) ==
    /\ pc[c] = "new" /\ a \in Operators
    /\ Available(t)
    /\ Fault
    /\ Take(t) \/ UNCHANGED rows
    /\ Finish(c, "invalid_token")
    /\ UNCHANGED <<expired, receipt, click, history>>

\* Release's transaction, with a context of its own.  Without the token row
\* it rolls back and the claim stays.
Release(c) ==
    /\ pc[c] = "release"
    /\ IF token[held[c]] = "gone"
         THEN UNCHANGED rows
         ELSE /\ claims' = claims \ {held[c]}
              /\ token' = [token EXCEPT ![held[c]] = "fresh"]
    /\ Goto(c, "done")
    /\ UNCHANGED <<expired, receipt, click, answer, history, faults>>

\* Its error is ignored by every caller.
ReleaseFails(c) ==
    /\ pc[c] = "release"
    /\ Fault
    /\ Goto(c, "done")
    /\ UNCHANGED <<rows, expired, receipt, click, answer, history>>

-----------------------------------------------------------------------------
(* Checks before execution *)

\* A page request of an administrator: no token, its key chosen by the page.
WebAction(c, k) ==
    /\ pc[c] = "new"
    /\ key' = [key EXCEPT ![c] = k]
    /\ Goto(c, "guard")
    /\ UNCHANGED <<rows, expired, receipt, held, actor, answer, history, faults>>

\* Variant of CheckActor: a mismatch keeps the token.
CheckActorKeeps(c) ==
    /\ pc[c] = "bind"
    /\ \/ actor[c] \in Bound[held[c]] /\ Goto(c, "guard") /\ UNCHANGED answer
       \/ actor[c] \notin Bound[held[c]] /\ Finish(c, "forbidden")
    /\ UNCHANGED <<rows, expired, receipt, click, history, faults>>

\* VerifyActorBinding; a mismatch gives the token back.
CheckActor(c) ==
    /\ pc[c] = "bind"
    /\ \/ actor[c] \in Bound[held[c]] /\ Goto(c, "guard") /\ UNCHANGED answer
       \/ actor[c] \notin Bound[held[c]] /\ Goto(c, "release") /\ Tell(c, "forbidden")
    /\ UNCHANGED <<rows, expired, receipt, click, history, faults>>

\* checkGuardrail: actions of low and medium risk pass, and the others do in
\* the shadow and advisory modes; in active mode they need an explicit allow.
GuardPass(c) ==
    /\ pc[c] = "guard"
    /\ Goto(c, "load")
    /\ UNCHANGED <<rows, expired, receipt, click, answer, history, faults>>

\* A denial keeps the token consumed.
GuardDeny(c) ==
    /\ pc[c] = "guard" /\ key[c] \in Risky
    /\ Finish(c, "guardrail_denied")
    /\ UNCHANGED <<rows, expired, receipt, click, history, faults>>

\* failUnavailable: no verdict in time, or one without confidence.
GuardUnavailable(c) ==
    /\ pc[c] = "guard" /\ key[c] \in Risky
    /\ Goto(c, GiveBack(c))
    /\ Tell(c, "guardrail_unavailable")
    /\ UNCHANGED <<rows, expired, receipt, click, history, faults>>

-----------------------------------------------------------------------------
(* Executor and receipts *)

\* Repository, installation or its access token is not to be had.
LoadFails(c) ==
    /\ pc[c] = "load"
    /\ Goto(c, GiveBack(c))
    /\ Tell(c, "retryable_failure")
    /\ UNCHANGED <<rows, expired, receipt, click, history, faults>>

\* Step 1 of ExecuteWithReceiptDetail: the unique key admits one executor.
CreateReceipt(c) ==
    /\ pc[c] = "load"
    /\ receipt[key[c]] = "none"
    /\ receipt' = [receipt EXCEPT ![key[c]] = "pending"]
    /\ Goto(c, "prelude")
    /\ UNCHANGED <<rows, expired, click, answer, history, faults>>

\* What an existing receipt answers.
Recorded(r) ==
    CASE r = "succeeded" -> "already_done"
      [] r = "pending"   -> "pending"
      [] OTHER           -> "indeterminate"

\* The key has a receipt: nothing is executed, the token stays consumed.
FindReceipt(c) ==
    /\ pc[c] = "load"
    /\ receipt[key[c]] # "none"
    /\ Finish(c, Recorded(receipt[key[c]]))
    /\ UNCHANGED <<rows, expired, receipt, click, history, faults>>

\* The insert reports an error, done or not.  An error that reads like a
\* timeout or a cancelled request counts as an outcome in doubt.
ReceiptFails(c) ==
    /\ pc[c] = "load"
    /\ Fault
    /\ \/ UNCHANGED receipt
       \/ receipt[key[c]] = "none" /\ receipt' = [receipt EXCEPT ![key[c]] = "pending"]
    /\ \/ Finish(c, "indeterminate")
       \/ Goto(c, GiveBack(c)) /\ Tell(c, "retryable_failure")
    /\ UNCHANGED <<rows, expired, click, history>>

\* The calls an action makes before its effect (close, labels): GitHub takes
\* them twice without harm.  Any of them may end the execution.
Prelude(c) ==
    /\ pc[c] = "prelude"
    /\ \E stage \in {"call", "drop", "doubt"} : Goto(c, stage)
    /\ UNCHANGED <<rows, expired, receipt, click, answer, history, faults>>

Apply(c) == effects' = [effects EXCEPT ![key[c]] = @ + 1]

\* The effect: a comment, a review, a rerun.
Call(c) ==
    /\ pc[c] = "call"
    /\ Goto(c, "book")
    /\ Apply(c)
    /\ UNCHANGED <<rows, expired, receipt, click, answer, doubtful, faults>>

\* Refused, or answered with a server error, after which the effect may have
\* taken place all the same: both count as a definite refusal.
CallRefused(c) ==
    /\ pc[c] = "call"
    /\ Goto(c, "drop")
    /\ \/ UNCHANGED history
       \/ /\ Apply(c)
          /\ doubtful' = [doubtful EXCEPT ![key[c]] = @ + 1]
    /\ UNCHANGED <<rows, expired, receipt, click, answer, faults>>

\* Variant of CallLost: a lost answer counts as a refusal.
CallLostRefused(c) ==
    /\ pc[c] = "call"
    /\ Goto(c, "drop")
    /\ Apply(c) \/ UNCHANGED effects
    /\ UNCHANGED <<rows, expired, receipt, click, answer, doubtful, faults>>

\* No answer (timeout, reset, request cancelled), effect or not.
CallLost(c) ==
    /\ pc[c] = "call"
    /\ Goto(c, "doubt")
    /\ Apply(c) \/ UNCHANGED effects
    /\ UNCHANGED <<rows, expired, receipt, click, answer, doubtful, faults>>

\* The receipt becomes final.
Book(c) ==
    /\ pc[c] = "book"
    /\ receipt' = [receipt EXCEPT ![key[c]] = "succeeded"]
    /\ Finish(c, "executed")
    /\ UNCHANGED <<rows, expired, click, history, faults>>

Doubt(c) ==
    /\ pc[c] = "doubt"
    /\ receipt' = [receipt EXCEPT ![key[c]] = "unknown"]
    /\ Finish(c, "indeterminate")
    /\ UNCHANGED <<rows, expired, click, history, faults>>

\* Neither could be written: the pending row stays and blocks repeats.
RecordFails(c) ==
    /\ pc[c] \in {"book", "doubt"}
    /\ Fault
    /\ Finish(c, "indeterminate")
    /\ UNCHANGED <<rows, expired, receipt, click, history>>

\* After a refusal the receipt is deleted, so that a retry may execute; the
\* deletion's error is ignored.
Drop(c) ==
    /\ pc[c] = "drop"
    /\ \/ receipt' = [receipt EXCEPT ![key[c]] = "none"] /\ UNCHANGED faults
       \/ Fault /\ UNCHANGED receipt
    /\ Goto(c, GiveBack(c))
    /\ Tell(c, "retryable_failure")
    /\ UNCHANGED <<rows, expired, click, history>>

\* The handler's process dies; a request already sent may still be served.
Crash(c) ==
    /\ pc[c] \in Checking \cup Executing
    /\ Fault
    /\ Goto(c, "done")
    /\ \/ pc[c] = "call" /\ Apply(c)
       \/ UNCHANGED effects
    /\ UNCHANGED <<rows, expired, receipt, click, answer, doubtful>>

-----------------------------------------------------------------------------
(* Time and the cleanup of transient settings *)

Expire(t) ==
    /\ t \notin expired
    /\ expired' = expired \cup {t}
    /\ UNCHANGED <<rows, receipt, pc, click, answer, history, faults>>

\* Claims live an hour, longer than any handler and shorter than a token.
SweepClaim(t) ==
    /\ t \in claims
    /\ \A c \in Clicks : ~Holds(c, t)
    /\ claims' = claims \ {t}
    /\ UNCHANGED <<token, expired, receipt, pc, click, answer, history, faults>>

SweepToken(t) ==
    /\ t \in expired /\ token[t] # "gone"
    /\ token' = [token EXCEPT ![t] = "gone"]
    /\ UNCHANGED <<claims, expired, receipt, pc, click, answer, history, faults>>

-----------------------------------------------------------------------------
Press(c, t, a) == Consume(c, t, a) \/ Refuse(c, t, a) \/ ConsumeFails(c, t, a)

Check(c) == CheckActor(c) \/ GuardPass(c) \/ GuardDeny(c) \/ GuardUnavailable(c)

Execute(c) ==
    \/ LoadFails(c) \/ CreateReceipt(c) \/ FindReceipt(c) \/ ReceiptFails(c)
    \/ Prelude(c) \/ Call(c) \/ CallRefused(c) \/ CallLost(c)
    \/ Book(c) \/ Doubt(c) \/ RecordFails(c) \/ Drop(c)

Handle(c) == Check(c) \/ Execute(c) \/ Release(c) \/ ReleaseFails(c) \/ Crash(c)

Next ==
    \/ \E c \in Clicks, t \in Tokens, a \in Actors : Press(c, t, a)
    \/ \E c \in Clicks : Handle(c)
    \/ \E c \in Clicks, k \in WebKeys : WebAction(c, k)
    \/ \E t \in Tokens : Expire(t) \/ SweepClaim(t) \/ SweepToken(t)

Spec == Init /\ [][Next]_vars

-----------------------------------------------------------------------------
(* Properties *)

\* Two clicks on one button, at whatever replica, are never both past the
\* claim, and the row of the one that is stays marked: a release meant for an
\* earlier holder never frees it.
OneHolder ==
    \A c \in Clicks, t \in Tokens : Holds(c, t) =>
        /\ token[t] # "fresh"
        /\ \A d \in Clicks : Holds(d, t) => d = c

\* Through double clicks, retries, crashes and failing storage an action takes
\* effect once per subject, server errors that hid an effect excepted.
EffectOnce == \A k \in Keys : effects[k] <= doubtful[k] + 1

\* While nothing fails no token is burnt without cause and no receipt is left
\* pending behind a handler that has ended.
NothingStranded == faults = 0 =>
    /\ \A t \in Tokens :
        token[t] = "consumed" /\ (\A c \in Clicks : ~Holds(c, t)) =>
            \E c \in Clicks :
                /\ held[c] = t
                /\ answer[c] \in {"executed", "already_done", "pending",
                                  "indeterminate", "guardrail_denied"}
    /\ \A k \in Keys :
        receipt[k] = "pending" =>
            \E c \in Clicks : key[c] = k /\ pc[c] \in Executing

\* An operator told that the action was done, now or before, can rely on it.
AnswersTrue ==
    \A c \in Clicks :
        answer[c] \in {"executed", "already_done"} => effects[key[c]] >= 1

\* A token the guardrail refused is spent: no later click, and no cleanup of
\* claims in between, gets it as far as the executor.
DeniedIsFinal ==
    \A c, d \in Clicks :
        /\ held[c] \in Tokens /\ answer[c] = "guardrail_denied"
        /\ held[d] = held[c] /\ d # c
        => /\ ~Holds(d, held[d])
           /\ answer[d] # "executed"

-----------------------------------------------------------------------------
(* The executor implements the action of OperatorAction.tla. *)

\* The subjects whose action somebody was told is done.
Assured(c) == answer[c] \in {"executed", "already_done"}
assuredNow == {key[c] : c \in {d \in Clicks : Assured(d)}}

Action == INSTANCE OperatorAction
            WITH Subjects <- Keys, stage <- receipt, hidden <- doubtful,
                 assured <- assuredNow

\* Every step of any click, with its races, crashes and failing storage, is a
\* step of the action or invisible to it.
ImplementsAction == Action!Spec
=============================================================================
