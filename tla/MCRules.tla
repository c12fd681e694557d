------------------------------- MODULE MCRules -------------------------------
(* Small instances of four parts of the way from an event to a channel and  *)
(* back, for TLC: the aggregator, the quiet hours of a channel, the         *)
(* failover of channels, and the operator actions behind the buttons of a   *)
(* message.  They share no state, so `part' is explored by itself while the *)
(* others keep one of their initial states.                                 *)
EXTENDS Aggregator, QuietHours, Failover, ChatOps, TLC

CONSTANTS r1, r2, e1, e2, e3, e4, ch1, ch2, tg, fs, dc, sl,
          t1, t2, k1, k2, k3, run, issue, alice, bob, eve

VARIABLE part

(* e4 passes no filter.                                                     *)
MCFilters == (e1 :> {ch1, ch2}) @@ (e2 :> {ch1}) @@ (e3 :> {ch2}) @@ (e4 :> {})

To(a, b, c, d) == (e1 :> a) @@ (e2 :> b) @@ (e3 :> c) @@ (e4 :> d)

Scenario(h, n, j, t, k) ==
    [home |-> h, threshold |-> n, judged |-> j, horizon |-> t, budget |-> k]

(* A burst that folds an event; two batches of one process, or of two, in   *)
(* one time bucket; a bucket that follows one whose timer has fired; three  *)
(* events and a switch, a crash or a database error.                        *)
MCScenarios == {Scenario(To(r1, r1, r1, NoOne), 1, {e1}, 2, 0),
                Scenario(To(r1, r1, r1, r1), 4, {}, 1, 0),
                Scenario(To(r1, r1, r2, r2), 4, {}, 1, 0),
                Scenario(To(r1, r1, r1, NoOne), 3, {}, 2, 0),
                Scenario(To(r1, r1, r1, NoOne), 2, {e1}, 2, 1)}

(* Telegram falls back on a channel that works, Discord on a broken one.    *)
MCRouteMap == (tg :> fs) @@ (dc :> sl) @@ (fs :> Nobody) @@ (sl :> Nobody)

(* A button for a workflow run and one, bound to an actor, for an issue;    *)
(* the page asks for the same run.                                          *)
MCKeyOf == (t1 :> run) @@ (t2 :> issue)
MCBound == (t1 :> {alice, bob, eve}) @@ (t2 :> {alice})

(* Clicks differ in nothing else: one is alice's, one bob's, and the third  *)
(* comes from the page, as far as they get past the first check.            *)
PressedBy == (k1 :> alice) @@ (k2 :> bob) @@ (k3 :> None)
Cast == \A c \in Clicks : actor[c] \in {None, PressedBy[c]}

AggRests == AggInit /\ home = To(r1, r1, r1, NoOne) /\ threshold = 1
QuietRests == QuietInit /\ quiet = [on |-> FALSE, start |-> 0, end |-> 0]
FailoverRests == FailoverInit /\ up = Targets /\ primary = [i \in Items |-> tg]

RulesInit ==
    \/ part = "aggregator" /\ AggInit /\ QuietRests /\ FailoverRests /\ Init
    \/ part = "quiet hours" /\ AggRests /\ QuietInit /\ FailoverRests /\ Init
    \/ part = "failover" /\ AggRests /\ QuietRests /\ FailoverInit /\ Init
    \/ part = "buttons" /\ AggRests /\ QuietRests /\ FailoverRests /\ Init

RulesNext ==
    /\ UNCHANGED part
    /\ \/ part = "aggregator" /\ AggNext /\ UNCHANGED <<quietVars, failoverVars, vars>>
       \/ part = "quiet hours" /\ QuietNext /\ UNCHANGED <<aggVars, failoverVars, vars>>
       \/ part = "failover" /\ FailoverNext /\ UNCHANGED <<aggVars, quietVars, vars>>
       \/ part = "buttons" /\ Next /\ Cast' /\ UNCHANGED <<aggVars, quietVars, failoverVars>>

RulesSpec == RulesInit /\ [][RulesNext]_<<part, aggVars, quietVars, failoverVars, vars>>
=============================================================================
