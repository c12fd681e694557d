------------------------------ MODULE MCIntake ------------------------------
(* For TLC: the replay of a delivery, the reviews of a pull request whose   *)
(* webhooks are taken in, the rounds that reconcile a repository of two     *)
(* issues or three alerts with what the webhooks brought, and those over    *)
(* three starred repositories.  They share no state, so `part' is explored  *)
(* by itself while the others keep one of their initial states.             *)
EXTENDS WebhookDelivery, CodeReview, Reconcile, Starred, TLC

CONSTANTS d1, p1, w1, ra, rb, rc

VARIABLE part

OneDelivery == [r \in {d1} |-> 2]
NoDelivery == [r \in {} |-> 2]

Scenario(h, r, c, e, x) == [heads |-> h, resent |-> r, clicks |-> c, errors |-> e, closes |-> x]

(* Two pushes and a shutdown; one push with a request and a shutdown, with  *)
(* one more processing, with an error; two pushes with an error or a        *)
(* request, which are taken in in either order.                             *)
MCReviews == {Scenario(2, 0, 0, 0, TRUE), Scenario(1, 0, 1, 0, TRUE), Scenario(1, 1, 1, 0, FALSE),
              Scenario(1, 0, 1, 1, FALSE), Scenario(2, 0, 0, 1, FALSE), Scenario(2, 0, 1, 0, FALSE)}

(* A list of alerts shows what it can in one round, the cursor of the       *)
(* issues in the next.                                                      *)
MCRounds == [c \in Capabilities |-> IF c = {"alerts"} THEN 1 ELSE 2]
NoRounds == [c \in Capabilities |-> 0]

(* A repository just taken on has its issues already, an active one gets    *)
(* them while it is looked at; of the alerts the second is still to come.   *)
Present == {x \in Subjects : source[x].state = "open"}
TakenOn ==
    \/ enabled = {"issues"} /\ sync = "baseline" /\ Present = Issues
    \/ enabled = {"issues"} /\ sync = "active" /\ Present = {}
    \/ enabled = {"alerts"} /\ sync = "active" /\ Present = Alerts \ {12}

(* What happens: publications and withdrawals, stars given or taken,        *)
(* decisions of the user, synchronisations and mishaps.                     *)
Stars(list, tracked, past, now_, may) ==
    [stars |-> list, tracked |-> tracked, past |-> past, releases |-> now_,
     budget |-> [publish |-> may[1], withdraw |-> may[2], star |-> may[3], decide |-> may[4],
                 sync |-> may[5], mishap |-> may[6]]]

In(a, b, c) == (ra :> a) @@ (rb :> b) @@ (rc :> c)

(* A poll that has to catch up; two synchronisations next to a change of    *)
(* the stars and a decision; one over more pages than it may ask for; two   *)
(* that register the same repository; two next to a poll whose repository   *)
(* changes.                                                                 *)
MCStars ==
    {Stars(<<ra>>, {ra}, In(<<1>>, <<>>, <<>>), In(<<5, 3, 1>>, <<>>, <<>>), <<1, 1, 0, 0, 0, 1>>),
     Stars(<<ra>>, {ra, rb}, In(<<1>>, <<1>>, <<>>), In(<<1>>, <<1>>, <<>>), <<0, 0, 1, 1, 2, 0>>),
     Stars(<<ra, rb, rc>>, {ra, rc}, In(<<1>>, <<>>, <<1>>), In(<<1>>, <<1>>, <<1>>),
           <<0, 0, 1, 1, 1, 1>>),
     Stars(<<ra>>, {}, In(<<>>, <<>>, <<>>), In(<<1>>, <<>>, <<>>), <<1, 0, 0, 0, 2, 0>>),
     Stars(<<ra>>, {ra}, In(<<1>>, <<>>, <<>>), In(<<1>>, <<>>, <<>>), <<1, 1, 0, 1, 2, 0>>)}

NoStars == {Stars(<<>>, {}, In(<<>>, <<>>, <<>>), In(<<>>, <<>>, <<>>), <<0, 0, 0, 0, 0, 0>>)}

DeliveryRests == Init /\ stored = 1
ReviewRests == ReviewInit /\ limit = Scenario(2, 0, 0, 0, TRUE)
RoundsRest ==
    /\ ReconcileInit
    /\ enabled = {"issues"} /\ sync = "active" /\ source = [x \in Subjects |-> Nothing]
StarsRest == StarredInit /\ trackerOf = [r \in Repos |-> NoRow]

IntakeInit ==
    \/ part = "delivery" /\ Init /\ ReviewRests /\ RoundsRest /\ StarsRest
    \/ part = "review" /\ DeliveryRests /\ ReviewInit /\ RoundsRest /\ StarsRest
    \/ part = "rounds" /\ DeliveryRests /\ ReviewRests /\ ReconcileInit /\ TakenOn /\ StarsRest
    \/ part = "stars" /\ DeliveryRests /\ ReviewRests /\ RoundsRest /\ StarredInit

IntakeNext ==
    /\ UNCHANGED part
    /\ \/ part = "delivery" /\ Next /\ UNCHANGED <<reviewVars, reconcileVars, starredVars>>
       \/ part = "review" /\ ReviewNext /\ UNCHANGED <<vars, reconcileVars, starredVars>>
       \/ part = "rounds" /\ ReconcileNext /\ UNCHANGED <<vars, reviewVars, starredVars>>
       \/ part = "stars" /\ StarredNext /\ UNCHANGED <<vars, reviewVars, reconcileVars>>

IntakeSpec ==
    IntakeInit /\ [][IntakeNext]_<<part, vars, reviewVars, reconcileVars, starredVars>>
=============================================================================
