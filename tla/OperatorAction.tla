---------------------------- MODULE OperatorAction ----------------------------
(***************************************************************************)
(* What operators may rely on, without buttons, pages, handlers or rows:   *)
(* an action on a subject is under way at most once at a time, takes       *)
(* effect at most once while it is, and is attempted again only when it    *)
(* had no effect, or one that a server error hid; an operator told that it *)
(* was done finds it done.  A subject may stay under way, or in doubt, for *)
(* ever: then it has had its effect or never will.                         *)
(***************************************************************************)
EXTENDS Naturals

CONSTANT Subjects

VARIABLES
    stage,    \* subject -> how far the action on it is: "none", "pending",
              \* "succeeded", or "unknown" where its answer was lost
    effects,  \* subject -> times it took effect
    hidden,   \* subject -> the effects that a server error hid
    assured   \* subjects an operator was told are done

vars == <<stage, effects, hidden, assured>>

Init ==
    /\ stage = [k \in Subjects |-> "none"]
    /\ effects = [k \in Subjects |-> 0]
    /\ hidden = [k \in Subjects |-> 0]
    /\ assured = {}

(* No effect that anyone knows of.                                         *)
Unsettled(k) == effects[k] = hidden[k]

Move(k, from, to) == stage[k] = from /\ stage' = [stage EXCEPT ![k] = to]

Begin(k) ==
    /\ Move(k, "none", "pending")
    /\ UNCHANGED <<effects, hidden, assured>>

Act(k) ==
    /\ stage[k] = "pending" /\ Unsettled(k)
    /\ effects' = [effects EXCEPT ![k] = @ + 1]
    /\ UNCHANGED <<stage, hidden, assured>>

ActHidden(k) ==
    /\ stage[k] = "pending" /\ Unsettled(k)
    /\ effects' = [effects EXCEPT ![k] = @ + 1]
    /\ hidden' = [hidden EXCEPT ![k] = @ + 1]
    /\ UNCHANGED <<stage, assured>>

Settle(k) ==
    /\ Move(k, "pending", "succeeded")
    /\ ~Unsettled(k)
    /\ assured' = assured \cup {k}
    /\ UNCHANGED <<effects, hidden>>

Assure(k) ==
    /\ stage[k] = "succeeded"
    /\ assured' = assured \cup {k}
    /\ UNCHANGED <<stage, effects, hidden>>

Doubt(k) ==
    /\ Move(k, "pending", "unknown")
    /\ UNCHANGED <<effects, hidden, assured>>

GiveUp(k) ==
    /\ Move(k, "pending", "none")
    /\ Unsettled(k)
    /\ UNCHANGED <<effects, hidden, assured>>

Next ==
    \E k \in Subjects :
        \/ Begin(k) \/ Act(k) \/ ActHidden(k)
        \/ Settle(k) \/ Assure(k) \/ Doubt(k) \/ GiveUp(k)

Spec == Init /\ [][Next]_vars

(* At most one effect that was not hidden, none before the action began or *)
(* was given up, exactly one where it is said to be done.                  *)
Dependable ==
    \A k \in Subjects :
        /\ effects[k] \in {hidden[k], hidden[k] + 1}
        /\ stage[k] = "none" => Unsettled(k)
        /\ stage[k] = "succeeded" => ~Unsettled(k)
        /\ k \in assured => stage[k] = "succeeded"
=============================================================================
