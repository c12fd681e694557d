-------------------------- MODULE NotificationQueue --------------------------
(***************************************************************************)
(* What the outbox promises to the rest of the service, without workers,   *)
(* claims, leases or tokens: a notification is queued once, may be offered *)
(* to the channel any number of times, is recorded as sent only if it was  *)
(* accepted, and once sent, cancelled or suppressed stays that way until   *)
(* it is deleted.  Only a dead notification can be queued again.           *)
(***************************************************************************)
CONSTANT Rows

VARIABLES
    phase,     \* row -> where the notification is in its life
    accepted,  \* rows the channel accepted at least once
    doomed     \* rows chosen for deletion while they were terminal

vars == <<phase, accepted, doomed>>

Terminal == {"sent", "dead", "cancelled", "suppressed"}
Phases == Terminal \cup {"absent", "queued", "deleted"}

TypeOK ==
    /\ phase \in [Rows -> Phases]
    /\ accepted \subseteq Rows
    /\ doomed \subseteq Rows

Init ==
    /\ phase = [r \in Rows |-> "absent"]
    /\ accepted = {}
    /\ doomed = {}

In(p) == {r \in Rows : phase[r] = p}

Become(S, p) ==
    /\ phase' = [r \in Rows |-> IF r \in S THEN p ELSE phase[r]]
    /\ UNCHANGED <<accepted, doomed>>

Enqueue(r) == r \in In("absent") /\ (Become({r}, "queued") \/ Become({r}, "suppressed"))

(* The channel takes the notification; a worker that lost its claim may    *)
(* hand it over even when the queue has already settled it.                *)
Accept(r) ==
    /\ r \notin In("absent")
    /\ accepted' = accepted \cup {r}
    /\ UNCHANGED <<phase, doomed>>

RecordSent(r) == r \in In("queued") \cap accepted /\ Become({r}, "sent")

GiveUp(r) == r \in In("queued") /\ Become({r}, "dead")

Cancel(S) == S \subseteq In("queued") /\ Become(S, "cancelled")

Requeue(S) == S \subseteq In("dead") /\ Become(S, "queued")

Doom(S) ==
    /\ \A r \in S : phase[r] \in Terminal
    /\ doomed' = S
    /\ UNCHANGED <<phase, accepted>>

Delete ==
    /\ phase' = [r \in Rows |-> IF r \in doomed THEN "deleted" ELSE phase[r]]
    /\ doomed' = {}
    /\ UNCHANGED accepted

Next ==
    \/ \E r \in Rows : Enqueue(r) \/ Accept(r) \/ RecordSent(r) \/ GiveUp(r)
    \/ \E S \in SUBSET Rows : Cancel(S) \/ Requeue(S) \/ Doom(S)
    \/ Delete

Spec == Init /\ [][Next]_vars
=============================================================================
