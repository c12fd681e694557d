----------------------------- MODULE EventIntake -----------------------------
(***************************************************************************)
(* What the webhook intake promises to the rest of the service, without    *)
(* replicas, goroutines, claims, leases or tokens: a delivery is open from *)
(* its arrival until it is settled, after at least one attempt and for     *)
(* good; the event of a version is recorded once, for a version that some  *)
(* delivery reported, and told to the evaluator at most once, after that.  *)
(* Attempts on one delivery may overlap; nothing here says how many.       *)
(***************************************************************************)
EXTENDS Naturals

CONSTANTS
    Deliveries,      \* rows GitHub's deliveries create
    Replays,         \* rows an operator's replay creates
    Versions,        \* versions of the work item
    VersionOf,       \* the version each delivery of GitHub reports
    InitialVersions, \* what the work item may be at first
    MaxAttempts      \* attempts after which a delivery may be given up

Rows == Deliveries \cup Replays

VARIABLES
    progress,  \* row -> where the delivery is in its life
    version,   \* row -> the version it reports
    tries,     \* row -> attempts made
    old,       \* rows past their retention while open
    cleared,   \* rows without their payload
    item,      \* the work item's version
    recorded,  \* versions with an event
    told       \* version -> times the evaluator was told of its event

rowVars == <<progress, version, tries, old, cleared>>
eventVars == <<recorded, told>>
vars == <<rowVars, item, eventVars>>

Outcomes == {"processed", "failed", "dead_letter"}

Init ==
    /\ progress = [r \in Rows |-> "absent"]
    /\ version = [r \in Rows |-> 0]
    /\ tries = [r \in Rows |-> 0]
    /\ old = {}
    /\ cleared = {}
    /\ item \in InitialVersions
    /\ recorded = {}
    /\ told = [v \in Versions |-> 0]

In(p) == {r \in Rows : progress[r] = p}
Reported == {version[r] : r \in Rows \ In("absent")}

Arrive(r, v) ==
    /\ r \in In("absent")
    /\ progress' = [progress EXCEPT ![r] = "open"]
    /\ version' = [version EXCEPT ![r] = v]
    /\ UNCHANGED <<tries, old, cleared, item, eventVars>>

(* A replay reports what a delivery whose payload is still there reported. *)
Copy(d, r) ==
    /\ d \notin In("absent") \cup In("deleted") \cup cleared
    /\ Arrive(r, version[d])

Attempt(S) ==
    /\ S # {} /\ S \subseteq In("open")
    /\ tries' = [r \in Rows |-> IF r \in S THEN tries[r] + 1 ELSE tries[r]]
    /\ UNCHANGED <<progress, version, old, cleared, item, eventVars>>

Settle(r, outcome) ==
    /\ r \in In("open")
    /\ tries[r] > 0
    /\ outcome = "dead_letter" => tries[r] >= MaxAttempts \/ r \in old
    /\ progress' = [progress EXCEPT ![r] = outcome]
    /\ UNCHANGED <<version, tries, old, cleared, item, eventVars>>

(* The work item takes a reported version, not always a newer one.         *)
Update(v) ==
    /\ v \in Reported
    /\ item' = v
    /\ UNCHANGED <<rowVars, eventVars>>

Record(v) ==
    /\ v \in Reported \ recorded
    /\ recorded' = recorded \cup {v}
    /\ UNCHANGED <<rowVars, item, told>>

Tell(v) ==
    /\ v \in recorded
    /\ told[v] = 0
    /\ told' = [told EXCEPT ![v] = 1]
    /\ UNCHANGED <<rowVars, item, recorded>>

Age(r) ==
    /\ r \in In("open")
    /\ old' = old \cup {r}
    /\ UNCHANGED <<progress, version, tries, cleared, item, eventVars>>

Clear(r) ==
    /\ r \in In("processed")
    /\ cleared' = cleared \cup {r}
    /\ UNCHANGED <<progress, version, tries, old, item, eventVars>>

(* Retention takes what is settled, and what is open only when it is old.  *)
Delete(r) ==
    /\ progress[r] \in Outcomes \/ r \in In("open") \cap old
    /\ progress' = [progress EXCEPT ![r] = "deleted"]
    /\ old' = old \ {r}
    /\ cleared' = cleared \ {r}
    /\ UNCHANGED <<version, tries, item, eventVars>>

Next ==
    \/ \E r \in Deliveries : Arrive(r, VersionOf[r])
    \/ \E d \in Rows, r \in Replays : Copy(d, r)
    \/ \E S \in SUBSET Rows : Attempt(S)
    \/ \E r \in Rows, outcome \in Outcomes : Settle(r, outcome)
    \/ \E v \in Versions : Update(v) \/ Record(v) \/ Tell(v)
    \/ \E r \in Rows : Age(r) \/ Clear(r) \/ Delete(r)

Spec == Init /\ [][Next]_vars
=============================================================================
