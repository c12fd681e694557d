---------------------------- MODULE WebhookProofs ----------------------------
(***************************************************************************)
(* Proofs about the webhook deliveries for any deliveries, replays,        *)
(* replicas, versions and bounds: typing, the ownership of a live claim,   *)
(* at most one evaluation of an event, one settlement per delivery,        *)
(* justified dead letters, no silent loss of an event without a fault, and *)
(* that all of it implements the intake of EventIntake; and about the code *)
(* reviews that webhooks ask for, for any pushes, requests and scenarios:  *)
(* typing, the newest head is reviewed, a head is commented on once by     *)
(* itself, and a service shut down is at rest.                             *)
(***************************************************************************)
EXTENDS WebhookDelivery, CodeReview, FiniteSetTheorems, TLAPS

-----------------------------------------------------------------------------
(* A task's fields, and those of the task one step further.                *)
LEMMA TaskFields ==
    ASSUME TypeOK, NEW t \in tasks
    PROVE  /\ t \in Tasks
           /\ t.row \in Rows /\ t.token \in Nat /\ t.stage \in Stages
           /\ t.seen \in Nat /\ t.replica \in Replicas
           /\ t.lease \in {"live", "lapsed"}
BY DEF TypeOK, Tasks

LEMMA AdvancedTask ==
    ASSUME TypeOK, NEW t \in tasks, NEW stage \in Stages, NEW seen \in Nat
    PROVE  LET u == [t EXCEPT !.stage = stage, !.seen = seen]
           IN  /\ u \in Tasks /\ u.row = t.row /\ u.token = t.token
               /\ u.lease = t.lease /\ u.stage = stage
BY TaskFields DEF Tasks

(* A new claim is a well-formed task.                                      *)
LEMMA ClaimFields ==
    ASSUME TypeOK, NEW w \in Replicas, NEW r \in Rows, NEW stage \in Stages
    PROVE  /\ Claim(w, r, stage) \in Tasks
           /\ Claim(w, r, stage).row = r
           /\ Claim(w, r, stage).token = attempts[r] + 1
           /\ Claim(w, r, stage).stage = stage
           /\ Claim(w, r, stage).lease = "live"
BY DEF TypeOK, Tasks, Claim, NewToken

-----------------------------------------------------------------------------
(* Every action keeps the variables in their types.                        *)

LEMMA ClaimRowsType ==
    ASSUME TypeOK, NEW hit, ClaimRows(hit)
    PROVE  /\ status' \in [Rows -> Statuses]
           /\ claimToken' \in [Rows -> Nat]
           /\ lease' \in [Rows -> {"none", "held", "expired"}]
           /\ attempts' \in [Rows -> Nat]
BY DEF TypeOK, ClaimRows, NewToken, Statuses, Open

LEMMA AdvanceType ==
    ASSUME TypeOK, NEW t \in tasks, NEW stage \in Stages, Advance(t, stage)
    PROVE  tasks' \subseteq Tasks
<1>1. [t EXCEPT !.stage = stage, !.seen = 0] \in Tasks
  BY AdvancedTask
<1> QED
  BY <1>1 DEF Advance, TypeOK

(* The typing together with what it needs about absent rows.               *)
WellFormed == TypeOK /\ TaskRowsExist /\ BodiesKnown

LEMMA TaskBody ==
    ASSUME WellFormed, NEW t \in tasks
    PROVE  body[t.row] \in Versions /\ body[t.row] \in Nat \ {0}
<1>1. t.row \in Rows /\ status[t.row] # "absent"
  BY TaskFields DEF WellFormed, TaskRowsExist
<1> QED
  BY <1>1, VersionAssumption DEF WellFormed, BodiesKnown

LEMMA TypeStep == WellFormed /\ [Next]_vars => TypeOK'
<1> SUFFICES ASSUME WellFormed, [Next]_vars PROVE TypeOK'
  OBVIOUS
<1>0. TypeOK
  BY DEF WellFormed
<1> USE <1>0
<1>1. ASSUME NEW r \in Rows, NEW v \in Versions, NEW w \in Replicas, Create(r, v, w)
      PROVE  TypeOK'
  <2>1. [replica |-> w, row |-> r, token |-> 0, stage |-> "received", seen |-> 0,
         lease |-> "lapsed"] \in Tasks
    BY DEF Tasks, Stages
  <2>2. tasks' \subseteq Tasks
    BY <1>1, <2>1 DEF Create, TypeOK
  <2> QED
    BY <1>1, <2>2 DEF Create, TypeOK, Statuses, Open, itemVars
<1>2. ASSUME NEW r \in Rows, NEW w \in Replicas, Duplicate(r, w) PROVE TypeOK'
  <2>1. tasks' \subseteq Tasks
    BY <1>2, ClaimFields DEF Duplicate, TypeOK, Stages
  <2>2. ClaimRows({r})
    BY <1>2 DEF Duplicate
  <2>3. /\ status' \in [Rows -> Statuses]
        /\ claimToken' \in [Rows -> Nat]
        /\ lease' \in [Rows -> {"none", "held", "expired"}]
        /\ attempts' \in [Rows -> Nat]
    BY <2>2, ClaimRowsType
  <2> QED
    BY <1>2, <2>1, <2>3 DEF Duplicate, TypeOK, itemVars
<1>3. ASSUME NEW w \in Replicas, RecoverOrphans(w) PROVE TypeOK'
  <2>1. \A r \in Due : Claim(w, r, IF GivesUp(r) THEN "doomed" ELSE "waiting") \in Tasks
    BY ClaimFields DEF Due, Stages, Marks
  <2>2. tasks' \subseteq Tasks
    BY <1>3, <2>1 DEF RecoverOrphans, TypeOK
  <2>3. ClaimRows(Due)
    BY <1>3 DEF RecoverOrphans
  <2>4. /\ status' \in [Rows -> Statuses]
        /\ claimToken' \in [Rows -> Nat]
        /\ lease' \in [Rows -> {"none", "held", "expired"}]
        /\ attempts' \in [Rows -> Nat]
    BY <2>3, ClaimRowsType
  <2> QED
    BY <1>3, <2>2, <2>4 DEF RecoverOrphans, TypeOK, itemVars
<1>4. ASSUME NEW t \in tasks, ClaimOwn(t) \/ ClaimOwnFails(t) PROVE TypeOK'
  <2>1. Claim(t.replica, t.row, "waiting") \in Tasks
    BY ClaimFields, TaskFields DEF Stages
  <2>2. tasks' \subseteq Tasks
    BY <1>4, <2>1 DEF ClaimOwn, ClaimOwnFails, Drop, TypeOK
  <2>3. ClaimRows({t.row}) \/ UNCHANGED claimVars
    BY <1>4 DEF ClaimOwn, ClaimOwnFails
  <2>4. /\ status' \in [Rows -> Statuses]
        /\ claimToken' \in [Rows -> Nat]
        /\ lease' \in [Rows -> {"none", "held", "expired"}]
        /\ attempts' \in [Rows -> Nat]
    <3>1. CASE ClaimRows({t.row})
      BY <3>1, ClaimRowsType
    <3>2. CASE UNCHANGED claimVars
      BY <3>2 DEF claimVars, TypeOK
    <3> QED
      BY <2>3, <3>1, <3>2
  <2>5. faults' \in 0 .. MaxFaults /\ UNCHANGED <<age, body, dehydrated, stopping, itemVars>>
    BY <1>4, BoundAssumption DEF ClaimOwn, ClaimOwnFails, Fault, TypeOK
  <2> QED
    BY <2>2, <2>4, <2>5 DEF TypeOK, itemVars
<1>5. ASSUME NEW t \in tasks, AcquireSlot(t) \/ CancelWait(t) PROVE TypeOK'
  <2>1. tasks' \subseteq Tasks
    BY <1>5, AdvanceType DEF AcquireSlot, CancelWait, Stages, Pipeline, Marks
  <2> QED
    BY <1>5, <2>1 DEF AcquireSlot, CancelWait, TypeOK, rowVars, claimVars, itemVars
<1>6. ASSUME NEW t \in tasks, ReadItem(t) PROVE TypeOK'
  <2>1. [t EXCEPT !.seen = stored,
                  !.stage = IF body[t.row] <= stored THEN "processed" ELSE "writing"]
          \in Tasks
    BY TaskFields DEF TypeOK, Tasks, Stages, Pipeline, Marks
  <2>2. tasks' \subseteq Tasks
    BY <1>6, <2>1 DEF ReadItem, TypeOK
  <2> QED
    BY <1>6, <2>2 DEF ReadItem, TypeOK, rowVars, claimVars, itemVars
<1>7. ASSUME NEW t \in tasks, WriteItem(t) PROVE TypeOK'
  <2>1. tasks' \subseteq Tasks
    BY <1>7, AdvanceType DEF WriteItem, Stages, Pipeline, Marks
  <2>2. body[t.row] \in Nat
    BY TaskBody
  <2> QED
    BY <1>7, <2>1, <2>2 DEF WriteItem, TypeOK, rowVars, claimVars
<1>8. ASSUME NEW t \in tasks, RecordEvent(t) PROVE TypeOK'
  <2>1. tasks' \subseteq Tasks
    BY <1>8, AdvanceType DEF RecordEvent, Stages, Pipeline, Marks
  <2>2. events' \subseteq Versions
    BY <1>8, TaskBody DEF RecordEvent, TypeOK
  <2> QED
    BY <1>8, <2>1, <2>2 DEF RecordEvent, TypeOK, rowVars, claimVars
<1>9. ASSUME NEW t \in tasks, Evaluate(t) PROVE TypeOK'
  <2>1. tasks' \subseteq Tasks
    BY <1>9, AdvanceType DEF Evaluate, Stages, Pipeline, Marks
  <2>2. handed' \in [Versions -> Nat]
    BY <1>9, TaskBody DEF Evaluate, TypeOK
  <2> QED
    BY <1>9, <2>1, <2>2 DEF Evaluate, TypeOK, rowVars, claimVars
<1>10. ASSUME NEW t \in tasks, StepFails(t) PROVE TypeOK'
  <2>1. tasks' \subseteq Tasks
    BY <1>10, AdvanceType DEF StepFails, Stages, Pipeline, Marks
  <2>2. faults' \in 0 .. MaxFaults
    BY <1>10, BoundAssumption DEF StepFails, CallFails, Fault, TypeOK
  <2> QED
    BY <1>10, <2>1, <2>2 DEF StepFails, TypeOK, rowVars, claimVars, itemVars
<1>11. ASSUME NEW t \in tasks, Mark(t) PROVE TypeOK'
  <2>1. t.row \in Rows /\ tasks' \subseteq Tasks
    BY <1>11, TaskFields DEF Mark, Drop, TypeOK
  <2>2. MarkedStatus(t) \in Statuses
    BY DEF MarkedStatus, Statuses, Terminal
  <2>3. SetMarked(t) \/ UNCHANGED claimVars
    BY <1>11 DEF Mark
  <2>4. /\ status' \in [Rows -> Statuses]
        /\ claimToken' \in [Rows -> Nat]
        /\ lease' \in [Rows -> {"none", "held", "expired"}]
        /\ attempts' \in [Rows -> Nat]
    BY <2>1, <2>2, <2>3 DEF SetMarked, claimVars, TypeOK
  <2> QED
    BY <1>11, <2>1, <2>4 DEF Mark, TypeOK, itemVars
<1>12. ASSUME NEW t \in tasks, MarkFails(t) PROVE TypeOK'
  <2>1. faults' \in 0 .. MaxFaults /\ tasks' \subseteq Tasks
    BY <1>12, BoundAssumption DEF MarkFails, CallFails, Fault, Drop, TypeOK
  <2> QED
    BY <1>12, <2>1 DEF MarkFails, TypeOK, rowVars, claimVars, itemVars
<1>13. ASSUME NEW w \in Replicas, Shutdown(w) \/ Exit(w) \/ Crash(w) PROVE TypeOK'
  <2>1. /\ faults' \in 0 .. MaxFaults
        /\ tasks' \subseteq Tasks
        /\ stopping' \subseteq Replicas
    BY <1>13, BoundAssumption DEF Shutdown, Exit, Crash, Fault, TypeOK
  <2> QED
    BY <1>13, <2>1 DEF Shutdown, Exit, Crash, TypeOK, rowVars, claimVars, itemVars
<1>14. ASSUME NEW r \in Rows, LeaseExpires(r) PROVE TypeOK'
  <2>1. \A t \in tasks : [t EXCEPT !.lease = "lapsed"] \in Tasks
    BY DEF TypeOK, Tasks
  <2>2. tasks' \subseteq Tasks
    BY <1>14, <2>1 DEF LeaseExpires, TypeOK
  <2>3. faults' \in 0 .. MaxFaults
    BY <1>14, BoundAssumption DEF LeaseExpires, Fault, TypeOK
  <2> QED
    BY <1>14, <2>2, <2>3 DEF LeaseExpires, TypeOK, itemVars
<1>15. ASSUME NEW r \in Rows, GrowsOld(r) PROVE TypeOK'
  BY <1>15 DEF GrowsOld, TypeOK, claimVars, itemVars
<1>16. ASSUME NEW r \in Rows, Dehydrate(r) PROVE TypeOK'
  BY <1>16 DEF Dehydrate, TypeOK, claimVars, itemVars
<1>17. ASSUME NEW r \in Rows, DeleteOlderThan(r) PROVE TypeOK'
  BY <1>17 DEF DeleteOlderThan, TypeOK, Statuses, itemVars
<1>18. CASE UNCHANGED vars
  BY <1>18 DEF vars, rowVars, claimVars, itemVars, TypeOK
<1>19. ASSUME NEW r \in Rows, NEW w \in Replicas, Receive(r, w) PROVE TypeOK'
  BY <1>19, <1>1, VersionAssumption DEF Receive
<1>20. ASSUME NEW r \in Rows, NEW d \in Rows, NEW w \in Replicas, Replay(d, r, w)
       PROVE  TypeOK'
  <2>1. body[d] \in Versions
    BY <1>20 DEF Replay, Open, Terminal, WellFormed, BodiesKnown
  <2> QED
    BY <1>20, <2>1, <1>1 DEF Replay
<1> QED
  BY <1>2, <1>3, <1>4, <1>5, <1>6, <1>7, <1>8, <1>9, <1>10, <1>11, <1>12, <1>13,
     <1>14, <1>15, <1>16, <1>17, <1>18, <1>19, <1>20
     DEF Next, ReplicaStep, TaskStep, FaultStep, RequestStep, RetentionStep,
         TimeStep, Of

-----------------------------------------------------------------------------
(* What a step does to the claims, in eight shapes.                        *)

frozen == <<claimVars, age, body>>
record == <<events, handed>>

(* What the step of a task in the pipeline does to the events.             *)
RecordPart(t, u) ==
    \/ u.stage # "evaluating" /\ UNCHANGED record
    \/ /\ u.stage = "evaluating"
       /\ body[t.row] \notin events
       /\ events' = events \cup {body[t.row]}
       /\ UNCHANGED handed
    \/ /\ t.stage = "evaluating"
       /\ u.stage = "processed"
       /\ handed' = [handed EXCEPT ![body[t.row]] = @ + 1]
       /\ UNCHANGED events

(* A task goes one step further and touches no row.                        *)
MovedTo(t, u) ==
    /\ u.row = t.row /\ u.token = t.token /\ u.lease = t.lease
    /\ t.stage # "received" /\ u.stage \notin {"received", "doomed"}
    /\ tasks' = (tasks \ {t}) \cup {u}
    /\ RecordPart(t, u)
    /\ UNCHANGED frozen

Forgotten == tasks' \subseteq tasks /\ UNCHANGED <<frozen, record>>

(* Rows are claimed, each for at most one new task.                        *)
Claimed(hit) ==
    /\ \A r \in hit : Claimable(r)
    /\ ClaimRows(hit)
    /\ \A u \in tasks' \ tasks :
          /\ u.row \in hit
          /\ u.token = attempts[u.row] + 1
          /\ u.lease = "live"
          /\ u.stage \in {"waiting", "doomed"}
          /\ u.stage = "doomed" => GivesUp(u.row)
    /\ \A u, x \in tasks' \ tasks : u.row = x.row => u = x
    /\ UNCHANGED <<age, body, record>>

Settled(t) ==
    /\ t.stage \in Marks
    /\ MarkGuard(t)
    /\ SetMarked(t)
    /\ Drop(t)
    /\ UNCHANGED <<age, body, record>>

(* (\E r, v, w : Create), with a body that is a version.                   *)
Created == \E r \in Rows, v \in Versions, w \in Replicas : Create(r, v, w)

LEMMA AdvanceMoves ==
    ASSUME WellFormed, NEW t \in tasks, NEW stage \in Stages \ {"received", "doomed"},
           t.stage # "received", Advance(t, stage),
           RecordPart(t, [t EXCEPT !.stage = stage, !.seen = 0]), UNCHANGED frozen
    PROVE  \E u : MovedTo(t, u)
<1> DEFINE u == [t EXCEPT !.stage = stage, !.seen = 0]
<1>1. u.row = t.row /\ u.token = t.token /\ u.lease = t.lease /\ u.stage = stage
  BY TaskFields DEF WellFormed, Tasks
<1>2. tasks' = (tasks \ {t}) \cup {u} /\ RecordPart(t, u)
  BY DEF Advance
<1> HIDE DEF u
<1> QED
  BY <1>1, <1>2 DEF MovedTo

LEMMA PipelineMoves ==
    ASSUME WellFormed, NEW t \in tasks,
           \/ AcquireSlot(t) \/ CancelWait(t) \/ ReadItem(t) \/ WriteItem(t)
           \/ RecordEvent(t) \/ Evaluate(t) \/ StepFails(t)
    PROVE  \E u : MovedTo(t, u)
<1>0. TypeOK /\ body[t.row] \in Versions
  BY TaskBody DEF WellFormed
<1>s. \A stage \in Stages : [t EXCEPT !.stage = stage, !.seen = 0].stage = stage
  BY <1>0, AdvancedTask, ZenonT(30)
<1>1. ASSUME NEW stage \in {"reading", "cancelled", "processed", "failed", "recording"},
             Advance(t, stage), t.stage # "received", UNCHANGED <<frozen, record>>
      PROVE  \E u : MovedTo(t, u)
  <2>1. stage \in Stages \ {"received", "doomed"}
    BY DEF Stages, Pipeline, Marks
  <2>2. RecordPart(t, [t EXCEPT !.stage = stage, !.seen = 0])
    BY <1>1, <1>s, <2>1 DEF RecordPart
  <2> QED
    BY <1>1, <2>1, <2>2, AdvanceMoves
<1>2. CASE AcquireSlot(t) \/ CancelWait(t)
  BY <1>2, <1>1 DEF AcquireSlot, CancelWait, frozen, record, rowVars, itemVars
<1>3. CASE ReadItem(t)
  <2> DEFINE next == IF body[t.row] <= stored THEN "processed" ELSE "writing"
             u == [t EXCEPT !.seen = stored, !.stage = next]
  <2>1. next \in Stages /\ next \in {"processed", "writing"}
    BY DEF Stages, Pipeline, Marks
  <2>2. t \in Tasks
    BY <1>0, TaskFields
  <2>3. u.row = t.row /\ u.token = t.token /\ u.lease = t.lease /\ u.stage = next
    <3> HIDE DEF next
    <3> QED
      BY <2>2 DEF Tasks
  <2>4. tasks' = (tasks \ {t}) \cup {u} /\ t.stage # "received"
        /\ UNCHANGED <<frozen, record>>
    BY <1>3 DEF ReadItem, frozen, record, rowVars, itemVars
  <2> HIDE DEF u, next
  <2>5. RecordPart(t, u)
    BY <2>1, <2>3, <2>4 DEF RecordPart
  <2> QED
    BY <2>1, <2>3, <2>4, <2>5 DEF MovedTo
<1>4. CASE WriteItem(t)
  <2>1. UNCHANGED <<frozen, record>> /\ t.stage # "received"
    BY <1>4 DEF WriteItem, frozen, record, rowVars
  <2> QED
    BY <1>4, <2>1, <1>1 DEF WriteItem
<1>5. CASE RecordEvent(t)
  <2>1. UNCHANGED <<frozen, handed>> /\ t.stage # "received"
    BY <1>5 DEF RecordEvent, frozen, rowVars
  <2>2. CASE Advance(t, "processed") /\ UNCHANGED events
    BY <2>1, <2>2, <1>1 DEF record
  <2>3. CASE body[t.row] \notin events /\ Advance(t, "evaluating")
             /\ events' = events \cup {body[t.row]}
    <3>1. "evaluating" \in Stages \ {"received", "doomed"}
      BY DEF Stages, Pipeline
    <3>2. RecordPart(t, [t EXCEPT !.stage = "evaluating", !.seen = 0])
      BY <2>1, <2>3, <1>s, <3>1 DEF RecordPart
    <3> QED
      BY <2>1, <2>3, <3>1, <3>2, AdvanceMoves
  <2> QED
    BY <1>5, <2>2, <2>3 DEF RecordEvent, KnownEvent
<1>6. CASE Evaluate(t)
  <2>1. UNCHANGED <<frozen, events>> /\ t.stage = "evaluating"
    BY <1>6 DEF Evaluate, frozen, rowVars
  <2>2. "processed" \in Stages \ {"received", "doomed"}
    BY DEF Stages, Marks
  <2>3. RecordPart(t, [t EXCEPT !.stage = "processed", !.seen = 0])
    BY <1>6, <2>1, <1>s, <2>2 DEF RecordPart, Evaluate
  <2> QED
    BY <1>6, <2>1, <2>2, <2>3, AdvanceMoves DEF Evaluate
<1>7. CASE StepFails(t)
  BY <1>7, <1>1 DEF StepFails, Pipeline, frozen, record, rowVars, itemVars
<1> QED
  BY <1>2, <1>3, <1>4, <1>5, <1>6, <1>7

(* The claim of one row for one task, or of a batch for one task each.     *)
LEMMA OneClaim ==
    ASSUME WellFormed, NEW r \in Rows, Claimable(r), ClaimRows({r}),
           NEW w \in Replicas,
           tasks' \subseteq tasks \cup {Claim(w, r, "waiting")},
           UNCHANGED <<age, body, record>>
    PROVE  Claimed({r})
<1>1. "waiting" \in Stages
  BY DEF Stages
<1>2. /\ Claim(w, r, "waiting").row = r
      /\ Claim(w, r, "waiting").token = attempts[r] + 1
      /\ Claim(w, r, "waiting").stage = "waiting"
      /\ Claim(w, r, "waiting").lease = "live"
  BY <1>1, ClaimFields DEF WellFormed
<1> QED
  BY <1>2 DEF Claimed

LEMMA BatchClaim ==
    ASSUME WellFormed, NEW w \in Replicas, RecoverOrphans(w)
    PROVE  Claimed(Due)
<1> DEFINE stage(r) == IF GivesUp(r) THEN "doomed" ELSE "waiting"
<1>1. \A r \in Due : /\ Claim(w, r, stage(r)).row = r
                     /\ Claim(w, r, stage(r)).token = attempts[r] + 1
                     /\ Claim(w, r, stage(r)).stage = stage(r)
                     /\ Claim(w, r, stage(r)).lease = "live"
  BY ClaimFields DEF WellFormed, Due, Stages, Marks
<1>2. \A u \in tasks' \ tasks : \E r \in Due : u = Claim(w, r, stage(r))
  BY DEF RecoverOrphans
<1>3. \A r \in Due : /\ Claimable(r)
                     /\ stage(r) \in {"waiting", "doomed"}
                     /\ stage(r) = "doomed" => GivesUp(r)
  BY DEF Due
<1>4. ClaimRows(Due) /\ UNCHANGED <<age, body, record>>
  BY DEF RecoverOrphans, itemVars, record
<1> HIDE DEF stage
<1>5. \A u \in tasks' \ tasks :
          /\ u.row \in Due
          /\ u = Claim(w, u.row, stage(u.row))
          /\ u.token = attempts[u.row] + 1
          /\ u.lease = "live"
          /\ u.stage = stage(u.row)
  BY <1>1, <1>2
<1>6. \A u, x \in tasks' \ tasks : u.row = x.row => u = x
  BY <1>5
<1> QED
  BY <1>3, <1>4, <1>5, <1>6 DEF Claimed

(* Every step has one of the eight shapes.                                 *)
LEMMA StepShapes ==
    ASSUME WellFormed, [Next]_vars
    PROVE  \/ \E t \in tasks : \E u : MovedTo(t, u)
           \/ Forgotten
           \/ \E hit \in SUBSET Rows : Claimed(hit)
           \/ \E t \in tasks : Settled(t)
           \/ \E r \in Rows : DeleteOlderThan(r) \/ LeaseExpires(r) \/ GrowsOld(r)
           \/ Created
<1> USE DEF frozen, record
<1>1. ASSUME NEW r \in Rows, NEW w \in Replicas, Duplicate(r, w) PROVE Claimed({r})
  BY <1>1, OneClaim DEF Duplicate, itemVars
<1>2. ASSUME NEW t \in tasks, ClaimOwn(t) \/ ClaimOwnFails(t)
      PROVE  Forgotten \/ Claimed({t.row})
  <2>1. t.row \in Rows /\ t.replica \in Replicas
    BY TaskFields DEF WellFormed
  <2>2. UNCHANGED <<age, body, record>>
    BY <1>2 DEF ClaimOwn, ClaimOwnFails, itemVars
  <2>3. CASE Claimable(t.row) /\ ClaimRows({t.row})
             /\ tasks' \subseteq tasks \cup {Claim(t.replica, t.row, "waiting")}
    BY <2>1, <2>2, <2>3, OneClaim
  <2>4. CASE UNCHANGED claimVars /\ Drop(t)
    BY <2>2, <2>4 DEF Forgotten, Drop
  <2> QED
    BY <1>2, <2>3, <2>4 DEF ClaimOwn, ClaimOwnFails, Drop
<1>3. ASSUME NEW w \in Replicas, RecoverOrphans(w) PROVE \E hit \in SUBSET Rows : Claimed(hit)
  BY <1>3, BatchClaim DEF Due
<1>4. ASSUME NEW t \in tasks, Mark(t) PROVE Settled(t) \/ Forgotten
  <2>1. UNCHANGED <<age, body, record>> /\ Drop(t) /\ t.stage \in Marks
    BY <1>4 DEF Mark, itemVars
  <2> QED
    BY <1>4, <2>1 DEF Mark, Settled, Forgotten, Drop
<1>5. ASSUME NEW t \in tasks, MarkFails(t) PROVE Forgotten
  BY <1>5 DEF MarkFails, Drop, Forgotten, rowVars, itemVars
<1>6. ASSUME NEW w \in Replicas, Shutdown(w) \/ Exit(w) \/ Crash(w) PROVE Forgotten
  BY <1>6 DEF Shutdown, Exit, Crash, Forgotten, rowVars, itemVars
<1>7. ASSUME NEW r \in Rows, Dehydrate(r) PROVE Forgotten
  BY <1>7 DEF Dehydrate, Forgotten, itemVars
<1>8. CASE UNCHANGED vars
  BY <1>8 DEF vars, Forgotten, rowVars, itemVars
<1>9. ASSUME NEW r \in Rows, NEW w \in Replicas, Receive(r, w) PROVE Created
  BY <1>9, VersionAssumption DEF Receive, Created
<1>10. ASSUME NEW r \in Rows, NEW d \in Rows, NEW w \in Replicas, Replay(d, r, w)
       PROVE  Created
  <2>1. body[d] \in Versions
    BY <1>10 DEF Replay, Open, Terminal, WellFormed, BodiesKnown
  <2> QED
    BY <1>10, <2>1 DEF Replay, Created
<1>11. ASSUME NEW t \in tasks,
              \/ AcquireSlot(t) \/ CancelWait(t) \/ ReadItem(t) \/ WriteItem(t)
              \/ RecordEvent(t) \/ Evaluate(t) \/ StepFails(t)
       PROVE  \E u : MovedTo(t, u)
  BY <1>11, PipelineMoves
<1>12. CASE Next
  <2>1. ASSUME NEW t \in tasks, TaskStep(t)
        PROVE  \/ \E u : MovedTo(t, u)
               \/ Forgotten
               \/ \E hit \in SUBSET Rows : Claimed(hit)
               \/ Settled(t)
    <3>1. {t.row} \in SUBSET Rows
      BY TaskFields DEF WellFormed
    <3> QED
      BY <2>1, <3>1, <1>2, <1>4, <1>11 DEF TaskStep
  <2>2. CASE \E w \in Replicas : ReplicaStep(w)
    BY <2>1, <2>2 DEF ReplicaStep, Of
  <2>3. CASE \E w \in Replicas : RecoverOrphans(w) \/ Exit(w)
    BY <2>3, <1>3, <1>6
  <2>4. CASE FaultStep
    <3>1. CASE \E t \in tasks : ClaimOwnFails(t)
      BY <3>1, <1>2, TaskFields DEF WellFormed
    <3> QED
      BY <2>4, <3>1, <1>5, <1>6, <1>11 DEF FaultStep
  <2>5. CASE RequestStep
    BY <2>5, <1>1, <1>9, <1>10 DEF RequestStep
  <2>6. CASE RetentionStep \/ TimeStep
    BY <2>6, <1>7 DEF RetentionStep, TimeStep
  <2> QED
    BY <1>12, <2>2, <2>3, <2>4, <2>5, <2>6 DEF Next
<1> QED
  BY <1>8, <1>12

-----------------------------------------------------------------------------
(* Each part of the inductive invariant, shape by shape.                   *)

ClaimFacts == TokensCounted /\ TokensUnique /\ CurrentClaim /\ OwnerUndisturbed
RecordFacts == RecordedOnce /\ EvaluatedOnce
DeadFacts == DoomJustified /\ DeadLetterJustified

(* The row of a new or old task, and the statuses a step leaves.           *)
LEMMA MovedFacts ==
    ASSUME WellFormed, ClaimFacts, DeadFacts, NEW t \in tasks, NEW u, MovedTo(t, u)
    PROVE  (TaskRowsExist /\ BodiesKnown)' /\ ClaimFacts' /\ DeadFacts'
<1> USE DEF WellFormed, MovedTo, frozen, claimVars
<1>1. TaskRowsExist' /\ BodiesKnown'
  BY DEF TaskRowsExist, BodiesKnown
<1>2. TokensCounted'
  BY DEF ClaimFacts, TokensCounted
<1>3. TokensUnique'
  BY DEF ClaimFacts, TokensUnique
<1>4. CurrentClaim'
  BY DEF ClaimFacts, CurrentClaim
<1>5. OwnerUndisturbed'
  BY DEF ClaimFacts, OwnerUndisturbed
<1>6. DeadFacts'
  BY DEF DeadFacts, DoomJustified, DeadLetterJustified
<1> QED
  BY <1>1, <1>2, <1>3, <1>4, <1>5, <1>6 DEF ClaimFacts

LEMMA ForgottenFacts ==
    ASSUME WellFormed, ClaimFacts, DeadFacts, Forgotten
    PROVE  (TaskRowsExist /\ BodiesKnown)' /\ ClaimFacts' /\ DeadFacts'
<1> USE DEF WellFormed, Forgotten, frozen, claimVars
<1>1. TaskRowsExist' /\ BodiesKnown'
  BY DEF TaskRowsExist, BodiesKnown
<1>2. ClaimFacts'
  BY DEF ClaimFacts, TokensCounted, TokensUnique, CurrentClaim, OwnerUndisturbed
<1>3. DeadFacts'
  BY DEF DeadFacts, DoomJustified, DeadLetterJustified
<1> QED
  BY <1>1, <1>2, <1>3

LEMMA ClaimedFacts ==
    ASSUME WellFormed, ClaimFacts, DeadFacts, NEW hit \in SUBSET Rows, Claimed(hit)
    PROVE  (TaskRowsExist /\ BodiesKnown)' /\ ClaimFacts' /\ DeadFacts'
<1>0. TypeOK
  BY DEF WellFormed
<1>1. \A r \in hit : /\ status'[r] = "processing" /\ lease'[r] = "held"
                     /\ attempts'[r] = attempts[r] + 1
                     /\ claimToken'[r] = attempts[r] + 1
                     /\ status[r] \in Open
                     /\ status[r] = "processing" => lease[r] # "held"
                     /\ attempts[r] \in Nat /\ claimToken[r] \in Nat
  BY <1>0 DEF Claimed, ClaimRows, NewToken, Claimable, Open, TypeOK
<1>2. \A r \in Rows \ hit : /\ status'[r] = status[r] /\ lease'[r] = lease[r]
                            /\ attempts'[r] = attempts[r]
                            /\ claimToken'[r] = claimToken[r]
  BY DEF Claimed, ClaimRows
<1>3. age' = age /\ body' = body
  BY DEF Claimed
<1>4. \A t \in tasks : t.row \in Rows /\ t.token \in Nat /\ t.lease \in {"live", "lapsed"}
  BY <1>0, TaskFields
<1>5. \A u \in tasks' : u \notin tasks =>
          /\ u.row \in hit /\ u.token = attempts[u.row] + 1 /\ u.lease = "live"
          /\ u.stage \in {"waiting", "doomed"}
          /\ u.stage = "doomed" => GivesUp(u.row)
  BY DEF Claimed
<1>6. \A u, x \in tasks' : u \notin tasks /\ x \notin tasks /\ u.row = x.row => u = x
  BY DEF Claimed
<1>7. TaskRowsExist' /\ BodiesKnown'
  BY <1>1, <1>2, <1>3, <1>4, <1>5
     DEF WellFormed, TaskRowsExist, BodiesKnown, Open
<1>8. TokensCounted'
  <2>1. \A t \in tasks : t.token <= attempts[t.row] /\ ((t.stage = "received" /\ t.lease = "lapsed") \/ t.token > 0)
    BY DEF ClaimFacts, TokensCounted
  <2>2. \A r \in Rows : claimToken'[r] <= attempts'[r]
    BY <1>1, <1>2 DEF ClaimFacts, TokensCounted
  <2>3. \A u \in tasks' : u.token <= attempts'[u.row]
    BY <1>1, <1>2, <1>4, <1>5, <2>1
  <2>4. \A u \in tasks' : (u.stage = "received" /\ u.lease = "lapsed") \/ u.token > 0
    BY <1>1, <1>5, <2>1
  <2> QED
    BY <2>2, <2>3, <2>4 DEF TokensCounted
<1>9. TokensUnique'
  <2> SUFFICES ASSUME NEW t \in tasks', NEW u \in tasks',
                      t.row = u.row, t.token = u.token
               PROVE  t = u
    BY DEF TokensUnique
  <2>1. \A x \in tasks : x.token <= attempts[x.row]
    BY DEF ClaimFacts, TokensCounted
  <2>2. CASE t \in tasks /\ u \in tasks
    BY <2>2 DEF ClaimFacts, TokensUnique
  <2>3. CASE t \notin tasks /\ u \notin tasks
    BY <2>3, <1>6
  <2>4. CASE t \in tasks /\ u \notin tasks
    BY <2>4, <2>1, <1>1, <1>4, <1>5
  <2>5. CASE t \notin tasks /\ u \in tasks
    BY <2>5, <2>1, <1>1, <1>4, <1>5
  <2> QED
    BY <2>2, <2>3, <2>4, <2>5
<1>10. CurrentClaim'
  <2> SUFFICES ASSUME NEW t \in tasks', t.token > 0, claimToken'[t.row] = t.token
               PROVE  /\ status'[t.row] = "processing"
                      /\ lease'[t.row] # "held" => t.lease = "lapsed"
    BY DEF CurrentClaim
  <2>1. CASE t.row \in hit
    BY <2>1, <1>1
  <2>2. CASE t.row \notin hit
    BY <2>2, <1>2, <1>4, <1>5 DEF ClaimFacts, CurrentClaim
  <2> QED
    BY <2>1, <2>2
<1>11. OwnerUndisturbed'
  <2> SUFFICES ASSUME NEW t \in tasks', t.lease = "live", status'[t.row] # "deleted"
               PROVE  status'[t.row] = "processing" /\ claimToken'[t.row] = t.token
    BY DEF OwnerUndisturbed
  <2>1. CASE t \notin tasks
    BY <2>1, <1>1, <1>5
  <2>2. CASE t \in tasks /\ t.row \in hit
    <3>1. status[t.row] = "processing" /\ claimToken[t.row] = t.token
      BY <2>2, <1>1 DEF ClaimFacts, OwnerUndisturbed, Open
    <3>2. lease[t.row] # "held" /\ claimToken[t.row] \in Nat
      BY <2>2, <3>1, <1>1
    <3>3. t.token > 0 => t.lease = "lapsed"
      BY <2>2, <3>1, <3>2 DEF ClaimFacts, CurrentClaim
    <3> QED
      BY <3>3, <2>2, <1>4 DEF ClaimFacts, TokensCounted
  <2>3. CASE t \in tasks /\ t.row \notin hit
    BY <2>3, <1>2, <1>4 DEF ClaimFacts, OwnerUndisturbed
  <2> QED
    BY <2>1, <2>2, <2>3
<1>12. DoomJustified'
  <2> SUFFICES ASSUME NEW t \in tasks', t.stage = "doomed"
               PROVE  \/ attempts'[t.row] >= MaxAttempts
                      \/ age'[t.row] = "old"
                      \/ status'[t.row] = "deleted"
    BY DEF DoomJustified
  <2>1. CASE t \notin tasks
    BY <2>1, <1>1, <1>3, <1>5 DEF GivesUp
  <2>2. CASE t \in tasks
    <3>1. \/ attempts[t.row] >= MaxAttempts
          \/ age[t.row] = "old"
          \/ status[t.row] = "deleted"
      BY <2>2 DEF DeadFacts, DoomJustified
    <3> QED
      BY <2>2, <3>1, <1>1, <1>2, <1>3, <1>4, BoundAssumption DEF Open
  <2> QED
    BY <2>1, <2>2
<1>13. DeadLetterJustified'
  BY <1>1, <1>2, <1>3 DEF DeadFacts, DeadLetterJustified, Open
<1> QED
  BY <1>7, <1>8, <1>9, <1>10, <1>11, <1>12, <1>13 DEF ClaimFacts, DeadFacts

LEMMA SettledFacts ==
    ASSUME WellFormed, ClaimFacts, DeadFacts, NEW t \in tasks, Settled(t)
    PROVE  (TaskRowsExist /\ BodiesKnown)' /\ ClaimFacts' /\ DeadFacts'
<1>0. TypeOK
  BY DEF WellFormed
<1>1. /\ t.row \in Rows /\ t.token > 0
      /\ status[t.row] = "processing" /\ claimToken[t.row] = t.token
  <2>1. t.stage # "received"
    BY DEF Settled, Marks
  <2>2. t.token > 0
    BY <2>1 DEF ClaimFacts, TokensCounted
  <2> QED
    BY <1>0, <2>2, TaskFields DEF Settled, MarkGuard, ClaimFacts, CurrentClaim
<1>2. /\ status'[t.row] = MarkedStatus(t) /\ claimToken'[t.row] = 0
      /\ \A r \in Rows \ {t.row} : status'[r] = status[r] /\ claimToken'[r] = claimToken[r]
      /\ lease' = lease /\ attempts' = attempts /\ age' = age /\ body' = body
      /\ tasks' = tasks \ {t}
  BY <1>0, <1>1 DEF Settled, SetMarked, Drop, TypeOK
<1>3. /\ MarkedStatus(t) \in Terminal
      /\ MarkedStatus(t) = "dead_letter" => t.stage = "doomed"
  BY DEF MarkedStatus, Terminal
<1>4. \A u \in tasks' : /\ u \in tasks /\ u.row \in Rows /\ u.token \in Nat
                        /\ u.row = t.row => u.token # t.token
  BY <1>0, <1>2, TaskFields DEF ClaimFacts, TokensUnique
<1>5. TaskRowsExist' /\ BodiesKnown'
  BY <1>1, <1>2, <1>3, <1>4 DEF WellFormed, TaskRowsExist, BodiesKnown, Terminal
<1>6. TokensCounted' /\ TokensUnique'
  BY <1>0, <1>1, <1>2, <1>4 DEF ClaimFacts, TokensCounted, TokensUnique, TypeOK
<1>7. CurrentClaim'
  <2> SUFFICES ASSUME NEW u \in tasks', u.token > 0, claimToken'[u.row] = u.token
               PROVE  /\ status'[u.row] = "processing"
                      /\ lease'[u.row] # "held" => u.lease = "lapsed"
    BY DEF CurrentClaim
  <2>1. u.row # t.row
    BY <1>2
  <2> QED
    BY <2>1, <1>2, <1>4 DEF ClaimFacts, CurrentClaim
<1>8. OwnerUndisturbed'
  <2> SUFFICES ASSUME NEW u \in tasks', u.lease = "live", status'[u.row] # "deleted"
               PROVE  status'[u.row] = "processing" /\ claimToken'[u.row] = u.token
    BY DEF OwnerUndisturbed
  <2>1. u.row # t.row
    BY <1>1, <1>4 DEF ClaimFacts, OwnerUndisturbed
  <2> QED
    BY <2>1, <1>2, <1>4 DEF ClaimFacts, OwnerUndisturbed
<1>9. DoomJustified'
  BY <1>1, <1>2, <1>4 DEF DeadFacts, DoomJustified
<1>10. DeadLetterJustified'
  BY <1>1, <1>2, <1>3 DEF DeadFacts, DoomJustified, DeadLetterJustified
<1> QED
  BY <1>5, <1>6, <1>7, <1>8, <1>9, <1>10 DEF ClaimFacts, DeadFacts

LEMMA DeletedFacts ==
    ASSUME WellFormed, ClaimFacts, DeadFacts, NEW r \in Rows, DeleteOlderThan(r)
    PROVE  (TaskRowsExist /\ BodiesKnown)' /\ ClaimFacts' /\ DeadFacts'
<1>0. TypeOK
  BY DEF WellFormed
<1>1. /\ status'[r] = "deleted" /\ claimToken'[r] = 0
      /\ status[r] # "absent"
      /\ \A q \in Rows \ {r} : /\ status'[q] = status[q] /\ lease'[q] = lease[q]
                               /\ claimToken'[q] = claimToken[q] /\ age'[q] = age[q]
      /\ attempts' = attempts /\ body' = body /\ tasks' = tasks
  BY <1>0 DEF DeleteOlderThan, TypeOK, Terminal, Open
<1>2. \A t \in tasks : t.row \in Rows /\ t.token \in Nat
  BY <1>0, TaskFields
<1>3. TaskRowsExist' /\ BodiesKnown'
  BY <1>1, <1>2 DEF WellFormed, TaskRowsExist, BodiesKnown
<1>4. TokensCounted' /\ TokensUnique'
  BY <1>0, <1>1, <1>2 DEF ClaimFacts, TokensCounted, TokensUnique, TypeOK
<1>5. CurrentClaim'
  BY <1>1, <1>2 DEF ClaimFacts, CurrentClaim
<1>6. OwnerUndisturbed'
  BY <1>1, <1>2 DEF ClaimFacts, OwnerUndisturbed
<1>7. DeadFacts'
  BY <1>1, <1>2 DEF DeadFacts, DoomJustified, DeadLetterJustified
<1> QED
  BY <1>3, <1>4, <1>5, <1>6, <1>7 DEF ClaimFacts

LEMMA CreatedFacts ==
    ASSUME WellFormed, ClaimFacts, DeadFacts,
           NEW r \in Rows, NEW v \in Versions, NEW w \in Replicas, Create(r, v, w)
    PROVE  (TaskRowsExist /\ BodiesKnown)' /\ ClaimFacts' /\ DeadFacts'
<1>0. TypeOK
  BY DEF WellFormed
<1> DEFINE u == [replica |-> w, row |-> r, token |-> 0, stage |-> "received",
                 seen |-> 0, lease |-> "lapsed"]
<1>1. u.row = r /\ u.token = 0 /\ u.stage = "received" /\ u.lease = "lapsed"
  OBVIOUS
<1>2. tasks' = tasks \cup {u}
  BY DEF Create
<1> HIDE DEF u
<1>3. /\ status'[r] = "accepted" /\ body'[r] = v /\ status[r] = "absent"
      /\ \A q \in Rows \ {r} : status'[q] = status[q] /\ body'[q] = body[q]
      /\ claimToken' = claimToken /\ lease' = lease /\ attempts' = attempts /\ age' = age
      /\ attempts[r] \in Nat
  BY <1>0 DEF Create, TypeOK
<1>4. \A t \in tasks : t.row \in Rows /\ t.row # r
  BY <1>0, <1>3, TaskFields DEF WellFormed, TaskRowsExist
<1>5. TaskRowsExist' /\ BodiesKnown'
  BY <1>1, <1>2, <1>3, <1>4 DEF WellFormed, TaskRowsExist, BodiesKnown
<1>6. TokensCounted'
  BY <1>1, <1>2, <1>3 DEF ClaimFacts, TokensCounted
<1>7. TokensUnique'
  BY <1>1, <1>2, <1>4 DEF ClaimFacts, TokensUnique
<1>8. CurrentClaim'
  BY <1>1, <1>2, <1>3, <1>4 DEF ClaimFacts, CurrentClaim
<1>9. OwnerUndisturbed'
  BY <1>1, <1>2, <1>3, <1>4 DEF ClaimFacts, OwnerUndisturbed
<1>10. DeadFacts'
  BY <1>1, <1>2, <1>3, <1>4 DEF DeadFacts, DoomJustified, DeadLetterJustified
<1> QED
  BY <1>5, <1>6, <1>7, <1>8, <1>9, <1>10 DEF ClaimFacts

LEMMA LeaseFacts ==
    ASSUME WellFormed, ClaimFacts, DeadFacts, NEW r \in Rows, LeaseExpires(r)
    PROVE  (TaskRowsExist /\ BodiesKnown)' /\ ClaimFacts' /\ DeadFacts'
<1>0. TypeOK
  BY DEF WellFormed
<1> DEFINE aged(t) == IF t.row = r THEN [t EXCEPT !.lease = "lapsed"] ELSE t
<1>1. \A t \in tasks : /\ aged(t).row = t.row /\ aged(t).token = t.token
                       /\ aged(t).stage = t.stage
                       /\ aged(t).lease = IF t.row = r THEN "lapsed" ELSE t.lease
                       /\ t.row \in Rows
  <2> SUFFICES ASSUME NEW t \in tasks
               PROVE  /\ aged(t).row = t.row /\ aged(t).token = t.token
                      /\ aged(t).stage = t.stage
                      /\ aged(t).lease = IF t.row = r THEN "lapsed" ELSE t.lease
                      /\ t.row \in Rows
    OBVIOUS
  <2>1. t \in Tasks
    BY <1>0, TaskFields
  <2> QED
    BY <2>1 DEF Tasks
<1>2. tasks' = {aged(t) : t \in tasks}
  BY DEF LeaseExpires
<1> HIDE DEF aged
<1>3. /\ \A q \in Rows \ {r} : lease'[q] = lease[q]
      /\ status' = status /\ claimToken' = claimToken /\ attempts' = attempts
      /\ age' = age /\ body' = body
  BY <1>0 DEF LeaseExpires, TypeOK
<1>4. \A u \in tasks' : \E t \in tasks : u = aged(t)
  BY <1>2
<1>5. TaskRowsExist' /\ BodiesKnown'
  BY <1>1, <1>3, <1>4 DEF WellFormed, TaskRowsExist, BodiesKnown
<1>6. TokensCounted'
  BY <1>1, <1>3, <1>4 DEF ClaimFacts, TokensCounted
<1>7. TokensUnique'
  BY <1>1, <1>3, <1>4 DEF ClaimFacts, TokensUnique
<1>8. CurrentClaim'
  BY <1>1, <1>3, <1>4 DEF ClaimFacts, CurrentClaim
<1>9. OwnerUndisturbed'
  BY <1>1, <1>3, <1>4 DEF ClaimFacts, OwnerUndisturbed
<1>10. DeadFacts'
  BY <1>1, <1>3, <1>4 DEF DeadFacts, DoomJustified, DeadLetterJustified
<1> QED
  BY <1>5, <1>6, <1>7, <1>8, <1>9, <1>10 DEF ClaimFacts

LEMMA AgeFacts ==
    ASSUME WellFormed, ClaimFacts, DeadFacts, NEW r \in Rows, GrowsOld(r)
    PROVE  (TaskRowsExist /\ BodiesKnown)' /\ ClaimFacts' /\ DeadFacts'
<1>1. /\ UNCHANGED <<status, claimToken, lease, attempts, body, tasks>>
      /\ \A q \in Rows : age[q] = "old" => age'[q] = "old"
  BY DEF GrowsOld, WellFormed, TypeOK, claimVars
<1>2. TaskRowsExist' /\ BodiesKnown'
  BY <1>1 DEF WellFormed, TaskRowsExist, BodiesKnown
<1>3. ClaimFacts'
  BY <1>1 DEF ClaimFacts, TokensCounted, TokensUnique, CurrentClaim, OwnerUndisturbed
<1>4. DeadFacts'
  <2>1. \A t \in tasks : t.row \in Rows
    BY TaskFields DEF WellFormed
  <2> QED
    BY <1>1, <2>1 DEF DeadFacts, DoomJustified, DeadLetterJustified
<1> QED
  BY <1>2, <1>3, <1>4

LEMMA FactsStep ==
    ASSUME WellFormed, ClaimFacts, DeadFacts, [Next]_vars
    PROVE  (TaskRowsExist /\ BodiesKnown)' /\ ClaimFacts' /\ DeadFacts'
BY StepShapes, MovedFacts, ForgottenFacts, ClaimedFacts, SettledFacts, DeletedFacts,
   CreatedFacts, LeaseFacts, AgeFacts DEF Created

-----------------------------------------------------------------------------
(* The events: who inserted the row hands it on, and nobody else.          *)

LEMMA MovedRecord ==
    ASSUME WellFormed, RecordFacts, NEW t \in tasks, NEW u, MovedTo(t, u)
    PROVE  RecordFacts'
<1>0. TypeOK /\ body[t.row] \in Versions /\ \A x \in tasks : body[x.row] \in Versions
  BY TaskBody DEF WellFormed
<1>1. /\ tasks' = (tasks \ {t}) \cup {u} /\ u.row = t.row /\ body' = body
  BY DEF MovedTo, frozen
<1>2. CASE u.stage # "evaluating" /\ UNCHANGED record
  BY <1>1, <1>2 DEF RecordFacts, RecordedOnce, EvaluatedOnce, record
<1>3. CASE /\ u.stage = "evaluating" /\ body[t.row] \notin events
           /\ events' = events \cup {body[t.row]} /\ UNCHANGED handed
  <2>1. handed[body[t.row]] = 0
    BY <1>0, <1>3 DEF RecordFacts, RecordedOnce, TypeOK
  <2>2. \A x \in tasks : x.stage = "evaluating" => body[x.row] # body[t.row]
    BY <1>3 DEF RecordFacts, RecordedOnce
  <2>3. RecordedOnce'
    BY <1>1, <1>3, <2>1, <2>2 DEF RecordFacts, RecordedOnce
  <2> QED
    BY <1>3, <2>3 DEF RecordFacts, EvaluatedOnce
<1>4. CASE /\ t.stage = "evaluating" /\ u.stage = "processed"
           /\ handed' = [handed EXCEPT ![body[t.row]] = @ + 1] /\ UNCHANGED events
  <2>1. /\ handed'[body[t.row]] = 1 /\ body[t.row] \in events
        /\ \A v \in Versions \ {body[t.row]} : handed'[v] = handed[v]
    BY <1>0, <1>4 DEF RecordFacts, RecordedOnce, TypeOK
  <2>2. \A x \in tasks : x.stage = "evaluating" /\ x # t => body[x.row] # body[t.row]
    BY <1>4 DEF RecordFacts, RecordedOnce
  <2>3. RecordedOnce'
    <3>1. \A x \in tasks' : x.stage = "evaluating" =>
              x \in tasks /\ x # t
      BY <1>1, <1>4
    <3>2. \A x \in tasks' : x.stage = "evaluating" =>
              body'[x.row] \in events' /\ handed'[body'[x.row]] = 0
      BY <1>0, <1>1, <1>4, <2>1, <2>2, <3>1 DEF RecordFacts, RecordedOnce
    <3>3. \A x, y \in tasks' :
              /\ x.stage = "evaluating" /\ y.stage = "evaluating"
              /\ body'[x.row] = body'[y.row]
              => x = y
      BY <1>1, <3>1 DEF RecordFacts, RecordedOnce
    <3>4. \A v \in Versions : handed'[v] > 0 => v \in events'
      BY <1>4, <2>1 DEF RecordFacts, RecordedOnce
    <3> QED
      BY <3>2, <3>3, <3>4 DEF RecordedOnce
  <2>4. EvaluatedOnce'
    BY <2>1 DEF RecordFacts, EvaluatedOnce
  <2> QED
    BY <2>3, <2>4 DEF RecordFacts
<1> QED
  BY <1>2, <1>3, <1>4 DEF MovedTo, RecordPart

LEMMA QuietRecord ==
    ASSUME WellFormed, RecordFacts, UNCHANGED record,
           \A u \in tasks' : u.stage = "evaluating" => u \in tasks,
           \A u \in tasks : body'[u.row] = body[u.row]
    PROVE  RecordFacts'
BY DEF RecordFacts, RecordedOnce, EvaluatedOnce, record

(* An expired lease changes tasks but not what they do next.               *)
LEMMA LeaseRecord ==
    ASSUME WellFormed, RecordFacts, NEW r \in Rows, LeaseExpires(r)
    PROVE  RecordFacts'
<1> DEFINE aged(t) == IF t.row = r THEN [t EXCEPT !.lease = "lapsed"] ELSE t
<1>1. \A t \in tasks : aged(t).row = t.row /\ aged(t).stage = t.stage
  <2> SUFFICES ASSUME NEW t \in tasks
               PROVE  aged(t).row = t.row /\ aged(t).stage = t.stage
    OBVIOUS
  <2>1. t \in Tasks
    BY TaskFields DEF WellFormed
  <2> QED
    BY <2>1 DEF Tasks
<1>2. \A u \in tasks' : \E t \in tasks : u = aged(t)
  BY DEF LeaseExpires
<1>3. UNCHANGED <<body, record>>
  BY DEF LeaseExpires, itemVars, record
<1> HIDE DEF aged
<1>4. RecordedOnce'
  BY <1>1, <1>2, <1>3 DEF RecordFacts, RecordedOnce, record
<1> QED
  BY <1>3, <1>4 DEF RecordFacts, EvaluatedOnce, record

LEMMA RecordStep ==
    ASSUME WellFormed, RecordFacts, [Next]_vars
    PROVE  RecordFacts'
<1>0. \A t \in tasks : t.row \in Rows /\ status[t.row] # "absent"
  BY TaskFields DEF WellFormed, TaskRowsExist
<1>1. ASSUME NEW hit \in SUBSET Rows, Claimed(hit) PROVE RecordFacts'
  BY <1>1, QuietRecord DEF Claimed
<1>2. CASE Forgotten
  BY <1>2, QuietRecord DEF Forgotten, frozen
<1>3. ASSUME NEW t \in tasks, Settled(t) PROVE RecordFacts'
  BY <1>3, QuietRecord DEF Settled, Drop
<1>4. ASSUME NEW r \in Rows, DeleteOlderThan(r) \/ GrowsOld(r) PROVE RecordFacts'
  BY <1>4, QuietRecord DEF DeleteOlderThan, GrowsOld, itemVars, record
<1>5. ASSUME NEW r \in Rows, NEW v \in Versions, NEW w \in Replicas, Create(r, v, w)
      PROVE  RecordFacts'
  <2> DEFINE u == [replica |-> w, row |-> r, token |-> 0, stage |-> "received",
                   seen |-> 0, lease |-> "lapsed"]
  <2>1. u.stage = "received" /\ tasks' = tasks \cup {u}
    BY <1>5 DEF Create
  <2> HIDE DEF u
  <2>2. \A t \in tasks : body'[t.row] = body[t.row]
    BY <1>0, <1>5 DEF Create, WellFormed, TypeOK
  <2> QED
    BY <1>5, <2>1, <2>2, QuietRecord DEF Create, itemVars, record
<1> QED
  BY <1>1, <1>2, <1>3, <1>4, <1>5, StepShapes, MovedRecord, LeaseRecord DEF Created

-----------------------------------------------------------------------------
LEMMA InitInv == Init => IInv
<1> SUFFICES ASSUME Init PROVE IInv
  OBVIOUS
<1>1. TypeOK
  BY VersionAssumption, BoundAssumption DEF Init, TypeOK, Statuses
<1>2. TaskRowsExist /\ BodiesKnown
  BY DEF Init, TaskRowsExist, BodiesKnown
<1>3. TokensCounted /\ TokensUnique /\ CurrentClaim /\ OwnerUndisturbed
  BY DEF Init, TokensCounted, TokensUnique, CurrentClaim, OwnerUndisturbed
<1>4. RecordedOnce /\ EvaluatedOnce /\ DoomJustified /\ DeadLetterJustified
  BY DEF Init, RecordedOnce, EvaluatedOnce, DoomJustified, DeadLetterJustified
<1> QED
  BY <1>1, <1>2, <1>3, <1>4 DEF IInv

LEMMA StepInv == IInv /\ [Next]_vars => IInv'
<1> SUFFICES ASSUME IInv, [Next]_vars PROVE IInv'
  OBVIOUS
<1>1. WellFormed /\ ClaimFacts /\ RecordFacts /\ DeadFacts
  BY DEF IInv, WellFormed, ClaimFacts, RecordFacts, DeadFacts
<1>2. TypeOK'
  BY <1>1, TypeStep
<1>3. (TaskRowsExist /\ BodiesKnown)' /\ ClaimFacts' /\ DeadFacts'
  BY <1>1, FactsStep
<1>4. RecordFacts'
  BY <1>1, RecordStep
<1> QED
  BY <1>2, <1>3, <1>4 DEF IInv, ClaimFacts, RecordFacts, DeadFacts

LEMMA Invariant == Spec => []IInv
BY InitInv, StepInv, PTL DEF Spec

(* The table's columns and the tasks in memory keep their types.           *)
THEOREM WebhookTypeCorrect == Spec => []TypeOK
<1>1. IInv => TypeOK
  BY DEF IInv
<1> QED
  BY <1>1, Invariant, PTL

(* While the lease of a claim runs, the delivery is the claimant's alone.  *)
THEOREM ClaimOwnsDelivery == Spec => []OwnerUndisturbed
<1>1. IInv => OwnerUndisturbed
  BY DEF IInv
<1> QED
  BY <1>1, Invariant, PTL

(* Whatever redeliveries, replays, recoveries and crashes happen, an event *)
(* is handed to the evaluator at most once.                                *)
THEOREM NoEventTwice == Spec => []EvaluatedOnce
<1>1. IInv => EvaluatedOnce
  BY DEF IInv
<1> QED
  BY <1>1, Invariant, PTL

(* Only a delivery tried MaxAttempts times or too old is given up.         *)
THEOREM DeadLettersJustified == Spec => []DeadLetterJustified
<1>1. IInv => DeadLetterJustified
  BY DEF IInv
<1> QED
  BY <1>1, Invariant, PTL

(* A settled delivery keeps its outcome until retention deletes it, late   *)
(* goroutines notwithstanding.                                             *)
THEOREM SettledForGood == Spec => SettledOnce
<1> DEFINE Keeps == \A r \in Rows :
                       status[r] \in Terminal => status'[r] \in {status[r], "deleted"}
<1>1. IInv /\ [Next]_vars => Keeps
  <2> SUFFICES ASSUME IInv, [Next]_vars PROVE Keeps
    OBVIOUS
  <2>0. WellFormed
    BY DEF IInv, WellFormed
  <2>1. ASSUME NEW t \in tasks, NEW u, MovedTo(t, u) PROVE Keeps
    BY <2>1 DEF MovedTo, frozen, claimVars
  <2>2. CASE Forgotten
    BY <2>2 DEF Forgotten, frozen, claimVars
  <2>3. ASSUME NEW hit \in SUBSET Rows, Claimed(hit) PROVE Keeps
    BY <2>3 DEF Claimed, ClaimRows, Claimable, Terminal
  <2>4. ASSUME NEW t \in tasks, Settled(t) PROVE Keeps
    <3>1. status[t.row] \notin Terminal /\ t.row \in Rows
      BY <2>0, <2>4, TaskFields DEF Settled, MarkGuard, Open, Terminal, WellFormed
    <3> QED
      BY <2>0, <2>4, <3>1 DEF Settled, SetMarked, WellFormed, TypeOK
  <2>5. ASSUME NEW r \in Rows, DeleteOlderThan(r) \/ LeaseExpires(r) \/ GrowsOld(r)
        PROVE  Keeps
    BY <2>0, <2>5
       DEF DeleteOlderThan, LeaseExpires, GrowsOld, WellFormed, TypeOK, claimVars
  <2>6. ASSUME NEW r \in Rows, NEW v \in Versions, NEW w \in Replicas, Create(r, v, w)
        PROVE  Keeps
    BY <2>0, <2>6 DEF Create, WellFormed, TypeOK, Terminal
  <2> QED
    BY <2>0, <2>1, <2>2, <2>3, <2>4, <2>5, <2>6, StepShapes DEF Created
<1>2. IInv /\ [Next]_vars => [Keeps]_vars
  BY <1>1
<1> QED
  BY <1>2, Invariant, PTL DEF Spec, SettledOnce

-----------------------------------------------------------------------------
(* Why no event is lost silently without a fault.  What is recorded was    *)
(* handed over or is about to be, and a version in the work item's row     *)
(* came with a delivery that is accounted for, unless it was there before. *)
InitialsOlder == \A i \in InitialVersions, v \in Versions : i < v

AbsentBodies == \A r \in Rows : status[r] = "absent" => body[r] = 0

EventsHanded ==
    \A v \in events :
        handed[v] > 0 \/ \E t \in tasks : t.stage = "evaluating" /\ body[t.row] = v

StoredAccounted ==
    \/ \A v \in Versions : stored < v
    \/ \E r \in Rows : status[r] # "absent" /\ body[r] = stored /\ Accounted(stored)

StaleAccounted ==
    \A t \in tasks : t.stage = "processed" => Accounted(body[t.row])

NothingLost ==
    /\ stopping = {}
    /\ EventsHanded
    /\ StoredAccounted
    /\ StaleAccounted
    /\ ProcessedMeansEvaluated

CleanRun == AbsentBodies /\ (faults = 0 => NothingLost)

(* A version accounted for stays so if no task about to record or hand     *)
(* over its event is lost.                                                 *)
LEMMA AccountedKept ==
    ASSUME TypeOK, NEW v \in Versions, Accounted(v),
           \A r \in Rows : body[r] > v => body'[r] > v,
           handed[v] > 0 => handed'[v] > 0,
           \A t \in tasks :
              t.stage \in {"recording", "evaluating"} /\ body[t.row] = v =>
                 \/ handed'[v] > 0
                 \/ \E u \in tasks' : /\ body'[u.row] = v
                                      /\ u.stage \in {"recording", "evaluating"}
    PROVE  Accounted(v)'
<1>1. CASE handed[v] > 0
  BY <1>1 DEF Accounted
<1>2. CASE \E t \in tasks : body[t.row] = v /\ t.stage \in {"recording", "evaluating"}
  BY <1>2 DEF Accounted
<1>3. CASE \E r \in Rows : body[r] > v
  BY <1>3 DEF Accounted
<1> QED
  BY <1>1, <1>2, <1>3 DEF Accounted

(* A step that keeps the item, the events and the tasks about to record or *)
(* hand over, and marks as processed only what a task found stale or       *)
(* handed over.                                                            *)
LEMMA QuietClean ==
    ASSUME WellFormed, AbsentBodies, NothingLost,
           UNCHANGED <<stored, events, handed>>, stopping' = {},
           \A r \in Rows : status[r] # "absent" =>
                              status'[r] # "absent" /\ body'[r] = body[r],
           \A t \in tasks : t.stage \in {"recording", "evaluating"} =>
              \E u \in tasks' : u.row = t.row /\ u.stage = t.stage,
           \A u \in tasks' : u.stage = "processed" =>
              \E t \in tasks : t.row = u.row /\ t.stage = "processed",
           \A r \in Rows : status'[r] = "processed" =>
              \/ status[r] = "processed"
              \/ \E t \in tasks : t.row = r /\ t.stage = "processed"
    PROVE  NothingLost'
<1>0. \A t \in tasks : /\ t.row \in Rows /\ status[t.row] # "absent"
                       /\ body[t.row] \in Versions /\ body'[t.row] = body[t.row]
  BY TaskFields, TaskBody DEF WellFormed, TaskRowsExist
<1>1. ASSUME NEW v \in Versions, Accounted(v) PROVE Accounted(v)'
  <2>1. v \in Nat \ {0}
    BY VersionAssumption
  <2>2. \A r \in Rows : body[r] > v => body'[r] > v
    BY <2>1 DEF AbsentBodies
  <2>3. \A t \in tasks :
          t.stage \in {"recording", "evaluating"} /\ body[t.row] = v =>
             \E u \in tasks' : /\ body'[u.row] = v
                               /\ u.stage \in {"recording", "evaluating"}
    BY <1>0
  <2> QED
    BY <1>1, <2>2, <2>3, AccountedKept DEF WellFormed
<1>2. EventsHanded'
  BY <1>0 DEF NothingLost, EventsHanded
<1>3. StoredAccounted'
  <2>1. CASE \A v \in Versions : stored < v
    BY <2>1 DEF StoredAccounted
  <2>2. ASSUME NEW r \in Rows, status[r] # "absent", body[r] = stored, Accounted(stored)
        PROVE  StoredAccounted'
    <3>1. stored \in Versions
      BY <2>2 DEF WellFormed, BodiesKnown
    <3>2. Accounted(stored)'
      BY <1>1, <2>2, <3>1
    <3> QED
      BY <2>2, <3>2 DEF StoredAccounted
  <2> QED
    BY <2>1, <2>2 DEF NothingLost, StoredAccounted
<1>4. StaleAccounted'
  <2> SUFFICES ASSUME NEW u \in tasks', u.stage = "processed"
               PROVE  Accounted(body[u.row])'
    BY DEF StaleAccounted
  <2>1. PICK t \in tasks : t.row = u.row /\ t.stage = "processed"
    OBVIOUS
  <2>2. Accounted(body[t.row])
    BY <2>1 DEF NothingLost, StaleAccounted
  <2>3. body'[u.row] = body[t.row] /\ body[t.row] \in Versions
    BY <1>0, <2>1
  <2> QED
    BY <1>1, <2>2, <2>3 DEF Accounted
<1>5. ProcessedMeansEvaluated'
  <2> SUFFICES ASSUME NEW r \in Rows, status'[r] = "processed"
               PROVE  Accounted(body[r])'
    BY DEF ProcessedMeansEvaluated
  <2>1. status[r] # "absent" /\ Accounted(body[r])
    BY <1>0 DEF NothingLost, ProcessedMeansEvaluated, StaleAccounted
  <2>2. body'[r] = body[r] /\ body[r] \in Versions
    BY <2>1 DEF WellFormed, BodiesKnown
  <2> QED
    BY <1>1, <2>1, <2>2 DEF Accounted
<1> QED
  BY <1>2, <1>3, <1>4, <1>5 DEF NothingLost

(* A task of the pipeline becomes u and touches no row.                    *)
Becomes(t, u) ==
    /\ u.row = t.row
    /\ tasks' = (tasks \ {t}) \cup {u}
    /\ UNCHANGED <<rowVars, stopping>>

LEMMA BecomesNext ==
    ASSUME WellFormed, NEW t \in tasks, NEW stage \in Stages, NEW seen \in Nat,
           tasks' = (tasks \ {t}) \cup {[t EXCEPT !.stage = stage, !.seen = seen]},
           UNCHANGED <<rowVars, stopping>>
    PROVE  \E u : Becomes(t, u) /\ u.stage = stage
<1> DEFINE u == [t EXCEPT !.stage = stage, !.seen = seen]
<1>1. u.row = t.row /\ u.stage = stage
  BY AdvancedTask DEF WellFormed
<1> HIDE DEF u
<1>2. tasks' = (tasks \ {t}) \cup {u}
  BY DEF u
<1> QED
  BY <1>1, <1>2 DEF Becomes

(* What is accounted for before such a step is so after it, whence what    *)
(* the step did not add stays accounted for.                               *)
LEMMA BecomesKept ==
    ASSUME WellFormed, NothingLost, NEW t \in tasks, NEW u, Becomes(t, u),
           \A v \in Versions : handed[v] > 0 => handed'[v] > 0,
           t.stage \in {"recording", "evaluating"} =>
              \/ u.stage = "evaluating"
              \/ handed'[body[t.row]] > 0
              \/ \E x \in tasks \ {t} : x.stage = "evaluating" /\ body[x.row] = body[t.row]
    PROVE  /\ \A v \in Versions : Accounted(v) => Accounted(v)'
           /\ ProcessedMeansEvaluated'
           /\ stored' = stored => StoredAccounted'
           /\ (u.stage = "processed" => Accounted(body[t.row])') => StaleAccounted'
<1>0. /\ body' = body /\ status' = status
      /\ \A x \in tasks : x.row \in Rows /\ body[x.row] \in Versions
  BY TaskFields, TaskBody DEF WellFormed, Becomes, rowVars, claimVars
<1>1. ASSUME NEW v \in Versions, Accounted(v) PROVE Accounted(v)'
  <2>1. ASSUME NEW x \in tasks, x.stage \in {"recording", "evaluating"}, body[x.row] = v
        PROVE  \/ handed'[v] > 0
               \/ \E y \in tasks' : /\ body'[y.row] = v
                                    /\ y.stage \in {"recording", "evaluating"}
    BY <1>0, <2>1 DEF Becomes
  <2> QED
    BY <1>0, <1>1, <2>1, AccountedKept DEF WellFormed
<1>2. ProcessedMeansEvaluated'
  <2> SUFFICES ASSUME NEW r \in Rows, status'[r] = "processed" PROVE Accounted(body[r])'
    BY DEF ProcessedMeansEvaluated
  <2>1. Accounted(body[r]) /\ body[r] \in Versions
    BY <1>0 DEF NothingLost, ProcessedMeansEvaluated, WellFormed, BodiesKnown
  <2> QED
    BY <1>0, <1>1, <2>1 DEF Accounted
<1>3. ASSUME stored' = stored PROVE StoredAccounted'
  <2>1. CASE \A v \in Versions : stored < v
    BY <1>3, <2>1 DEF StoredAccounted
  <2>2. ASSUME NEW r \in Rows, status[r] # "absent", body[r] = stored, Accounted(stored)
        PROVE  StoredAccounted'
    <3>1. stored \in Versions
      BY <2>2 DEF WellFormed, BodiesKnown
    <3>2. Accounted(stored)'
      BY <1>1, <1>3, <2>2, <3>1 DEF Accounted
    <3> QED
      BY <1>0, <1>3, <2>2, <3>2 DEF StoredAccounted
  <2> QED
    BY <2>1, <2>2 DEF NothingLost, StoredAccounted
<1>4. ASSUME u.stage = "processed" => Accounted(body[t.row])' PROVE StaleAccounted'
  <2> SUFFICES ASSUME NEW x \in tasks', x.stage = "processed" PROVE Accounted(body[x.row])'
    BY DEF StaleAccounted
  <2>1. CASE x = u
    BY <1>0, <1>4, <2>1 DEF Becomes, Accounted
  <2>2. CASE x \in tasks
    <3>1. Accounted(body[x.row]) /\ body[x.row] \in Versions
      BY <1>0, <2>2 DEF NothingLost, StaleAccounted
    <3> QED
      BY <1>0, <1>1, <3>1 DEF Accounted
  <2> QED
    BY <2>1, <2>2 DEF Becomes
<1> QED
  BY <1>1, <1>2, <1>3, <1>4

LEMMA ReadClean ==
    ASSUME WellFormed, NothingLost, NEW t \in tasks, ReadItem(t)
    PROVE  NothingLost'
<1> DEFINE stage == IF body[t.row] <= stored THEN "processed" ELSE "writing"
<1>0. /\ t.stage = "reading" /\ stored \in Nat /\ body[t.row] \in Versions
      /\ body[t.row] \in Nat \ {0} /\ t.row \in Rows /\ stage \in Stages
      /\ \A r \in Rows : body[r] \in Nat
  BY TaskFields, TaskBody, VersionAssumption
     DEF ReadItem, WellFormed, TypeOK, Stages, Pipeline, Marks
<1>1. UNCHANGED <<rowVars, stopping, itemVars>>
  BY DEF ReadItem
<1>2. tasks' = (tasks \ {t}) \cup {[t EXCEPT !.stage = stage, !.seen = stored]}
  BY <1>0, TaskFields DEF ReadItem, WellFormed, Tasks
<1> HIDE DEF stage
<1>3. PICK u : Becomes(t, u) /\ u.stage = stage
  BY <1>0, <1>1, <1>2, BecomesNext
<1>4. /\ \A v \in Versions : Accounted(v) => Accounted(v)'
      /\ ProcessedMeansEvaluated' /\ StoredAccounted'
      /\ (u.stage = "processed" => Accounted(body[t.row])') => StaleAccounted'
  <2>1. stored' = stored /\ handed' = handed
    BY <1>1 DEF itemVars
  <2> QED
    BY <1>0, <1>3, <2>1, BecomesKept
<1>5. ASSUME u.stage = "processed" PROVE Accounted(body[t.row])'
  <2>1. body[t.row] <= stored
    BY <1>3, <1>5 DEF stage
  <2>2. PICK r \in Rows : body[r] = stored /\ Accounted(stored)
    BY <1>0, <2>1 DEF NothingLost, StoredAccounted
  <2>3. body' = body
    BY <1>1 DEF rowVars
  <2>4. CASE body[t.row] = stored
    BY <1>0, <1>4, <2>2, <2>3, <2>4 DEF Accounted
  <2>5. CASE body[t.row] # stored
    <3>1. body[r] > body[t.row]
      BY <1>0, <2>1, <2>2, <2>5
    <3> QED
      BY <2>3, <3>1 DEF Accounted
  <2> QED
    BY <2>4, <2>5
<1>6. EventsHanded' /\ stopping' = {}
  BY <1>0, <1>1, <1>3 DEF NothingLost, EventsHanded, Becomes, itemVars, rowVars
<1> QED
  BY <1>4, <1>5, <1>6 DEF NothingLost

LEMMA WriteClean ==
    ASSUME WellFormed, NothingLost, NEW t \in tasks, WriteItem(t)
    PROVE  NothingLost'
<1>0. /\ t.stage = "writing" /\ t.row \in Rows /\ status[t.row] # "absent"
      /\ {"failed", "recording"} \subseteq Stages
  BY TaskFields DEF WriteItem, WellFormed, TaskRowsExist, Stages, Pipeline, Marks
<1>1. UNCHANGED <<rowVars, stopping, events, handed>>
  BY DEF WriteItem
<1>2. PICK u : /\ Becomes(t, u) /\ u.stage \in {"failed", "recording"}
               /\ u.stage = "recording" => stored' = body[t.row]
               /\ u.stage = "failed" => stored' = stored
  <2>1. CASE Advance(t, "failed") /\ stored' = stored
    BY <1>0, <1>1, <2>1, BecomesNext DEF Advance
  <2>2. CASE Advance(t, "recording") /\ stored' = body[t.row]
    BY <1>0, <1>1, <2>2, BecomesNext DEF Advance
  <2> QED
    BY <2>1, <2>2 DEF WriteItem
<1>3. /\ ProcessedMeansEvaluated' /\ StaleAccounted'
      /\ stored' = stored => StoredAccounted'
  BY <1>0, <1>1, <1>2, BecomesKept
<1>4. StoredAccounted'
  <2>1. CASE u.stage = "recording"
    <3>1. body' = body /\ status' = status /\ u \in tasks' /\ u.row = t.row
      BY <1>2 DEF Becomes, rowVars, claimVars
    <3>2. Accounted(stored)'
      BY <1>2, <2>1, <3>1 DEF Accounted
    <3> QED
      BY <1>0, <1>2, <2>1, <3>1, <3>2 DEF StoredAccounted
  <2> QED
    BY <1>2, <1>3, <2>1
<1>5. EventsHanded' /\ stopping' = {}
  BY <1>0, <1>1, <1>2 DEF NothingLost, EventsHanded, Becomes, rowVars
<1> QED
  BY <1>3, <1>4, <1>5 DEF NothingLost

LEMMA RecordClean ==
    ASSUME WellFormed, NothingLost, NEW t \in tasks, RecordEvent(t)
    PROVE  NothingLost'
<1> DEFINE v == body[t.row]
<1>0. t.stage = "recording" /\ {"processed", "evaluating"} \subseteq Stages /\ v \in Versions
  BY TaskBody DEF RecordEvent, Stages, Pipeline, Marks
<1>1. UNCHANGED <<rowVars, stopping, stored, handed>>
  BY DEF RecordEvent
<1>2. PICK u : /\ Becomes(t, u)
               /\ \/ u.stage = "processed" /\ v \in events /\ events' = events
                  \/ u.stage = "evaluating" /\ events' = events \cup {v}
  <2>1. CASE KnownEvent(v) /\ Advance(t, "processed") /\ events' = events
    BY <1>0, <1>1, <2>1, BecomesNext DEF Advance, KnownEvent
  <2>2. CASE Advance(t, "evaluating") /\ events' = events \cup {v}
    BY <1>0, <1>1, <2>2, BecomesNext DEF Advance
  <2> QED
    BY <2>1, <2>2 DEF RecordEvent
<1>3. body' = body /\ stopping' = {}
  BY <1>1 DEF rowVars, NothingLost
<1>4. EventsHanded'
  BY <1>0, <1>1, <1>2, <1>3 DEF NothingLost, EventsHanded, Becomes
<1>5. u.stage = "processed" =>
         \/ handed[v] > 0
         \/ \E x \in tasks \ {t} : x.stage = "evaluating" /\ body[x.row] = v
  BY <1>0, <1>2 DEF NothingLost, EventsHanded
<1>6. u.stage = "processed" => Accounted(body[t.row])'
  BY <1>1, <1>2, <1>3, <1>5 DEF Accounted, Becomes
<1>7. ProcessedMeansEvaluated' /\ StoredAccounted' /\ StaleAccounted'
  BY <1>0, <1>1, <1>2, <1>5, <1>6, BecomesKept
<1> QED
  BY <1>3, <1>4, <1>7 DEF NothingLost

LEMMA EvaluateClean ==
    ASSUME WellFormed, NothingLost, NEW t \in tasks, Evaluate(t)
    PROVE  NothingLost'
<1> DEFINE v == body[t.row]
<1>0. t.stage = "evaluating" /\ "processed" \in Stages /\ v \in Versions
  BY TaskBody DEF Evaluate, Stages, Marks
<1>1. /\ UNCHANGED <<rowVars, stopping, stored, events>>
      /\ handed' = [handed EXCEPT ![v] = @ + 1]
  BY DEF Evaluate
<1>2. PICK u : Becomes(t, u) /\ u.stage = "processed"
  BY <1>0, <1>1, BecomesNext DEF Evaluate, Advance
<1>3. body' = body /\ stopping' = {}
  BY <1>1 DEF rowVars, NothingLost
<1>4. handed'[v] > 0 /\ \A x \in Versions : handed[x] > 0 => handed'[x] > 0
  BY <1>0, <1>1 DEF WellFormed, TypeOK
<1>5. EventsHanded'
  <2>1. events \subseteq Versions
    BY DEF WellFormed, TypeOK
  <2> QED
    BY <1>0, <1>1, <1>2, <1>3, <1>4, <2>1 DEF NothingLost, EventsHanded, Becomes
<1>6. Accounted(body[t.row])'
  BY <1>3, <1>4 DEF Accounted
<1>7. ProcessedMeansEvaluated' /\ StoredAccounted' /\ StaleAccounted'
  BY <1>0, <1>1, <1>2, <1>4, <1>6, BecomesKept
<1> QED
  BY <1>3, <1>5, <1>7 DEF NothingLost

(* A row, once there, stays there with its body.                           *)
LEMMA RowsKept ==
    ASSUME WellFormed, [Next]_vars, NEW r \in Rows
    PROVE  /\ status[r] # "absent" => status'[r] # "absent" /\ body'[r] = body[r]
           /\ status'[r] = "absent" => status[r] = "absent" /\ body'[r] = body[r]
<1> USE DEF WellFormed
<1>1. ASSUME NEW t \in tasks, NEW u, MovedTo(t, u) PROVE UNCHANGED <<status, body>>
  BY <1>1 DEF MovedTo, frozen, claimVars
<1>2. CASE Forgotten
  BY <1>2 DEF Forgotten, frozen, claimVars
<1>3. ASSUME NEW hit \in SUBSET Rows, Claimed(hit)
      PROVE  body' = body /\ status'[r] \in {status[r], "processing"} /\
             (r \in hit => status[r] # "absent") /\ (r \notin hit => status'[r] = status[r])
  BY <1>3 DEF Claimed, ClaimRows, Claimable
<1>4. ASSUME NEW t \in tasks, Settled(t)
      PROVE  /\ body' = body /\ status[t.row] # "absent" /\ status'[t.row] # "absent"
             /\ r # t.row => status'[r] = status[r]
  <2>1. t.row \in Rows
    BY TaskFields
  <2> QED
    BY <1>4, <2>1 DEF Settled, SetMarked, MarkedStatus, MarkGuard, Open, TypeOK
<1>5. ASSUME NEW s \in Rows, DeleteOlderThan(s) \/ LeaseExpires(s) \/ GrowsOld(s)
      PROVE  /\ body' = body
             /\ \/ status' = status
                \/ status[s] # "absent" /\ status' = [status EXCEPT ![s] = "deleted"]
  BY <1>5 DEF DeleteOlderThan, LeaseExpires, GrowsOld, claimVars, Open, Terminal
<1>6. ASSUME NEW s \in Rows, NEW v \in Versions, NEW w \in Replicas, Create(s, v, w)
      PROVE  /\ status[s] = "absent" /\ status'[s] = "accepted"
             /\ r # s => status'[r] = status[r] /\ body'[r] = body[r]
  BY <1>6 DEF Create, TypeOK
<1>7. CASE \E hit \in SUBSET Rows : Claimed(hit)
  BY <1>3, <1>7
<1>8. CASE \E t \in tasks : Settled(t)
  BY <1>4, <1>8
<1>9. CASE \E s \in Rows : DeleteOlderThan(s) \/ LeaseExpires(s) \/ GrowsOld(s)
  BY <1>5, <1>9 DEF TypeOK
<1>10. CASE Created
  BY <1>6, <1>10 DEF Created
<1> QED
  BY <1>1, <1>2, <1>7, <1>8, <1>9, <1>10, StepShapes

(* Without a fault no call fails and no process stops.                     *)
LEMMA NoFault ==
    ASSUME TypeOK, faults = 0, faults' = 0, stopping = {}
    PROVE  /\ ~Fault /\ ~FaultStep
           /\ \A w \in Replicas : ~Exit(w)
           /\ \A t \in tasks : ~CancelWait(t)
<1>1. ~Fault
  BY DEF Fault
<1>2. \A w : ~CallFails(w)
  BY <1>1 DEF CallFails
<1> QED
  BY <1>1, <1>2
     DEF FaultStep, ClaimOwnFails, StepFails, MarkFails, Shutdown, Crash, Exit, CancelWait

LEMMA CleanStep ==
    ASSUME WellFormed, AbsentBodies, NothingLost, [Next]_vars,
           faults = 0, faults' = 0
    PROVE  NothingLost'
<1> USE DEF itemVars
<1>0. /\ TypeOK /\ stopping = {}
      /\ \A r \in Rows : status[r] # "absent" =>
                            status'[r] # "absent" /\ body'[r] = body[r]
  BY RowsKept DEF WellFormed, NothingLost
<1>1. ASSUME NEW t \in tasks, ClaimOwn(t) PROVE NothingLost'
  <2>1. t.row \in Rows /\ t.replica \in Replicas /\ t.stage = "received"
        /\ "waiting" \in Stages
    BY <1>1, TaskFields DEF WellFormed, ClaimOwn, Stages
  <2>2. Claim(t.replica, t.row, "waiting").stage = "waiting"
    BY <1>0, <2>1, ClaimFields
  <2>3. /\ UNCHANGED <<stored, events, handed>> /\ stopping' = {}
        /\ \A r \in Rows : status'[r] = "processed" => status[r] = "processed"
    BY <1>0, <1>1 DEF ClaimOwn, ClaimRows, claimVars
  <2>4. /\ tasks \ {t} \subseteq tasks'
        /\ tasks' \subseteq tasks \cup {Claim(t.replica, t.row, "waiting")}
    BY <1>1 DEF ClaimOwn, Drop
  <2> HIDE DEF itemVars
  <2> QED
    BY <1>0, <2>1, <2>2, <2>3, <2>4, QuietClean
<1>2. ASSUME NEW t \in tasks, AcquireSlot(t) PROVE NothingLost'
  <2>1. "reading" \in Stages /\ UNCHANGED <<rowVars, stopping>> /\ t.stage = "waiting"
    BY <1>2 DEF AcquireSlot, Stages, Pipeline
  <2>2. PICK u : Becomes(t, u) /\ u.stage = "reading"
    BY <1>2, <2>1, BecomesNext DEF AcquireSlot, Advance
  <2>3. UNCHANGED <<stored, events, handed>> /\ stopping' = {} /\ status' = status
    BY <1>0, <1>2 DEF AcquireSlot, rowVars, claimVars
  <2> QED
    BY <1>0, <2>1, <2>2, <2>3, QuietClean DEF Becomes
<1>3. ASSUME NEW t \in tasks, Mark(t) PROVE NothingLost'
  <2>1. t.row \in Rows /\ t.stage \in Marks /\ tasks' = tasks \ {t}
    BY <1>3, TaskFields DEF WellFormed, Mark, Drop
  <2>2. UNCHANGED <<stored, events, handed>> /\ stopping' = {}
    BY <1>0, <1>3 DEF Mark
  <2>3. \A r \in Rows : status'[r] = "processed" =>
            status[r] = "processed" \/ (r = t.row /\ t.stage = "processed")
    BY <1>0, <1>3, <2>1 DEF Mark, SetMarked, MarkedStatus, claimVars, TypeOK
  <2>4. /\ t.stage \notin {"recording", "evaluating"}
        /\ \A x \in tasks : x.stage \in {"recording", "evaluating"} => x \in tasks'
        /\ \A x \in tasks' : x \in tasks
    BY <2>1 DEF Marks
  <2> QED
    BY <1>0, <2>2, <2>3, <2>4, QuietClean
<1>4. ASSUME NEW w \in Replicas, RecoverOrphans(w) PROVE NothingLost'
  <2>1. Claimed(Due)
    BY <1>4, BatchClaim
  <2>2. /\ UNCHANGED <<stored, events, handed>> /\ stopping' = {}
        /\ tasks \subseteq tasks'
        /\ \A r \in Rows : status'[r] = "processed" => status[r] = "processed"
    BY <1>0, <1>4 DEF RecoverOrphans, ClaimRows
  <2>3. \A u \in tasks' : u \in tasks \/ u.stage \in {"waiting", "doomed"}
    BY <2>1 DEF Claimed
  <2> QED
    BY <1>0, <2>2, <2>3, QuietClean
<1>5. ASSUME NEW r \in Rows, NEW w \in Replicas, Duplicate(r, w) PROVE NothingLost'
  <2>1. Claim(w, r, "waiting").stage = "waiting"
    BY <1>0, ClaimFields DEF Stages
  <2>2. /\ UNCHANGED <<stored, events, handed>> /\ stopping' = {}
        /\ tasks' = tasks \cup {Claim(w, r, "waiting")}
        /\ \A s \in Rows : status'[s] = "processed" => status[s] = "processed"
    BY <1>0, <1>5 DEF Duplicate, ClaimRows
  <2> QED
    BY <1>0, <2>1, <2>2, QuietClean
<1>6. ASSUME NEW r \in Rows, NEW v, NEW w \in Replicas, Create(r, v, w) PROVE NothingLost'
  <2> DEFINE u == [replica |-> w, row |-> r, token |-> 0, stage |-> "received",
                   seen |-> 0, lease |-> "lapsed"]
  <2>1. u.stage = "received" /\ tasks' = tasks \cup {u}
    BY <1>6 DEF Create
  <2> HIDE DEF u
  <2>2. /\ UNCHANGED <<stored, events, handed>> /\ stopping' = {}
        /\ \A s \in Rows : status'[s] = "processed" => status[s] = "processed"
    BY <1>0, <1>6 DEF Create, TypeOK
  <2> QED
    BY <1>0, <2>1, <2>2, QuietClean
<1>7. ASSUME NEW r \in Rows, Dehydrate(r) \/ DeleteOlderThan(r) \/ GrowsOld(r)
      PROVE  NothingLost'
  <2>1. /\ UNCHANGED <<stored, events, handed>> /\ stopping' = {} /\ tasks' = tasks
        /\ \A s \in Rows : status'[s] = "processed" => status[s] = "processed"
    BY <1>0, <1>7 DEF Dehydrate, DeleteOlderThan, GrowsOld, claimVars, TypeOK
  <2> QED
    BY <1>0, <2>1, QuietClean
<1>8. ASSUME NEW r \in Rows, LeaseExpires(r) PROVE NothingLost'
  <2> DEFINE late(t) == IF t.row = r THEN [t EXCEPT !.lease = "lapsed"] ELSE t
  <2>1. \A t \in tasks : late(t).row = t.row /\ late(t).stage = t.stage
    <3> SUFFICES ASSUME NEW t \in tasks
                 PROVE  late(t).row = t.row /\ late(t).stage = t.stage
      OBVIOUS
    <3>1. t \in Tasks
      BY <1>0, TaskFields
    <3> QED
      BY <3>1 DEF Tasks
  <2>2. /\ tasks' = {late(t) : t \in tasks} /\ status' = status
        /\ UNCHANGED <<stored, events, handed>> /\ stopping' = {}
    BY <1>0, <1>8 DEF LeaseExpires
  <2> HIDE DEF late
  <2> QED
    BY <1>0, <2>1, <2>2, QuietClean
<1>9. CASE UNCHANGED vars
  BY <1>0, <1>9, QuietClean DEF vars, rowVars, claimVars
<1>10. CASE Next
  <2>1. ASSUME NEW t \in tasks, TaskStep(t) PROVE NothingLost'
    BY <2>1, <1>0, <1>1, <1>2, <1>3, NoFault, ReadClean, WriteClean, RecordClean,
       EvaluateClean DEF TaskStep
  <2>2. CASE \E w \in Replicas : ReplicaStep(w) \/ RecoverOrphans(w) \/ Exit(w)
    BY <1>0, <1>4, <2>1, <2>2, NoFault DEF ReplicaStep, Of
  <2>3. CASE RequestStep
    BY <1>5, <1>6, <2>3 DEF RequestStep, Receive, Replay
  <2>4. CASE RetentionStep \/ TimeStep
    BY <1>7, <1>8, <2>4 DEF RetentionStep, TimeStep
  <2>5. ~FaultStep
    BY <1>0, NoFault
  <2> QED
    BY <1>10, <2>2, <2>3, <2>4, <2>5 DEF Next
<1> QED
  BY <1>9, <1>10

(* Faults are never forgotten.                                             *)
LEMMA FaultsCount ==
    ASSUME TypeOK, [Next]_vars
    PROVE  faults' = faults \/ faults' = faults + 1
<1>1. faults' = faults \/ Fault
  BY DEF Next, ReplicaStep, TaskStep, FaultStep, RequestStep, RetentionStep, TimeStep,
     ClaimOwn, AcquireSlot, CancelWait, ReadItem, WriteItem, RecordEvent, Evaluate, Mark,
     RecoverOrphans, Exit, ClaimOwnFails, StepFails, MarkFails, Shutdown, Crash, CallFails,
     Duplicate, Receive, Replay, Create, Dehydrate, DeleteOlderThan, LeaseExpires, GrowsOld,
     vars, Of
<1> QED
  BY <1>1 DEF Fault

(* If the work item's row is older than every delivery at first, a         *)
(* delivery is marked processed without its event being handed over only   *)
(* after a crash, a shutdown or a failing call, whatever leases run out.   *)
THEOREM OnlyFaultsLose == ASSUME InitialsOlder PROVE Spec => []SilentLossNeedsFault
<1>1. Init => CleanRun
  BY DEF Init, InitialsOlder, CleanRun, AbsentBodies, NothingLost, EventsHanded,
     StoredAccounted, StaleAccounted, ProcessedMeansEvaluated
<1>2. IInv /\ CleanRun /\ [Next]_vars => CleanRun'
  <2> SUFFICES ASSUME IInv, CleanRun, [Next]_vars PROVE CleanRun'
    OBVIOUS
  <2>1. WellFormed
    BY DEF IInv, WellFormed
  <2>2. AbsentBodies'
    BY <2>1, RowsKept DEF CleanRun, AbsentBodies
  <2>3. ASSUME faults' = 0 PROVE NothingLost'
    <3>1. faults = 0
      BY <2>1, <2>3, FaultsCount DEF WellFormed, TypeOK
    <3> QED
      BY <2>1, <2>3, <3>1, CleanStep DEF CleanRun
  <2> QED
    BY <2>2, <2>3 DEF CleanRun
<1>3. CleanRun => SilentLossNeedsFault
  BY DEF CleanRun, NothingLost, SilentLossNeedsFault
<1> QED
  BY <1>1, <1>2, <1>3, Invariant, PTL DEF Spec

-----------------------------------------------------------------------------
(* The deliveries implement the intake: claims are attempts, marks settle, *)
(* and the steps of tasks, leases and replicas are invisible.              *)

shown == <<status, attempts, age, body, dehydrated, itemVars>>

LEMMA Unseen ==
    ASSUME UNCHANGED shown
    PROVE  UNCHANGED Intake!vars
BY DEF shown, itemVars, progressBar, oldBar, Intake!vars, Intake!rowVars, Intake!eventVars

LEMMA IntakeRows == Intake!Rows = Rows
BY DEF Intake!Rows, Rows

LEMMA IntakeInit == Init => Intake!Init
BY IntakeRows DEF Init, Intake!Init, progressBar, oldBar, Open

(* What a row's progress says of its status.                               *)
LEMMA Progress ==
    ASSUME TypeOK, NEW r \in Rows
    PROVE  /\ r \in Intake!In("open") <=> status[r] \in Open
           /\ r \in Intake!In("absent") <=> status[r] = "absent"
           /\ r \in Intake!In("processed") <=> status[r] = "processed"
           /\ r \in Intake!In("deleted") <=> status[r] = "deleted"
           /\ r \in oldBar <=> age[r] = "old"
           /\ progressBar[r] = IF status[r] \in Open THEN "open" ELSE status[r]
<1>1. status[r] \in {"accepted", "processing", "processed", "failed", "dead_letter", "absent",
                      "deleted"}
  BY DEF TypeOK, Statuses, Open, Terminal
<1> QED
  BY <1>1, IntakeRows DEF Intake!In, progressBar, oldBar, Open

(* The row whose status a step changes changes its progress alone.         *)
LEMMA ProgressOf ==
    ASSUME TypeOK, NEW r \in Rows, NEW s, status' = [status EXCEPT ![r] = s]
    PROVE  progressBar' = [progressBar EXCEPT ![r] = IF s \in Open THEN "open" ELSE s]
BY DEF TypeOK, progressBar

LEMMA ClaimsAttempt ==
    ASSUME TypeOK, NEW hit \in SUBSET Rows, hit # {}, \A r \in hit : Claimable(r),
           ClaimRows(hit), UNCHANGED <<age, body, dehydrated, itemVars>>
    PROVE  Intake!Attempt(hit)
<1>1. \A r \in hit : status[r] \in Open
  BY DEF Claimable, Open
<1>2. hit \subseteq Intake!In("open")
  BY <1>1, Progress
<1>3. progressBar' = progressBar
  BY <1>1 DEF ClaimRows, progressBar, Open
<1>4. oldBar' = oldBar
  BY DEF oldBar
<1>5. attempts' = [r \in Intake!Rows |-> IF r \in hit THEN attempts[r] + 1 ELSE attempts[r]]
  BY IntakeRows DEF ClaimRows
<1> QED
  BY <1>2, <1>3, <1>4, <1>5 DEF Intake!Attempt, Intake!eventVars, itemVars

LEMMA CreateArrives ==
    ASSUME TypeOK, NEW r \in Rows, NEW v, NEW w, Create(r, v, w)
    PROVE  Intake!Arrive(r, v)
<1>1. r \in Intake!In("absent")
  BY Progress DEF Create
<1>2. progressBar' = [progressBar EXCEPT ![r] = "open"]
  BY ProgressOf DEF Create, Open
<1>3. oldBar' = oldBar /\ body' = [body EXCEPT ![r] = v]
  BY DEF Create, oldBar
<1> QED
  BY <1>1, <1>2, <1>3 DEF Create, Intake!Arrive, Intake!eventVars, itemVars

(* A mark that finds its token settles a delivery that was tried.          *)
LEMMA MarkSettles ==
    ASSUME IInv, NEW t \in tasks, t.stage \in Marks, MarkGuard(t), SetMarked(t),
           UNCHANGED <<age, body, dehydrated, itemVars>>
    PROVE  Intake!Settle(t.row, MarkedStatus(t)) /\ MarkedStatus(t) \in Intake!Outcomes
<1>0. TypeOK /\ t.row \in Rows /\ t.token \in Nat /\ attempts[t.row] \in Nat
  BY TaskFields DEF IInv, TypeOK
<1>1. MarkedStatus(t) \in {"processed", "failed", "dead_letter"}
      /\ (MarkedStatus(t) = "dead_letter" => t.stage = "doomed")
  BY DEF MarkedStatus
<1>2. status[t.row] \in Open /\ t.row \in Intake!In("open")
  BY <1>0, Progress DEF MarkGuard
<1>3. attempts[t.row] > 0
  <2>1. t.stage # "received"
    BY DEF Marks
  <2>2. 0 < t.token /\ t.token <= attempts[t.row]
    BY <2>1 DEF IInv, TokensCounted
  <2> QED
    BY <1>0, <2>2
<1>4. t.stage = "doomed" => attempts[t.row] >= MaxAttempts \/ t.row \in oldBar
  <2>1. t.stage = "doomed" => attempts[t.row] >= MaxAttempts \/ age[t.row] = "old"
    BY <1>2 DEF IInv, DoomJustified, Open
  <2> QED
    BY <1>0, <2>1, Progress
<1>5. progressBar' = [progressBar EXCEPT ![t.row] = MarkedStatus(t)]
  BY <1>0, <1>1, ProgressOf DEF SetMarked, Open
<1>6. oldBar' = oldBar /\ attempts' = attempts
  BY DEF oldBar, SetMarked
<1> QED
  BY <1>1, <1>2, <1>3, <1>4, <1>5, <1>6
     DEF Intake!Settle, Intake!Outcomes, Intake!eventVars, itemVars

(* What the pipeline reports belongs to a delivery that exists.            *)
LEMMA BodyReported ==
    ASSUME IInv, NEW t \in tasks
    PROVE  body[t.row] \in Versions /\ body[t.row] \in Intake!Reported
<1>1. TypeOK /\ WellFormed /\ t.row \in Rows /\ status[t.row] # "absent"
  BY TaskFields DEF IInv, WellFormed, TaskRowsExist
<1>2. t.row \in Intake!Rows \ Intake!In("absent")
  BY <1>1, Progress, IntakeRows
<1> QED
  BY <1>1, <1>2, TaskBody DEF Intake!Reported

LEMMA PipelineImplements ==
    ASSUME IInv, NEW t \in tasks, WriteItem(t) \/ RecordEvent(t) \/ Evaluate(t)
    PROVE  \/ UNCHANGED Intake!vars
           \/ \E v \in Versions : Intake!Update(v) \/ Intake!Record(v) \/ Intake!Tell(v)
<1> DEFINE v == body[t.row]
<1>0. v \in Versions /\ v \in Intake!Reported
  BY BodyReported
<1>1. UNCHANGED rowVars
  BY DEF WriteItem, RecordEvent, Evaluate
<1>2. UNCHANGED Intake!rowVars
  BY <1>1 DEF rowVars, claimVars, Intake!rowVars, progressBar, oldBar
<1>3. CASE WriteItem(t)
  <2>1. UNCHANGED <<events, handed>> /\ (UNCHANGED stored \/ stored' = v)
    BY <1>3 DEF WriteItem
  <2>2. CASE UNCHANGED stored
    BY <1>1, <2>1, <2>2, Unseen DEF shown, rowVars, claimVars, itemVars
  <2>3. CASE stored' = v
    <3>1. Intake!Update(v)
      BY <1>0, <1>2, <2>1, <2>3 DEF Intake!Update, Intake!eventVars
    <3> QED
      BY <1>0, <3>1
  <2> QED
    BY <2>1, <2>2, <2>3
<1>4. CASE RecordEvent(t)
  <2>1. UNCHANGED <<stored, handed>>
    BY <1>4 DEF RecordEvent
  <2>2. CASE UNCHANGED events
    BY <1>1, <2>1, <2>2, Unseen DEF shown, rowVars, claimVars, itemVars
  <2>3. CASE v \notin events /\ events' = events \cup {v}
    <3>1. Intake!Record(v)
      BY <1>0, <1>2, <2>1, <2>3 DEF Intake!Record
    <3> QED
      BY <1>0, <3>1
  <2> QED
    BY <1>4, <2>2, <2>3 DEF RecordEvent, KnownEvent
<1>5. CASE Evaluate(t)
  <2>1. v \in events /\ handed[v] = 0
    BY <1>5 DEF Evaluate, IInv, RecordedOnce
  <2>2. handed' = [handed EXCEPT ![v] = 1]
    BY <1>0, <1>5, <2>1 DEF Evaluate, IInv, TypeOK
  <2>3. Intake!Tell(v)
    BY <1>2, <1>5, <2>1, <2>2 DEF Evaluate, Intake!Tell
  <2> QED
    BY <1>0, <2>3
<1> QED
  BY <1>3, <1>4, <1>5

(* Retention and age.                                                      *)
LEMMA RetentionImplements ==
    ASSUME IInv, NEW r \in Rows, Dehydrate(r) \/ DeleteOlderThan(r) \/ GrowsOld(r)
    PROVE  \/ UNCHANGED Intake!vars
           \/ Intake!Age(r) \/ Intake!Clear(r) \/ Intake!Delete(r)
<1>0. TypeOK /\ age \in [Rows -> {"fresh", "aged", "old"}] /\ status[r] \in Statuses
  BY DEF IInv, TypeOK
<1>1. CASE Dehydrate(r)
  <2>1. r \in Intake!In("processed") /\ UNCHANGED <<progressBar, oldBar>>
    BY <1>0, <1>1, Progress DEF Dehydrate, claimVars, progressBar, oldBar
  <2> QED
    BY <1>1, <2>1 DEF Dehydrate, claimVars, itemVars, Intake!Clear, Intake!eventVars
<1>2. CASE DeleteOlderThan(r)
  <2>1. progressBar' = [progressBar EXCEPT ![r] = "deleted"]
    BY <1>0, <1>2, ProgressOf DEF DeleteOlderThan, Open
  <2>2. oldBar' = oldBar \ {r}
    BY <1>0, <1>2 DEF DeleteOlderThan, oldBar
  <2>3. progressBar[r] \in Intake!Outcomes \/ r \in Intake!In("open") \cap oldBar
    BY <1>0, <1>2, Progress DEF DeleteOlderThan, Intake!Outcomes, Terminal, Open
  <2> QED
    BY <1>2, <2>1, <2>2, <2>3 DEF DeleteOlderThan, itemVars, Intake!Delete, Intake!eventVars
<1>3. CASE GrowsOld(r)
  <2>1. r \in Intake!In("open") /\ progressBar' = progressBar
    BY <1>0, <1>3, Progress DEF GrowsOld, claimVars, progressBar
  <2>2. oldBar' = oldBar \/ oldBar' = oldBar \cup {r}
    BY <1>0, <1>3 DEF GrowsOld, oldBar
  <2>3. UNCHANGED <<progressBar, body, attempts, dehydrated, itemVars>>
    BY <1>3, <2>1 DEF GrowsOld, claimVars
  <2>4. oldBar' = oldBar => UNCHANGED Intake!vars
    BY <2>3 DEF Intake!vars, Intake!rowVars, Intake!eventVars, itemVars
  <2>5. oldBar' = oldBar \cup {r} => Intake!Age(r)
    BY <2>1, <2>3 DEF Intake!Age, Intake!eventVars, itemVars
  <2> QED
    BY <2>2, <2>4, <2>5
<1> QED
  BY <1>1, <1>2, <1>3

(* A step of the intake, or none.                                          *)
LEMMA StepImplementsIntake ==
    ASSUME IInv, [Next]_vars
    PROVE  [Intake!Next]_(Intake!vars)
<1>0. TypeOK
  BY DEF IInv
<1>1. CASE UNCHANGED vars
  BY <1>1, Unseen DEF vars, rowVars, claimVars, shown
<1>2. ASSUME NEW hit \in SUBSET Rows, hit # {}, \A r \in hit : Claimable(r), ClaimRows(hit),
             UNCHANGED <<age, body, dehydrated, itemVars>>
      PROVE  Intake!Next
  BY <1>0, <1>2, ClaimsAttempt, IntakeRows DEF Intake!Next
<1>3. ASSUME NEW t \in tasks, TaskStep(t) \/ ClaimOwnFails(t) \/ StepFails(t) \/ MarkFails(t)
      PROVE  [Intake!Next]_(Intake!vars)
  <2>0. t.row \in Rows
    BY <1>0, TaskFields
  <2>1. CASE ClaimOwn(t) \/ ClaimOwnFails(t)
    <3>1. UNCHANGED <<age, body, dehydrated, itemVars>>
      BY <2>1 DEF ClaimOwn, ClaimOwnFails
    <3>2. CASE Claimable(t.row) /\ ClaimRows({t.row})
      BY <1>2, <2>0, <3>1, <3>2
    <3>3. CASE UNCHANGED claimVars
      BY <3>1, <3>3, Unseen DEF claimVars, shown
    <3> QED
      BY <2>1, <3>2, <3>3 DEF ClaimOwn, ClaimOwnFails
  <2>2. CASE AcquireSlot(t) \/ CancelWait(t) \/ ReadItem(t) \/ StepFails(t) \/ MarkFails(t)
    <3>1. UNCHANGED <<rowVars, itemVars>>
      BY <2>2 DEF AcquireSlot, CancelWait, ReadItem, StepFails, MarkFails
    <3> QED
      BY <3>1, Unseen DEF rowVars, claimVars, shown
  <2>3. CASE WriteItem(t) \/ RecordEvent(t) \/ Evaluate(t)
    BY <2>3, PipelineImplements DEF Intake!Next
  <2>4. CASE Mark(t)
    <3>1. UNCHANGED <<age, body, dehydrated, itemVars>> /\ t.stage \in Marks
      BY <2>4 DEF Mark
    <3>2. CASE MarkGuard(t) /\ SetMarked(t)
      BY <2>0, <3>1, <3>2, MarkSettles, IntakeRows DEF Intake!Next
    <3>3. CASE UNCHANGED claimVars
      BY <3>1, <3>3, Unseen DEF claimVars, shown
    <3> QED
      BY <2>4, <3>2, <3>3 DEF Mark
  <2> QED
    BY <1>3, <2>1, <2>2, <2>3, <2>4 DEF TaskStep
<1>4. ASSUME NEW w \in Replicas, RecoverOrphans(w) PROVE Intake!Next
  <2>1. Due \in SUBSET Rows /\ \A r \in Due : Claimable(r)
    BY DEF Due
  <2> QED
    BY <1>2, <1>4, <2>1 DEF RecoverOrphans
<1>5. ASSUME NEW w \in Replicas, Shutdown(w) \/ Exit(w) \/ Crash(w)
      PROVE  UNCHANGED Intake!vars
  BY <1>5, Unseen DEF Shutdown, Exit, Crash, rowVars, claimVars, shown
<1>6. ASSUME NEW r \in Rows, NEW w \in Replicas, Duplicate(r, w) PROVE Intake!Next
  BY <1>2, <1>6 DEF Duplicate
<1>7. ASSUME NEW r \in Rows, NEW w \in Replicas, Receive(r, w) PROVE Intake!Next
  BY <1>0, <1>7, CreateArrives DEF Receive, Intake!Next
<1>8. ASSUME NEW d \in Rows, NEW r \in Rows, NEW w \in Replicas, Replay(d, r, w)
      PROVE  Intake!Next
  <2>1. r \in Replays /\ Intake!Arrive(r, body[d])
    BY <1>0, <1>8, CreateArrives DEF Replay
  <2>2. d \notin Intake!In("absent") \cup Intake!In("deleted") \cup dehydrated
    BY <1>0, <1>8, Progress DEF Replay, Open, Terminal
  <2> QED
    BY <2>1, <2>2, IntakeRows DEF Intake!Copy, Intake!Next
<1>9. ASSUME NEW r \in Rows, Dehydrate(r) \/ DeleteOlderThan(r) \/ GrowsOld(r)
      PROVE  [Intake!Next]_(Intake!vars)
  BY <1>9, RetentionImplements, IntakeRows DEF Intake!Next
<1>10. ASSUME NEW r \in Rows, LeaseExpires(r) PROVE UNCHANGED Intake!vars
  BY <1>10, Unseen DEF LeaseExpires, shown
<1> QED
  BY <1>1, <1>3, <1>4, <1>5, <1>6, <1>7, <1>8, <1>9, <1>10
     DEF Next, ReplicaStep, FaultStep, RequestStep, RetentionStep, TimeStep, Of

(* Every behaviour of the deliveries, with any number of replicas, stale   *)
(* claims, redeliveries, recoveries, crashes and shutdowns, is one the     *)
(* intake allows.                                                          *)
THEOREM DeliveriesImplementIntake == Spec => ImplementsIntake
<1>1. IInv /\ [Next]_vars => [Intake!Next]_(Intake!vars)
  BY StepImplementsIntake
<1> QED
  BY <1>1, IntakeInit, Invariant, PTL DEF Spec, Intake!Spec, ImplementsIntake

-----------------------------------------------------------------------------
(* The reviews of a pull request.  How many entries, debouncers and        *)
(* trackers are made: each by a caller that was a webhook, a timer or a    *)
(* request before, of which a scenario has so many.                        *)

Making(t) == t.at \in {"schedule", "prefix"} \/ (t.at = "acquire" /\ t.saw = 0)
Arming == ({"hook"} \X hooks) \cup ({"caller"} \X {t \in callers : t.at = "schedule"})
Pending == ({"hook"} \X hooks) \cup ({"caller"} \X {t \in callers : Making(t)})
           \cup ({"timer"} \X timers) \cup ({"callback"} \X callbacks)

Budgeted ==
    /\ IsFiniteSet(Arming) /\ IsFiniteSet(Pending) /\ IsFiniteSet(resent)
    /\ armed + Cardinality(Arming) <= pushed + Cardinality(resent)
    /\ debouncer + Cardinality(Arming) <= pushed + Cardinality(resent) + clicks
    /\ tracker + Cardinality(Pending) <= pushed + Cardinality(resent) + clicks
    /\ pushed <= limit.heads /\ Cardinality(resent) <= limit.resent

(* A caller knows at most the trackers and debouncers that were made.      *)
SawMade ==
    /\ \A t \in callers : IF t.at = "schedule" THEN t.saw <= debouncer ELSE t.saw <= tracker
    /\ \A t \in callers : t.at = "detail" => 0 < t.saw
    /\ reviews # {} => 0 < tracker

ReviewTyped == ReviewTypeOK /\ Budgeted /\ SawMade

LEMMA Exchanged ==
    ASSUME NEW A, IsFiniteSet(A), NEW B, NEW a \in A, NEW b, B \subseteq (A \ {a}) \cup {b}
    PROVE  IsFiniteSet(B) /\ Cardinality(B) <= Cardinality(A) /\ Cardinality(B) \in Nat
<1>1. IsFiniteSet(A \ {a}) /\ Cardinality(A \ {a}) = Cardinality(A) - 1
  BY FS_RemoveElement
<1>2. IsFiniteSet((A \ {a}) \cup {b})
      /\ Cardinality((A \ {a}) \cup {b}) \in {Cardinality(A \ {a}), Cardinality(A \ {a}) + 1}
  BY <1>1, FS_AddElement, FS_CardinalityType
<1>3. IsFiniteSet(B) /\ Cardinality(B) <= Cardinality((A \ {a}) \cup {b})
  BY <1>2, FS_Subset
<1> QED
  BY <1>1, <1>2, <1>3, FS_CardinalityType

LEMMA Dropped ==
    ASSUME NEW A, IsFiniteSet(A), NEW B, NEW a \in A, B \subseteq A \ {a}
    PROVE  IsFiniteSet(B) /\ Cardinality(B) + 1 <= Cardinality(A) /\ Cardinality(B) \in Nat
<1>1. IsFiniteSet(A \ {a}) /\ Cardinality(A \ {a}) = Cardinality(A) - 1
  BY FS_RemoveElement
<1>2. IsFiniteSet(B) /\ Cardinality(B) <= Cardinality(A \ {a})
  BY <1>1, FS_Subset
<1> QED
  BY <1>1, <1>2, FS_CardinalityType

LEMMA Gained ==
    ASSUME NEW A, IsFiniteSet(A), NEW B, NEW b, B \subseteq A \cup {b}
    PROVE  IsFiniteSet(B) /\ Cardinality(B) <= Cardinality(A) + 1 /\ Cardinality(B) \in Nat
<1>1. IsFiniteSet(A \cup {b}) /\ Cardinality(A \cup {b}) \in {Cardinality(A), Cardinality(A) + 1}
  BY FS_AddElement, FS_CardinalityType
<1>2. IsFiniteSet(B) /\ Cardinality(B) <= Cardinality(A \cup {b})
  BY <1>1, FS_Subset
<1> QED
  BY <1>1, <1>2, FS_CardinalityType

LEMMA Shrunk ==
    ASSUME NEW A, IsFiniteSet(A), NEW B, B \subseteq A
    PROVE  IsFiniteSet(B) /\ Cardinality(B) <= Cardinality(A) /\ Cardinality(B) \in Nat
BY FS_Subset, FS_CardinalityType

LEMMA ReviewNumbers ==
    ASSUME ReviewTyped
    PROVE  /\ MaxHead \in Nat \ {0} /\ MaxCallers \in Nat
           /\ limit.heads \in 1..MaxHead /\ limit.resent \in Nat /\ limit.clicks \in Nat
           /\ limit.heads + limit.resent + limit.clicks <= MaxCallers
           /\ pushed \in Nat /\ clicks \in Nat /\ armed \in Nat /\ debouncer \in Nat
           /\ tracker \in Nat /\ clicks <= limit.clicks
           /\ Cardinality(Arming) \in Nat /\ Cardinality(Pending) \in Nat
           /\ Cardinality(resent) \in Nat
<1>1. limit \in ReviewScenarios
  BY DEF ReviewTyped, ReviewTypeOK
<1>2. /\ MaxHead \in Nat \ {0} /\ MaxCallers \in Nat
      /\ limit.heads \in 1..MaxHead /\ limit.resent \in Nat /\ limit.clicks \in Nat
      /\ limit.heads + limit.resent + limit.clicks <= MaxCallers
  BY <1>1, ReviewAssumption
<1>3. /\ Cardinality(Arming) \in Nat /\ Cardinality(Pending) \in Nat
      /\ Cardinality(resent) \in Nat
  BY FS_CardinalityType DEF ReviewTyped, Budgeted
<1> QED
  BY <1>2, <1>3 DEF ReviewTyped, ReviewTypeOK, Heads, Ids

(* Who makes an entry, a debouncer or a tracker has a number left for it.  *)
LEMMA RoomToMake ==
    ASSUME ReviewTyped
    PROVE  /\ \A t \in callers : t.at = "schedule" => armed + 1 <= MaxCallers /\ debouncer + 1 <= MaxCallers
           /\ \A t \in callers : Making(t) => tracker + 1 <= MaxCallers
           /\ clicks < limit.clicks => debouncer + 1 <= MaxCallers
<1> USE ReviewNumbers
<1>1. ASSUME NEW t \in callers, t.at = "schedule"
      PROVE  armed + 1 <= MaxCallers /\ debouncer + 1 <= MaxCallers
  <2>1. <<"caller", t>> \in Arming
    BY <1>1 DEF Arming
  <2>2. 1 <= Cardinality(Arming)
    BY <2>1, FS_EmptySet DEF ReviewTyped, Budgeted
  <2> QED
    BY <2>2 DEF ReviewTyped, Budgeted
<1>2. ASSUME NEW t \in callers, Making(t) PROVE tracker + 1 <= MaxCallers
  <2>1. <<"caller", t>> \in Pending
    BY <1>2 DEF Pending
  <2>2. 1 <= Cardinality(Pending)
    BY <2>1, FS_EmptySet DEF ReviewTyped, Budgeted
  <2> QED
    BY <2>2 DEF ReviewTyped, Budgeted
<1>3. clicks < limit.clicks => debouncer + 1 <= MaxCallers
  BY DEF ReviewTyped, Budgeted
<1> QED
  BY <1>1, <1>2, <1>3

making == <<limit, pushed, resent, hooks, callers, timers, callbacks, armed, debouncer, tracker,
            clicks>>

LEMMA BudgetedStep ==
    ASSUME ReviewTyped, [ReviewNext]_reviewVars
    PROVE  Budgeted'
<1> USE ReviewNumbers
<1>0. Budgeted
  BY DEF ReviewTyped
<1>1. CASE UNCHANGED making
  BY <1>0, <1>1 DEF making, Budgeted, Arming, Pending, Making
<1>2. CASE Push
  <2> DEFINE h == [head |-> pushed', again |-> FALSE]
  <2>1. hooks' = hooks \cup {h} /\ pushed' = pushed + 1 /\ pushed' <= limit.heads
        /\ UNCHANGED <<limit, resent, callers, timers, callbacks, armed, debouncer, tracker, clicks>>
    BY <1>2 DEF Push, schedulers, trackers
  <2>2. Arming' \subseteq Arming \cup {<<"hook", h>>} /\ Pending' \subseteq Pending \cup {<<"hook", h>>}
    BY <2>1 DEF Arming, Pending, Making
  <2>3. /\ IsFiniteSet(Arming') /\ Cardinality(Arming') <= Cardinality(Arming) + 1
        /\ IsFiniteSet(Pending') /\ Cardinality(Pending') <= Cardinality(Pending) + 1
        /\ Cardinality(Arming') \in Nat /\ Cardinality(Pending') \in Nat
    BY <1>0, <2>2, Gained DEF Budgeted
  <2> QED
    BY <1>0, <2>1, <2>3 DEF Budgeted
<1>3. ASSUME NEW r \in Heads, Redeliver(r) PROVE Budgeted'
  <2> DEFINE h == [head |-> r, again |-> TRUE]
  <2>1. hooks' = hooks \cup {h} /\ resent' = resent \cup {r} /\ r \notin resent
        /\ Cardinality(resent) < limit.resent
        /\ UNCHANGED <<limit, pushed, callers, timers, callbacks, armed, debouncer, tracker, clicks>>
    BY <1>3 DEF Redeliver, schedulers, trackers
  <2>2. Arming' \subseteq Arming \cup {<<"hook", h>>} /\ Pending' \subseteq Pending \cup {<<"hook", h>>}
    BY <2>1 DEF Arming, Pending, Making
  <2>3. /\ IsFiniteSet(Arming') /\ Cardinality(Arming') <= Cardinality(Arming) + 1
        /\ IsFiniteSet(Pending') /\ Cardinality(Pending') <= Cardinality(Pending) + 1
        /\ Cardinality(Arming') \in Nat /\ Cardinality(Pending') \in Nat
    BY <1>0, <2>2, Gained DEF Budgeted
  <2>4. IsFiniteSet(resent') /\ Cardinality(resent') = Cardinality(resent) + 1
    BY <1>0, <2>1, FS_AddElement DEF Budgeted
  <2> QED
    BY <1>0, <2>1, <2>3, <2>4 DEF Budgeted
<1>4. ASSUME NEW h \in hooks, LookUp(h) PROVE Budgeted'
  <2> DEFINE c == [n |-> IF h.again THEN 1 ELSE 0, kind |-> "auto", at |-> "schedule",
                   head |-> h.head, saw |-> debouncer]
  <2>1. hooks' = hooks \ {h} /\ callers' \subseteq callers \cup {c}
        /\ UNCHANGED <<limit, pushed, resent, timers, callbacks, armed, debouncer, tracker, clicks>>
    BY <1>4 DEF LookUp, schedulers, trackers
  <2> HIDE DEF c
  <2>2. /\ Arming' \subseteq (Arming \ {<<"hook", h>>}) \cup {<<"caller", c>>}
        /\ Pending' \subseteq (Pending \ {<<"hook", h>>}) \cup {<<"caller", c>>}
    BY <2>1 DEF Arming, Pending, Making
  <2>3. <<"hook", h>> \in Arming /\ <<"hook", h>> \in Pending
    BY DEF Arming, Pending
  <2>4. /\ IsFiniteSet(Arming') /\ Cardinality(Arming') <= Cardinality(Arming)
        /\ IsFiniteSet(Pending') /\ Cardinality(Pending') <= Cardinality(Pending)
        /\ Cardinality(Arming') \in Nat /\ Cardinality(Pending') \in Nat
    BY <1>0, <2>2, <2>3, Exchanged DEF Budgeted
  <2> QED
    BY <1>0, <2>1, <2>4 DEF Budgeted
<1>5. ASSUME NEW t \in callers, Schedule(t) PROVE Budgeted'
  <2>1. PICK e : timers' \subseteq timers \cup {e} /\ callers' = callers \ {t} /\ t.at = "schedule"
        /\ armed' \in {armed, armed + 1} /\ debouncer' \in {debouncer, debouncer + 1}
        /\ UNCHANGED <<limit, pushed, resent, hooks, callbacks, tracker, clicks>>
    <3> DEFINE d == Used(t.saw, debouncer)
               e == [n |-> armed + 1, deb |-> d, head |-> t.head]
    <3>1. timers' \subseteq timers \cup {e}
      BY <1>5 DEF Schedule
    <3>2. armed' \in {armed, armed + 1} /\ debouncer' \in {debouncer, debouncer + 1}
      BY <1>5 DEF Schedule, Made
    <3> HIDE DEF e
    <3> QED
      BY <1>5, <3>1, <3>2 DEF Schedule, trackers
  <2>2. /\ Arming' \subseteq Arming \ {<<"caller", t>>}
        /\ Pending' \subseteq (Pending \ {<<"caller", t>>}) \cup {<<"timer", e>>}
    BY <2>1 DEF Arming, Pending, Making
  <2>3. <<"caller", t>> \in Arming /\ <<"caller", t>> \in Pending
    BY <2>1 DEF Arming, Pending, Making
  <2>4. /\ IsFiniteSet(Arming') /\ Cardinality(Arming') + 1 <= Cardinality(Arming)
        /\ IsFiniteSet(Pending') /\ Cardinality(Pending') <= Cardinality(Pending)
        /\ Cardinality(Arming') \in Nat /\ Cardinality(Pending') \in Nat
    <3>1. IsFiniteSet(Arming') /\ Cardinality(Arming') + 1 <= Cardinality(Arming)
          /\ Cardinality(Arming') \in Nat
      BY <1>0, <2>2, <2>3, Dropped DEF Budgeted
    <3>2. IsFiniteSet(Pending') /\ Cardinality(Pending') <= Cardinality(Pending)
          /\ Cardinality(Pending') \in Nat
      BY <1>0, <2>2, <2>3, Exchanged DEF Budgeted
    <3> QED
      BY <3>1, <3>2
  <2> QED
    BY <1>0, <2>1, <2>4 DEF Budgeted
<1>6. ASSUME NEW e \in timers, TimerFires(e) PROVE Budgeted'
  <2>1. timers' = timers \ {e} /\ callbacks' = callbacks \cup {e}
        /\ UNCHANGED <<limit, pushed, resent, hooks, callers, armed, debouncer, tracker, clicks>>
    BY <1>6 DEF TimerFires, trackers
  <2>2. /\ Arming' = Arming
        /\ Pending' \subseteq (Pending \ {<<"timer", e>>}) \cup {<<"callback", e>>}
    BY <2>1 DEF Arming, Pending, Making
  <2>3. <<"timer", e>> \in Pending
    BY DEF Pending
  <2>4. IsFiniteSet(Pending') /\ Cardinality(Pending') <= Cardinality(Pending)
        /\ Cardinality(Pending') \in Nat
    BY <1>0, <2>2, <2>3, Exchanged DEF Budgeted
  <2> QED
    BY <1>0, <2>1, <2>2, <2>4 DEF Budgeted
<1>7. ASSUME NEW e \in callbacks, Callback(e) PROVE Budgeted'
  <2>1. PICK c : callbacks' = callbacks \ {e} /\ callers' \subseteq callers \cup {c} /\ c.at = "acquire"
        /\ UNCHANGED <<limit, pushed, resent, hooks, timers, armed, debouncer, tracker, clicks>>
    <3> DEFINE c == [n |-> e.n, kind |-> "auto", at |-> "acquire", head |-> e.head, saw |-> tracker]
    <3>1. c.at = "acquire"
      OBVIOUS
    <3>2. callers' \subseteq callers \cup {c}
      BY <1>7 DEF Callback
    <3> HIDE DEF c
    <3> QED
      BY <1>7, <3>1, <3>2 DEF Callback, trackers
  <2>2. /\ Arming' \subseteq Arming
        /\ Pending' \subseteq (Pending \ {<<"callback", e>>}) \cup {<<"caller", c>>}
    BY <2>1 DEF Arming, Pending, Making
  <2>3. <<"callback", e>> \in Pending
    BY DEF Pending
  <2>4. /\ IsFiniteSet(Arming') /\ Cardinality(Arming') <= Cardinality(Arming)
        /\ IsFiniteSet(Pending') /\ Cardinality(Pending') <= Cardinality(Pending)
        /\ Cardinality(Arming') \in Nat /\ Cardinality(Pending') \in Nat
    BY <1>0, <2>2, <2>3, Exchanged, Shrunk DEF Budgeted
  <2> QED
    BY <1>0, <2>1, <2>4 DEF Budgeted
<1>8. CASE Click
  <2>1. PICK c : timers' \subseteq timers /\ callers' = callers \cup {c} /\ c.at = "prefix"
        /\ debouncer' \in {debouncer, debouncer + 1} /\ clicks' = clicks + 1
        /\ UNCHANGED <<limit, pushed, resent, hooks, callbacks, armed, tracker>>
    <3> DEFINE c == [n |-> clicks', kind |-> "manual", at |-> "prefix", head |-> 0, saw |-> tracker]
    <3>1. c.at = "prefix" /\ callers' = callers \cup {c}
      BY <1>8 DEF Click
    <3> HIDE DEF c
    <3> QED
      BY <1>8, <3>1 DEF Click, Used, trackers
  <2>2. Arming' \subseteq Arming /\ Pending' \subseteq Pending \cup {<<"caller", c>>}
    BY <2>1 DEF Arming, Pending, Making
  <2>3. /\ IsFiniteSet(Arming') /\ Cardinality(Arming') <= Cardinality(Arming)
        /\ IsFiniteSet(Pending') /\ Cardinality(Pending') <= Cardinality(Pending) + 1
        /\ Cardinality(Arming') \in Nat /\ Cardinality(Pending') \in Nat
    BY <1>0, <2>2, Gained, Shrunk DEF Budgeted
  <2> QED
    BY <1>0, <2>1, <2>3 DEF Budgeted
<1>9. ASSUME NEW t \in callers, Prefix(t) PROVE Budgeted'
  <2>1. /\ \A c \in callers' : (c \in callers /\ c # t) \/ c.at = "detail"
        /\ t.at = "prefix" /\ tracker' \in {tracker, tracker + 1}
        /\ UNCHANGED <<limit, pushed, resent, hooks, timers, callbacks, armed, debouncer, clicks>>
    <3>1. [t EXCEPT !.at = "detail", !.saw = Used(t.saw, tracker)].at = "detail"
      BY DEF ReviewTyped, ReviewTypeOK
    <3>2. callers' \subseteq (callers \ {t}) \cup {[t EXCEPT !.at = "detail", !.saw = Used(t.saw, tracker)]}
      BY <1>9 DEF Prefix
    <3>3. t.at = "prefix" /\ tracker' \in {tracker, tracker + 1}
      BY <1>9 DEF Prefix, Made
    <3> QED
      BY <1>9, <3>1, <3>2, <3>3 DEF Prefix, schedulers
  <2>2. Arming' \subseteq Arming /\ Pending' \subseteq Pending \ {<<"caller", t>>}
    BY <2>1 DEF Arming, Pending, Making
  <2>3. <<"caller", t>> \in Pending
    BY <2>1 DEF Pending, Making
  <2>4. /\ IsFiniteSet(Arming') /\ Cardinality(Arming') <= Cardinality(Arming)
        /\ IsFiniteSet(Pending') /\ Cardinality(Pending') + 1 <= Cardinality(Pending)
        /\ Cardinality(Arming') \in Nat /\ Cardinality(Pending') \in Nat
    BY <1>0, <2>2, <2>3, Dropped, Shrunk DEF Budgeted
  <2> QED
    BY <1>0, <2>1, <2>4 DEF Budgeted
<1>10. ASSUME NEW t \in callers, Detail(t) \/ DetailFails(t) PROVE Budgeted'
  <2>1. 0 < tracker
    <3>1. t.at = "detail"
      BY <1>10 DEF Detail, DetailFails
    <3>2. 0 < t.saw /\ t.saw <= tracker /\ t.saw \in Nat
      BY <3>1 DEF ReviewTyped, ReviewTypeOK, SawMade, Ids
    <3> QED
      BY <3>2
  <2>2. /\ \A c \in callers' : c \in callers \/ (c.at = "acquire" /\ c.saw = tracker)
        /\ UNCHANGED <<limit, pushed, resent, hooks, timers, callbacks, armed, debouncer, tracker,
                       clicks>>
    <3>1. LET c == [t EXCEPT !.at = "acquire", !.head = pushed, !.saw = tracker]
          IN  c.at = "acquire" /\ c.saw = tracker
      BY DEF ReviewTyped, ReviewTypeOK
    <3> QED
      BY <1>10, <3>1 DEF Detail, DetailFails, schedulers, trackers
  <2>3. Arming' \subseteq Arming /\ Pending' \subseteq Pending
    BY <2>1, <2>2 DEF Arming, Pending, Making
  <2>4. /\ IsFiniteSet(Arming') /\ Cardinality(Arming') <= Cardinality(Arming)
        /\ IsFiniteSet(Pending') /\ Cardinality(Pending') <= Cardinality(Pending)
        /\ Cardinality(Arming') \in Nat /\ Cardinality(Pending') \in Nat
    BY <1>0, <2>3, Shrunk DEF Budgeted
  <2> QED
    BY <1>0, <2>2, <2>4 DEF Budgeted
<1>11. ASSUME NEW t \in callers, Acquire(t) PROVE Budgeted'
  <2>1. /\ callers' = callers \ {t} /\ t.at = "acquire"
        /\ tracker' = IF t.saw = 0 THEN tracker + 1 ELSE tracker
        /\ UNCHANGED <<limit, pushed, resent, hooks, timers, callbacks, armed, debouncer, clicks>>
    BY <1>11 DEF Acquire, Made, schedulers
  <2>2. Arming' \subseteq Arming /\ Pending' \subseteq Pending \ {<<"caller", t>>}
    BY <2>1 DEF Arming, Pending, Making
  <2>3. t.saw = 0 => <<"caller", t>> \in Pending
    BY <2>1 DEF Pending, Making
  <2>4. /\ IsFiniteSet(Arming') /\ Cardinality(Arming') <= Cardinality(Arming)
        /\ IsFiniteSet(Pending') /\ Cardinality(Pending') <= Cardinality(Pending)
        /\ Cardinality(Arming') \in Nat /\ Cardinality(Pending') \in Nat
    BY <1>0, <2>2, Shrunk DEF Budgeted
  <2>5. t.saw = 0 => Cardinality(Pending') + 1 <= Cardinality(Pending)
    BY <1>0, <2>2, <2>3, Dropped DEF Budgeted
  <2> QED
    BY <1>0, <2>1, <2>4, <2>5 DEF Budgeted
<1>12. ASSUME NEW v \in reviews,
              Reads(v) \/ ReadFails(v) \/ Stores(v) \/ Skips(v) \/ Comments(v) \/ MarksComment(v)
                \/ ReviewFails(v)
       PROVE  UNCHANGED making
  BY <1>12 DEF making, Reads, ReadFails, Stores, Skips, Comments, MarksComment, ReviewFails,
               schedulers, trackers
<1>13. CASE Stops \/ StopTracker \/ Drained \/ CloseGivesUp
  BY <1>13, <1>1 DEF making, Stops, StopTracker, Drained, CloseGivesUp, schedulers, trackers
<1>14. CASE StopDebouncer
  <2>1. timers' \subseteq timers
        /\ UNCHANGED <<limit, pushed, resent, hooks, callers, callbacks, armed, debouncer, tracker,
                       clicks>>
    BY <1>14 DEF StopDebouncer, trackers
  <2>2. Arming' = Arming /\ Pending' \subseteq Pending
    BY <2>1 DEF Arming, Pending, Making
  <2>3. IsFiniteSet(Pending') /\ Cardinality(Pending') <= Cardinality(Pending)
        /\ Cardinality(Pending') \in Nat
    BY <1>0, <2>2, Shrunk DEF Budgeted
  <2> QED
    BY <1>0, <2>1, <2>2, <2>3 DEF Budgeted
<1>15. CASE UNCHANGED reviewVars
  BY <1>15, <1>1 DEF reviewVars, making, schedulers, trackers
<1> QED
  BY <1>1, <1>2, <1>3, <1>4, <1>5, <1>6, <1>7, <1>8, <1>9, <1>10, <1>11, <1>12, <1>13, <1>14,
     <1>15 DEF ReviewNext

LEMMA SawMadeStep ==
    ASSUME ReviewTyped, [ReviewNext]_reviewVars
    PROVE  SawMade'
<1>0. /\ SawMade
      /\ \A t \in callers : t \in [n : Ids, kind : Kinds, at : CallerStages, head : 0..MaxHead,
                                   saw : Ids]
      /\ \A t \in callers : t.saw \in Nat
  BY DEF ReviewTyped, ReviewTypeOK, Ids
<1>n. debouncer \in Nat /\ tracker \in Nat
  BY ReviewNumbers
<1> DEFINE Safe == /\ debouncer' \in Nat /\ tracker' \in Nat
                   /\ debouncer <= debouncer' /\ tracker <= tracker'
                   /\ \A c \in callers' :
                          \/ c \in callers
                          \/ c.at = "schedule" /\ c.saw <= debouncer'
                          \/ c.at # "schedule" /\ c.saw <= tracker' /\ (c.at = "detail" => 0 < c.saw)
                   /\ reviews' # {} => reviews # {} \/ 0 < tracker'
<1> SUFFICES Safe
  <2> SUFFICES ASSUME Safe PROVE SawMade'
    OBVIOUS
  <2>1. \A c \in callers : IF c.at = "schedule" THEN c.saw <= debouncer' ELSE c.saw <= tracker'
    BY <1>0, <1>n DEF SawMade
  <2>2. \A c \in callers : c.at = "detail" => 0 < c.saw
    BY <1>0, <1>n DEF SawMade
  <2>3. reviews # {} => 0 < tracker'
    BY <1>0, <1>n DEF SawMade
  <2> QED
    BY <2>1, <2>2, <2>3 DEF SawMade
<1>1. CASE callers' \subseteq callers /\ UNCHANGED <<debouncer, tracker>>
           /\ (reviews' # {} => reviews # {})
  BY <1>n, <1>1
<1>2. CASE Push \/ Stops \/ StopTracker \/ StopDebouncer \/ Drained \/ CloseGivesUp
  BY <1>2, <1>1 DEF Push, Stops, StopTracker, StopDebouncer, Drained, CloseGivesUp, schedulers,
                    trackers
<1>3. ASSUME NEW r \in Heads, Redeliver(r) PROVE Safe
  BY <1>3, <1>1 DEF Redeliver, schedulers, trackers
<1>4. ASSUME NEW h \in hooks, LookUp(h) PROVE Safe
  <2> DEFINE c == [n |-> IF h.again THEN 1 ELSE 0, kind |-> "auto", at |-> "schedule",
                   head |-> h.head, saw |-> debouncer]
  <2>1. callers' \subseteq callers \cup {c}
    BY <1>4 DEF LookUp
  <2>2. c.at = "schedule" /\ c.saw = debouncer
    OBVIOUS
  <2>3. UNCHANGED <<debouncer, tracker, reviews>>
    BY <1>4 DEF LookUp, schedulers, trackers
  <2> HIDE DEF c
  <2> QED
    BY <1>n, <2>1, <2>2, <2>3
<1>5. ASSUME NEW t \in callers, Schedule(t) PROVE Safe
  <2>1. callers' \subseteq callers /\ debouncer' \in {debouncer, debouncer + 1}
        /\ UNCHANGED <<tracker, reviews>>
    BY <1>5 DEF Schedule, Made, trackers
  <2> QED
    BY <1>n, <2>1
<1>6. ASSUME NEW e \in timers, TimerFires(e) PROVE Safe
  BY <1>6, <1>1 DEF TimerFires, trackers
<1>7. ASSUME NEW e \in callbacks, Callback(e) PROVE Safe
  <2> DEFINE c == [n |-> e.n, kind |-> "auto", at |-> "acquire", head |-> e.head, saw |-> tracker]
  <2>1. callers' \subseteq callers \cup {c} /\ c.at = "acquire" /\ c.saw = tracker
    BY <1>7 DEF Callback
  <2>2. UNCHANGED <<debouncer, tracker, reviews>>
    BY <1>7 DEF Callback, trackers
  <2> HIDE DEF c
  <2> QED
    BY <1>n, <2>1, <2>2
<1>8. CASE Click
  <2> DEFINE c == [n |-> clicks', kind |-> "manual", at |-> "prefix", head |-> 0, saw |-> tracker]
  <2>1. callers' = callers \cup {c} /\ c.at = "prefix" /\ c.saw = tracker
    BY <1>8 DEF Click
  <2>2. debouncer' \in {debouncer, debouncer + 1} /\ UNCHANGED <<tracker, reviews>>
    BY <1>8 DEF Click, Used, trackers
  <2> HIDE DEF c
  <2> QED
    BY <1>n, <2>1, <2>2
<1>9. ASSUME NEW t \in callers, Prefix(t) PROVE Safe
  <2> DEFINE u == Used(t.saw, tracker)
             c == [t EXCEPT !.at = "detail", !.saw = u]
  <2>1. t.at = "prefix" /\ t.saw <= tracker /\ t.saw \in Nat
    BY <1>9, <1>0 DEF Prefix, SawMade
  <2>2. c.at = "detail" /\ c.saw = u
    BY <1>0
  <2>3. callers' \subseteq callers \cup {c} /\ tracker' = Made(t.saw, tracker)
        /\ UNCHANGED <<debouncer, reviews>>
    BY <1>9 DEF Prefix, schedulers
  <2>4. 0 < u /\ u <= tracker' /\ tracker <= tracker' /\ tracker' \in Nat
    BY <1>n, <2>1, <2>3 DEF Used, Made
  <2> HIDE DEF c, u
  <2> QED
    BY <1>n, <2>2, <2>3, <2>4
<1>10. ASSUME NEW t \in callers, Detail(t) \/ DetailFails(t) PROVE Safe
  <2> DEFINE c == [t EXCEPT !.at = "acquire", !.head = pushed, !.saw = tracker]
  <2>1. c.at = "acquire" /\ c.saw = tracker
    BY <1>0
  <2>2. callers' \subseteq callers \cup {c} /\ UNCHANGED <<debouncer, tracker, reviews>>
    BY <1>10 DEF Detail, DetailFails, schedulers, trackers
  <2> HIDE DEF c
  <2> QED
    BY <1>n, <2>1, <2>2
<1>11. ASSUME NEW t \in callers, Acquire(t) PROVE Safe
  <2>1. t.saw <= tracker /\ t.saw \in Nat
    BY <1>11, <1>0 DEF Acquire, SawMade
  <2>2. callers' \subseteq callers /\ tracker' = Made(t.saw, tracker) /\ UNCHANGED debouncer
    BY <1>11 DEF Acquire, schedulers
  <2>3. 0 < tracker' /\ tracker <= tracker' /\ tracker' \in Nat
    BY <1>n, <2>1, <2>2 DEF Made
  <2> QED
    BY <1>n, <2>2, <2>3
<1>12. ASSUME NEW v \in reviews,
              Reads(v) \/ ReadFails(v) \/ Stores(v) \/ Skips(v) \/ Comments(v) \/ MarksComment(v)
                \/ ReviewFails(v)
       PROVE  Safe
  BY <1>12, <1>1 DEF Reads, ReadFails, Stores, Skips, Comments, MarksComment, ReviewFails,
                     schedulers, trackers
<1>13. CASE UNCHANGED reviewVars
  BY <1>13, <1>1 DEF reviewVars, schedulers, trackers
<1> QED
  BY <1>2, <1>3, <1>4, <1>5, <1>6, <1>7, <1>8, <1>9, <1>10, <1>11, <1>12, <1>13 DEF ReviewNext

Callers == [n : Ids, kind : Kinds, at : CallerStages, head : 0..MaxHead, saw : Ids]
Reviews == [n : Ids, kind : Kinds, head : Heads, step : Steps, of : Ids]
Hooks == [head : Heads, again : BOOLEAN]

(* What is put in a tracker has a head.                                    *)
HeadsKnown ==
    /\ \A t \in callers : t.at \in {"schedule", "acquire"} => t.head \in Heads
    /\ \A e \in timers \cup callbacks : e.head \in Heads

ReviewIInv == ReviewTyped /\ HeadsKnown

ReviewStep(v) ==
    Reads(v) \/ ReadFails(v) \/ Stores(v) \/ Skips(v) \/ Comments(v) \/ MarksComment(v)
        \/ ReviewFails(v)

LEMMA ReviewElements ==
    ASSUME ReviewIInv
    PROVE  /\ \A h \in hooks : h \in Hooks /\ h.head \in Heads
           /\ \A t \in callers : t \in Callers /\ t.n \in Ids /\ t.kind \in Kinds
                                 /\ t.head \in 0..MaxHead /\ t.saw \in Ids
           /\ \A v \in reviews : v \in Reviews /\ v.head \in Heads /\ v.kind \in Kinds /\ v.of \in Ids
           /\ \A e \in timers \cup callbacks : e \in Entries /\ e.deb \in Ids /\ e.n \in Ids
           /\ \A d \in Ids : entry[d] \in Entries /\ entry[d].head \in 0..MaxHead
           /\ NoEntry \in Entries /\ 0 \in Ids /\ pushed \in Heads
           /\ Heads \subseteq 0..MaxHead /\ debouncer \in Ids /\ tracker \in Ids
<1>1. /\ hooks \subseteq Hooks /\ callers \subseteq Callers /\ reviews \subseteq Reviews
      /\ timers \cup callbacks \subseteq Entries /\ entry \in [Ids -> Entries]
      /\ pushed \in Heads /\ debouncer \in Ids /\ tracker \in Ids
  BY DEF ReviewIInv, ReviewTyped, ReviewTypeOK, Hooks, Callers, Reviews
<1>2. MaxHead \in Nat /\ MaxCallers \in Nat
  BY ReviewAssumption
<1>3. NoEntry \in Entries /\ 0 \in Ids /\ Heads \subseteq 0..MaxHead
  BY <1>2 DEF NoEntry, Entries, Ids, Heads
<1>4. \A h \in hooks : h \in Hooks /\ h.head \in Heads
  BY <1>1 DEF Hooks
<1>5. \A t \in callers : t \in Callers /\ t.n \in Ids /\ t.kind \in Kinds
                         /\ t.head \in 0..MaxHead /\ t.saw \in Ids
  BY <1>1 DEF Callers
<1>6. \A v \in reviews : v \in Reviews /\ v.head \in Heads /\ v.kind \in Kinds /\ v.of \in Ids
  BY <1>1 DEF Reviews
<1>7. \A e \in timers \cup callbacks : e \in Entries /\ e.deb \in Ids /\ e.n \in Ids
  BY <1>1 DEF Entries
<1>8. \A d \in Ids : entry[d] \in Entries /\ entry[d].head \in 0..MaxHead
  BY <1>1 DEF Entries
<1> QED
  BY <1>1, <1>3, <1>4, <1>5, <1>6, <1>7, <1>8

(* The numbers a caller gives and uses are there.                          *)
LEMMA NumbersLeft ==
    ASSUME ReviewIInv
    PROVE  /\ \A t \in callers : t.at = "schedule" =>
                  /\ armed + 1 \in Ids
                  /\ Used(t.saw, debouncer) \in Ids /\ Made(t.saw, debouncer) \in Ids
           /\ \A t \in callers : t.at \in {"prefix", "acquire"} =>
                  /\ Used(t.saw, tracker) \in Ids /\ Made(t.saw, tracker) \in Ids
           /\ clicks < limit.clicks => Used(debouncer, debouncer) \in Ids
<1>0. ReviewTyped
  BY DEF ReviewIInv
<1>1. MaxCallers \in Nat /\ armed \in Nat /\ debouncer \in Ids /\ tracker \in Ids
  BY <1>0, ReviewNumbers, ReviewElements
<1>2. ASSUME NEW t \in callers, t.at = "schedule"
      PROVE  /\ armed + 1 \in Ids
             /\ Used(t.saw, debouncer) \in Ids /\ Made(t.saw, debouncer) \in Ids
  <2>1. armed + 1 <= MaxCallers /\ debouncer + 1 <= MaxCallers
    BY <1>0, <1>2, RoomToMake
  <2>2. t.saw \in Ids
    BY ReviewElements
  <2> QED
    BY <1>1, <2>1, <2>2 DEF Ids, Used, Made
<1>3. ASSUME NEW t \in callers, t.at \in {"prefix", "acquire"}
      PROVE  Used(t.saw, tracker) \in Ids /\ Made(t.saw, tracker) \in Ids
  <2>1. t.saw = 0 => tracker + 1 <= MaxCallers
    BY <1>0, <1>3, RoomToMake DEF Making
  <2>2. t.saw \in Ids
    BY ReviewElements
  <2> QED
    BY <1>1, <2>1, <2>2 DEF Ids, Used, Made
<1>4. clicks < limit.clicks => Used(debouncer, debouncer) \in Ids
  BY <1>0, <1>1, RoomToMake DEF Ids, Used
<1> QED
  BY <1>2, <1>3, <1>4

LEMMA HooksTyped ==
    ASSUME ReviewIInv, [ReviewNext]_reviewVars
    PROVE  limit' \in ReviewScenarios /\ pushed' \in Heads /\ hooks' \subseteq Hooks
           /\ resent' \subseteq Heads
<1>0. limit \in ReviewScenarios /\ pushed \in Heads /\ hooks \subseteq Hooks /\ resent \subseteq Heads
  BY DEF ReviewIInv, ReviewTyped, ReviewTypeOK, Hooks
<1>1. CASE Push
  <2>1. pushed + 1 \in Heads
    <3>1. pushed < limit.heads
      BY <1>1 DEF Push
    <3>2. pushed \in Nat /\ limit.heads \in 1..MaxHead /\ MaxHead \in Nat
      BY ReviewNumbers DEF ReviewIInv
    <3> QED
      BY <3>1, <3>2 DEF Heads
  <2>2. pushed' = pushed + 1 /\ hooks' = hooks \cup {[head |-> pushed', again |-> FALSE]}
        /\ UNCHANGED <<limit, resent>>
    BY <1>1 DEF Push
  <2>3. [head |-> pushed', again |-> FALSE] \in Hooks
    BY <2>1, <2>2 DEF Hooks
  <2> QED
    BY <1>0, <2>1, <2>2, <2>3
<1>2. ASSUME NEW r \in Heads, Redeliver(r)
      PROVE  limit' \in ReviewScenarios /\ pushed' \in Heads /\ hooks' \subseteq Hooks
             /\ resent' \subseteq Heads
  <2>1. [head |-> r, again |-> TRUE] \in Hooks
    BY DEF Hooks
  <2>2. hooks' = hooks \cup {[head |-> r, again |-> TRUE]} /\ resent' = resent \cup {r}
        /\ UNCHANGED <<limit, pushed>>
    BY <1>2 DEF Redeliver
  <2> QED
    BY <1>0, <2>1, <2>2
<1>3. ASSUME NEW h \in hooks, LookUp(h)
      PROVE  hooks' \subseteq hooks /\ UNCHANGED <<limit, pushed, resent>>
  BY <1>3 DEF LookUp
<1>4. Push \/ (\E r \in Heads : Redeliver(r)) \/ (\E h \in hooks : LookUp(h))
      \/ UNCHANGED <<limit, pushed, resent, hooks>>
  BY DEF ReviewNext, reviewVars, Schedule, Prefix, Detail, DetailFails, Acquire, TimerFires, Callback,
         Click, Reads, ReadFails, Stores, Skips, Comments, MarksComment, ReviewFails, Stops,
         StopTracker, StopDebouncer, Drained, CloseGivesUp
<1> QED
  BY <1>0, <1>1, <1>2, <1>3, <1>4

LEMMA SchedulersTyped ==
    ASSUME ReviewIInv, [ReviewNext]_reviewVars
    PROVE  /\ debouncer' \in Ids /\ entry' \in [Ids -> Entries] /\ armed' \in Ids
           /\ timers' \subseteq Entries /\ callbacks' \subseteq Entries
<1> DEFINE Goal == /\ debouncer' \in Ids /\ entry' \in [Ids -> Entries] /\ armed' \in Ids
                   /\ timers' \subseteq Entries /\ callbacks' \subseteq Entries
<1>0. /\ debouncer \in Ids /\ entry \in [Ids -> Entries] /\ armed \in Ids
      /\ timers \subseteq Entries /\ callbacks \subseteq Entries
  BY DEF ReviewIInv, ReviewTyped, ReviewTypeOK
<1>1. ASSUME NEW t \in callers, Schedule(t) PROVE Goal
  <2> DEFINE d == Used(t.saw, debouncer)
             e == [n |-> armed + 1, deb |-> d, head |-> t.head]
  <2>1. t.at = "schedule"
    BY <1>1 DEF Schedule
  <2>2. armed + 1 \in Ids /\ d \in Ids /\ Made(t.saw, debouncer) \in Ids
    BY <2>1, NumbersLeft
  <2>3. t.head \in 0..MaxHead
    BY ReviewElements
  <2>4. e \in Entries
    BY <2>2, <2>3 DEF Entries
  <2>5. /\ debouncer' = Made(t.saw, debouncer) /\ callbacks' = callbacks
        /\ \/ UNCHANGED <<entry, armed, timers>>
           \/ /\ entry' = [entry EXCEPT ![d] = e] /\ armed' = armed + 1
              /\ timers' = (timers \ {entry[d]}) \cup {e}
    BY <1>1 DEF Schedule
  <2> HIDE DEF d, e
  <2> QED
    BY <1>0, <2>2, <2>4, <2>5
<1>2. ASSUME NEW e \in timers, TimerFires(e) PROVE Goal
  BY <1>0, <1>2 DEF TimerFires
<1>3. ASSUME NEW e \in callbacks, Callback(e) PROVE Goal
  <2>1. /\ callbacks' \subseteq callbacks /\ UNCHANGED <<debouncer, armed, timers>>
        /\ entry' = entry \/ entry' = [entry EXCEPT ![e.deb] = NoEntry]
    BY <1>3 DEF Callback
  <2> QED
    BY <1>0, <2>1, ReviewElements
<1>4. CASE Click
  <2> DEFINE d == Used(debouncer, debouncer)
  <2>1. d \in Ids
    BY <1>4, NumbersLeft DEF Click
  <2>2. /\ debouncer' = d /\ timers' \subseteq timers /\ entry' = [entry EXCEPT ![d] = NoEntry]
        /\ UNCHANGED <<armed, callbacks>>
    BY <1>4 DEF Click
  <2> HIDE DEF d
  <2> QED
    BY <1>0, <2>1, <2>2, ReviewElements
<1>5. CASE StopDebouncer
  <2>1. /\ timers' \subseteq timers /\ entry' = [entry EXCEPT ![debouncer] = NoEntry]
        /\ UNCHANGED <<debouncer, armed, callbacks>>
    BY <1>5 DEF StopDebouncer
  <2> QED
    BY <1>0, <2>1, ReviewElements
<1>6. \/ \E t \in callers : Schedule(t)
      \/ \E e \in timers : TimerFires(e)
      \/ \E e \in callbacks : Callback(e)
      \/ Click \/ StopDebouncer
      \/ UNCHANGED schedulers
  BY DEF ReviewNext, reviewVars, Push, Redeliver, LookUp, Prefix, Detail, DetailFails, Acquire,
         Reads, ReadFails, Stores, Skips, Comments, MarksComment, ReviewFails, Stops,
         StopTracker, Drained, CloseGivesUp
<1>7. CASE UNCHANGED schedulers
  BY <1>0, <1>7 DEF schedulers
<1> QED
  BY <1>1, <1>2, <1>3, <1>4, <1>5, <1>6, <1>7

LEMMA CallersTyped ==
    ASSUME ReviewIInv, [ReviewNext]_reviewVars
    PROVE  callers' \subseteq Callers
<1>0. callers \subseteq Callers
  BY ReviewElements
<1>1. ASSUME NEW h \in hooks, LookUp(h) PROVE callers' \subseteq Callers
  <2> DEFINE c == [n |-> IF h.again THEN 1 ELSE 0, kind |-> "auto", at |-> "schedule",
                   head |-> h.head, saw |-> debouncer]
  <2>1. 1 \in Ids
    <3>1. MaxCallers \in Nat /\ limit.heads \in 1..MaxHead /\ limit.resent \in Nat
          /\ limit.clicks \in Nat /\ limit.heads + limit.resent + limit.clicks <= MaxCallers
      BY ReviewNumbers DEF ReviewIInv
    <3> QED
      BY <3>1 DEF Ids
  <2>2. h.head \in 0..MaxHead /\ debouncer \in Ids /\ 0 \in Ids
    BY ReviewElements
  <2>3. c \in Callers
    BY <2>1, <2>2 DEF Callers, Kinds, CallerStages
  <2>4. callers' \subseteq callers \cup {c}
    BY <1>1 DEF LookUp
  <2> HIDE DEF c
  <2> QED
    BY <1>0, <2>3, <2>4
<1>2. ASSUME NEW t \in callers, Schedule(t) \/ DetailFails(t) \/ Acquire(t)
      PROVE  callers' \subseteq Callers
  BY <1>0, <1>2 DEF Schedule, DetailFails, Acquire
<1>3. ASSUME NEW e \in callbacks, Callback(e) PROVE callers' \subseteq Callers
  <2> DEFINE c == [n |-> e.n, kind |-> "auto", at |-> "acquire", head |-> e.head, saw |-> tracker]
  <2>1. e.n \in Ids /\ e.head \in 0..MaxHead /\ tracker \in Ids
    BY ReviewElements DEF Entries
  <2>2. c \in Callers
    BY <2>1 DEF Callers, Kinds, CallerStages
  <2>3. callers' \subseteq callers \cup {c}
    BY <1>3 DEF Callback
  <2> HIDE DEF c
  <2> QED
    BY <1>0, <2>2, <2>3
<1>4. CASE Click
  <2> DEFINE c == [n |-> clicks', kind |-> "manual", at |-> "prefix", head |-> 0, saw |-> tracker]
  <2>1. clicks' \in Ids
    <3>1. clicks < limit.clicks /\ clicks' = clicks + 1
      BY <1>4 DEF Click
    <3>2. MaxCallers \in Nat /\ limit.heads \in 1..MaxHead /\ limit.resent \in Nat /\ clicks \in Nat
          /\ limit.clicks \in Nat /\ limit.heads + limit.resent + limit.clicks <= MaxCallers
      BY ReviewNumbers DEF ReviewIInv
    <3> QED
      BY <3>1, <3>2 DEF Ids
  <2>2. tracker \in Ids /\ 0 \in 0..MaxHead
    BY ReviewElements, ReviewNumbers DEF ReviewIInv
  <2>3. c \in Callers
    BY <2>1, <2>2 DEF Callers, Kinds, CallerStages
  <2>4. callers' = callers \cup {c}
    BY <1>4 DEF Click
  <2> HIDE DEF c
  <2> QED
    BY <1>0, <2>3, <2>4
<1>5. ASSUME NEW t \in callers, Prefix(t) PROVE callers' \subseteq Callers
  <2> DEFINE u == Used(t.saw, tracker)
             c == [t EXCEPT !.at = "detail", !.saw = u]
  <2>1. u \in Ids /\ t \in Callers
    BY <1>5, NumbersLeft, ReviewElements DEF Prefix
  <2>2. callers' \subseteq callers \cup {c}
    BY <1>5 DEF Prefix
  <2> HIDE DEF u
  <2>3. c \in Callers
    BY <2>1 DEF Callers, CallerStages
  <2> HIDE DEF c
  <2> QED
    BY <1>0, <2>2, <2>3
<1>6. ASSUME NEW t \in callers, Detail(t) PROVE callers' \subseteq Callers
  <2> DEFINE c == [t EXCEPT !.at = "acquire", !.head = pushed, !.saw = tracker]
  <2>1. t \in Callers /\ pushed \in 0..MaxHead /\ tracker \in Ids
    BY ReviewElements
  <2>2. c \in Callers
    BY <2>1 DEF Callers, CallerStages
  <2>3. callers' \subseteq callers \cup {c}
    BY <1>6 DEF Detail
  <2> HIDE DEF c
  <2> QED
    BY <1>0, <2>2, <2>3
<1>7. \/ \E h \in hooks : LookUp(h)
      \/ \E t \in callers : Schedule(t) \/ DetailFails(t) \/ Acquire(t) \/ Prefix(t) \/ Detail(t)
      \/ \E e \in callbacks : Callback(e)
      \/ Click
      \/ UNCHANGED callers
  BY DEF ReviewNext, reviewVars, Push, Redeliver, TimerFires,
         Reads, ReadFails, Stores, Skips, Comments, MarksComment, ReviewFails, Stops,
         StopTracker, StopDebouncer, Drained, CloseGivesUp
<1> QED
  BY <1>0, <1>1, <1>2, <1>3, <1>4, <1>5, <1>6, <1>7

(* What a step of a review leaves of it, and in the trackers.              *)
LEMMA ReviewSteps ==
    ASSUME ReviewIInv, NEW v \in reviews, ReviewStep(v)
    PROVE  /\ \/ reviews' = reviews \ {v}
              \/ \E w \in Reviews : /\ reviews' = (reviews \ {v}) \cup {w}
                                    /\ w.head = v.head /\ w.kind = v.kind /\ w.n = v.n
           /\ \/ inFlight' = inFlight
              \/ \E u \in Ids : inFlight' = [inFlight EXCEPT ![u] = @ \ {v.head}]
           /\ errors' \in {errors, errors + 1} /\ (errors' # errors => errors < limit.errors)
           /\ displaced' \subseteq displaced \cup {v.head, report.head}
           /\ \/ displaced' \subseteq displaced \cup {v.head}
              \/ report.head # 0
           /\ \/ report' = report
              \/ \E c \in BOOLEAN : report' = [head |-> v.head, commented |-> c]
           /\ \/ comments' = comments
              \/ comments' = [comments EXCEPT ![v.head][v.kind] = @ + 1]
           /\ UNCHANGED <<limit, pushed, resent, hooks, schedulers, callers, tracker, refusing, halted,
                          closing, clicks, owed>>
<1> DEFINE At(s, u) == [v EXCEPT !.step = s, !.of = u]
           To(s) == [v EXCEPT !.step = s]
<1>0. v \in Reviews /\ tracker \in Ids /\ v.of \in Ids
  BY ReviewElements
<1>1. \A s \in Steps : To(s) \in Reviews /\ To(s).head = v.head /\ To(s).kind = v.kind
                       /\ To(s).n = v.n
  BY <1>0 DEF Reviews
<1>2. \A s \in Steps, u \in Ids : At(s, u) \in Reviews /\ At(s, u).head = v.head
                                  /\ At(s, u).kind = v.kind /\ At(s, u).n = v.n
  BY <1>0 DEF Reviews
<1>3. "working" \in Steps /\ "commenting" \in Steps /\ "marking" \in Steps
  BY DEF Steps
<1>4. \/ reviews' = reviews \ {v}
      \/ reviews' = (reviews \ {v}) \cup {At("working", tracker)}
      \/ \E s \in Steps : reviews' = (reviews \ {v}) \cup {To(s)}
  BY <1>3 DEF ReviewStep, Reads, ReadFails, Stores, Skips, Comments, MarksComment, ReviewFails,
              GoesOn, Ends
<1> HIDE DEF At, To
<1>5. \/ reviews' = reviews \ {v}
      \/ \E w \in Reviews : /\ reviews' = (reviews \ {v}) \cup {w}
                            /\ w.head = v.head /\ w.kind = v.kind /\ w.n = v.n
  BY <1>0, <1>1, <1>2, <1>3, <1>4
<1>6. \/ inFlight' = inFlight
      \/ \E u \in Ids : inFlight' = [inFlight EXCEPT ![u] = @ \ {v.head}]
  BY <1>0 DEF ReviewStep, Reads, ReadFails, Stores, Skips, Comments, MarksComment, ReviewFails,
              GoesOn, Ends, trackers
<1>7. errors' \in {errors, errors + 1} /\ (errors' # errors => errors < limit.errors)
  BY DEF ReviewStep, Reads, ReadFails, Stores, Skips, Comments, MarksComment, ReviewFails, Error
<1>8. /\ displaced' \subseteq displaced \cup {v.head, report.head}
      /\ \/ displaced' \subseteq displaced \cup {v.head}
         \/ report.head # 0
      /\ \/ report' = report
         \/ \E c \in BOOLEAN : report' = [head |-> v.head, commented |-> c]
  BY DEF ReviewStep, Reads, ReadFails, Stores, Skips, Comments, MarksComment, ReviewFails, Put, outcome
<1>9. \/ comments' = comments
      \/ comments' = [comments EXCEPT ![v.head][v.kind] = @ + 1]
  BY DEF ReviewStep, Reads, ReadFails, Stores, Skips, Comments, MarksComment, ReviewFails, outcome
<1>10. UNCHANGED <<limit, pushed, resent, hooks, schedulers, callers, tracker, refusing, halted,
                   closing, clicks, owed>>
  BY DEF ReviewStep, Reads, ReadFails, Stores, Skips, Comments, MarksComment, ReviewFails, trackers
<1> QED
  BY <1>5, <1>6, <1>7, <1>8, <1>9, <1>10

LEMMA TrackersTyped ==
    ASSUME ReviewIInv, HeadsKnown, [ReviewNext]_reviewVars
    PROVE  /\ tracker' \in Ids /\ inFlight' \in [Ids -> SUBSET Heads]
           /\ refusing' \subseteq Ids /\ halted' \subseteq Ids /\ reviews' \subseteq Reviews
<1> DEFINE Goal == /\ tracker' \in Ids /\ inFlight' \in [Ids -> SUBSET Heads]
                   /\ refusing' \subseteq Ids /\ halted' \subseteq Ids /\ reviews' \subseteq Reviews
<1>0. /\ tracker \in Ids /\ inFlight \in [Ids -> SUBSET Heads]
      /\ refusing \subseteq Ids /\ halted \subseteq Ids /\ reviews \subseteq Reviews
      /\ debouncer \in Ids
  BY ReviewElements DEF ReviewIInv, ReviewTyped, ReviewTypeOK
<1>1. ASSUME NEW t \in callers, Prefix(t) PROVE Goal
  <2>1. tracker' \in Ids
    BY <1>1, NumbersLeft DEF Prefix
  <2> QED
    BY <1>0, <1>1, <2>1 DEF Prefix
<1>2. ASSUME NEW t \in callers, Acquire(t) PROVE Goal
  <2> DEFINE u == Used(t.saw, tracker)
             v == [n |-> t.n, kind |-> t.kind, head |-> t.head, step |-> "start", of |-> 0]
  <2>1. t.at = "acquire" /\ tracker' = Made(t.saw, tracker)
    BY <1>2 DEF Acquire
  <2>2. u \in Ids /\ tracker' \in Ids
    BY <2>1, NumbersLeft
  <2>3. t.head \in Heads /\ t.n \in Ids /\ t.kind \in Kinds /\ 0 \in Ids
    BY <2>1, ReviewElements DEF HeadsKnown
  <2>4. v \in Reviews
    BY <2>3 DEF Reviews, Steps
  <2>5. /\ \/ inFlight' = inFlight
           \/ inFlight' = [inFlight EXCEPT ![u] = @ \cup {t.head}]
        /\ reviews' \subseteq reviews \cup {v} /\ UNCHANGED <<refusing, halted>>
    BY <1>2 DEF Acquire
  <2> HIDE DEF u, v
  <2> QED
    BY <1>0, <2>2, <2>3, <2>4, <2>5
<1>3. ASSUME NEW v \in reviews, ReviewStep(v) PROVE Goal
  <2>0. /\ \/ reviews' = reviews \ {v}
           \/ \E w \in Reviews : /\ reviews' = (reviews \ {v}) \cup {w}
                                 /\ w.head = v.head /\ w.kind = v.kind /\ w.n = v.n
        /\ \/ inFlight' = inFlight
           \/ \E u \in Ids : inFlight' = [inFlight EXCEPT ![u] = @ \ {v.head}]
    BY <1>3, ReviewSteps
  <2>1. reviews' \subseteq Reviews
    BY <1>0, <2>0
  <2>2. inFlight' \in [Ids -> SUBSET Heads]
    BY <1>0, <2>0
  <2>3. UNCHANGED <<tracker, refusing, halted>>
    BY <1>3, ReviewSteps
  <2> QED
    BY <1>0, <2>1, <2>2, <2>3
<1>4. CASE StopTracker
  BY <1>0, <1>4 DEF StopTracker
<1>5. CASE StopDebouncer
  BY <1>0, <1>5 DEF StopDebouncer, trackers
<1>6. \/ \E t \in callers : Prefix(t) \/ Acquire(t)
      \/ \E v \in reviews : ReviewStep(v)
      \/ StopTracker \/ StopDebouncer
      \/ UNCHANGED <<tracker, inFlight, refusing, halted, reviews>>
  BY DEF ReviewNext, reviewVars, ReviewStep, Push, Redeliver, LookUp, Schedule, TimerFires, Callback,
         Click, Detail, DetailFails, Stops, Drained, CloseGivesUp, trackers
<1> QED
  BY <1>0, <1>1, <1>2, <1>3, <1>4, <1>5, <1>6

LEMMA OutcomeTyped ==
    ASSUME ReviewIInv, [ReviewNext]_reviewVars
    PROVE  /\ report' \in [head : 0..MaxHead, commented : BOOLEAN]
           /\ comments' \in [Heads -> [Kinds -> Nat]] /\ displaced' \subseteq Heads
           /\ errors' \in 0..limit'.errors
<1>0. /\ report \in [head : 0..MaxHead, commented : BOOLEAN]
      /\ comments \in [Heads -> [Kinds -> Nat]] /\ displaced \subseteq Heads
      /\ errors \in 0..limit.errors /\ limit.errors \in Nat /\ MaxHead \in Nat
  BY ReviewAssumption DEF ReviewIInv, ReviewTyped, ReviewTypeOK
<1>1. ASSUME NEW v \in reviews, ReviewStep(v)
      PROVE  /\ report' \in [head : 0..MaxHead, commented : BOOLEAN]
             /\ comments' \in [Heads -> [Kinds -> Nat]] /\ displaced' \subseteq Heads
             /\ errors' \in 0..limit'.errors
  <2>1. v.head \in Heads /\ v.kind \in Kinds /\ v.head \in 0..MaxHead
    BY ReviewElements
  <2>2. report' \in [head : 0..MaxHead, commented : BOOLEAN]
    <3>1. report' = report \/ \E c \in BOOLEAN : report' = [head |-> v.head, commented |-> c]
      BY <1>1, ReviewSteps
    <3> QED
      BY <1>0, <2>1, <3>1
  <2>3. comments' \in [Heads -> [Kinds -> Nat]]
    <3>1. comments' = comments \/ comments' = [comments EXCEPT ![v.head][v.kind] = @ + 1]
      BY <1>1, ReviewSteps
    <3> QED
      BY <1>0, <2>1, <3>1
  <2>4. report.head # 0 => report.head \in Heads
    BY <1>0 DEF Heads
  <2>5. displaced' \subseteq Heads
    <3>1. /\ displaced' \subseteq displaced \cup {v.head, report.head}
          /\ displaced' \subseteq displaced \cup {v.head} \/ report.head # 0
      BY <1>1, ReviewSteps
    <3> QED
      BY <1>0, <2>1, <2>4, <3>1
  <2>6. errors' \in {errors, errors + 1} /\ (errors' # errors => errors < limit.errors)
        /\ limit' = limit
    BY <1>1, ReviewSteps
  <2>7. errors' \in 0..limit'.errors
    BY <1>0, <2>6
  <2> QED
    BY <2>2, <2>3, <2>5, <2>7
<1>2. ASSUME NEW t \in callers, DetailFails(t)
      PROVE  errors' \in 0..limit.errors /\ UNCHANGED <<limit, report, comments, displaced>>
  BY <1>0, <1>2 DEF DetailFails, Error, outcome
<1>3. \/ \E v \in reviews : ReviewStep(v)
      \/ \E t \in callers : DetailFails(t)
      \/ UNCHANGED <<limit, report, comments, displaced, errors>>
  BY DEF ReviewNext, reviewVars, ReviewStep, Push, Redeliver, LookUp, Schedule, TimerFires, Callback,
         Click, Prefix, Acquire, Detail, Stops, StopTracker, StopDebouncer, Drained, CloseGivesUp, outcome
<1> QED
  BY <1>0, <1>1, <1>2, <1>3

LEMMA ClosingTyped ==
    ASSUME ReviewIInv, [ReviewNext]_reviewVars
    PROVE  /\ phase' \in {"up", "stopping", "tracker", "debouncer", "waiting", "closed"}
           /\ waits' \in Ids /\ gaveUp' \in BOOLEAN
           /\ clicks' \in 0..limit'.clicks /\ owed' \in 0..MaxHead
<1>0. /\ phase \in {"up", "stopping", "tracker", "debouncer", "waiting", "closed"}
      /\ waits \in Ids /\ gaveUp \in BOOLEAN
      /\ clicks \in 0..limit.clicks /\ owed \in 0..MaxHead /\ tracker \in Ids
      /\ limit.clicks \in Nat /\ MaxHead \in Nat
  BY ReviewAssumption DEF ReviewIInv, ReviewTyped, ReviewTypeOK
<1>1. /\ phase' \in {"up", "stopping", "tracker", "debouncer", "waiting", "closed"}
      /\ waits' \in Ids /\ gaveUp' \in BOOLEAN
  <2>1. \/ UNCHANGED closing
        \/ Stops \/ StopTracker \/ StopDebouncer \/ Drained \/ CloseGivesUp
    BY DEF ReviewNext, reviewVars, Push, Redeliver, LookUp, Schedule, TimerFires, Callback,
           Click, Prefix, Acquire, Detail, DetailFails, Reads, ReadFails, Stores, Skips, Comments,
           MarksComment, ReviewFails
  <2> QED
    BY <1>0, <2>1 DEF closing, Stops, StopTracker, StopDebouncer, Drained, CloseGivesUp
<1>2. clicks' \in 0..limit'.clicks
  <2>1. UNCHANGED <<limit, clicks>>
        \/ (clicks < limit.clicks /\ clicks' = clicks + 1 /\ limit' = limit)
    BY DEF ReviewNext, reviewVars, Push, Redeliver, LookUp, Schedule, TimerFires, Callback,
           Click, Prefix, Acquire, Detail, DetailFails, Reads, ReadFails, Stores, Skips, Comments,
           MarksComment, ReviewFails, Stops, StopTracker, StopDebouncer, Drained, CloseGivesUp
  <2> QED
    BY <1>0, <2>1
<1>3. owed' \in 0..MaxHead
  <2>1. owed' = owed \/ owed' = 0 \/ \E t \in callers : owed' = t.head
    BY DEF ReviewNext, reviewVars, Push, Redeliver, LookUp, Schedule, TimerFires, Callback,
           Click, Prefix, Acquire, Detail, DetailFails, Reads, ReadFails, Stores, Skips, Comments,
           MarksComment, ReviewFails, Stops, StopTracker, StopDebouncer, Drained, CloseGivesUp
  <2> QED
    BY <1>0, <2>1, ReviewElements
<1> QED
  BY <1>1, <1>2, <1>3

LEMMA HeadsKnownStep ==
    ASSUME ReviewIInv, [ReviewNext]_reviewVars
    PROVE  HeadsKnown'
<1>0. HeadsKnown
  BY DEF ReviewIInv
<1>1. CASE UNCHANGED <<callers, timers, callbacks>>
  BY <1>0, <1>1 DEF HeadsKnown
<1>2. ASSUME NEW h \in hooks, LookUp(h) PROVE HeadsKnown'
  <2> DEFINE c == [n |-> IF h.again THEN 1 ELSE 0, kind |-> "auto", at |-> "schedule",
                   head |-> h.head, saw |-> debouncer]
  <2>1. c.head \in Heads
    BY ReviewElements
  <2>2. callers' \subseteq callers \cup {c} /\ UNCHANGED <<timers, callbacks>>
    BY <1>2 DEF LookUp, schedulers
  <2> HIDE DEF c
  <2> QED
    BY <1>0, <2>1, <2>2 DEF HeadsKnown
<1>3. ASSUME NEW t \in callers, Schedule(t) PROVE HeadsKnown'
  <2> DEFINE e == [n |-> armed + 1, deb |-> Used(t.saw, debouncer), head |-> t.head]
  <2>1. e.head \in Heads
    BY <1>0, <1>3 DEF Schedule, HeadsKnown
  <2>2. callers' \subseteq callers /\ timers' \subseteq timers \cup {e} /\ UNCHANGED callbacks
    BY <1>3 DEF Schedule
  <2> HIDE DEF e
  <2> QED
    BY <1>0, <2>1, <2>2 DEF HeadsKnown
<1>4. ASSUME NEW e \in timers, TimerFires(e) PROVE HeadsKnown'
  BY <1>0, <1>4 DEF TimerFires, HeadsKnown
<1>5. ASSUME NEW e \in callbacks, Callback(e) PROVE HeadsKnown'
  <2> DEFINE c == [n |-> e.n, kind |-> "auto", at |-> "acquire", head |-> e.head, saw |-> tracker]
  <2>1. c.head \in Heads
    BY <1>0 DEF HeadsKnown
  <2>2. callers' \subseteq callers \cup {c} /\ callbacks' \subseteq callbacks /\ UNCHANGED timers
    BY <1>5 DEF Callback
  <2> HIDE DEF c
  <2> QED
    BY <1>0, <2>1, <2>2 DEF HeadsKnown
<1>6. CASE Click
  <2> DEFINE c == [n |-> clicks', kind |-> "manual", at |-> "prefix", head |-> 0, saw |-> tracker]
  <2>1. c.at = "prefix"
    OBVIOUS
  <2>2. callers' = callers \cup {c} /\ timers' \subseteq timers /\ UNCHANGED callbacks
    BY <1>6 DEF Click
  <2> HIDE DEF c
  <2> QED
    BY <1>0, <2>1, <2>2 DEF HeadsKnown
<1>7. ASSUME NEW t \in callers, Prefix(t) PROVE HeadsKnown'
  <2> DEFINE c == [t EXCEPT !.at = "detail", !.saw = Used(t.saw, tracker)]
  <2>1. c.at = "detail"
    BY ReviewElements DEF Callers
  <2>2. callers' \subseteq callers \cup {c} /\ UNCHANGED <<timers, callbacks>>
    BY <1>7 DEF Prefix, schedulers
  <2> HIDE DEF c
  <2> QED
    BY <1>0, <2>1, <2>2 DEF HeadsKnown
<1>8. ASSUME NEW t \in callers, Detail(t) PROVE HeadsKnown'
  <2> DEFINE c == [t EXCEPT !.at = "acquire", !.head = pushed, !.saw = tracker]
  <2>1. c.head \in Heads
    BY ReviewElements DEF Callers
  <2>2. callers' \subseteq callers \cup {c} /\ UNCHANGED <<timers, callbacks>>
    BY <1>8 DEF Detail, schedulers
  <2> HIDE DEF c
  <2> QED
    BY <1>0, <2>1, <2>2 DEF HeadsKnown
<1>9. ASSUME NEW t \in callers, DetailFails(t) \/ Acquire(t) PROVE HeadsKnown'
  BY <1>0, <1>9 DEF DetailFails, Acquire, schedulers, HeadsKnown
<1>10. CASE StopDebouncer
  BY <1>0, <1>10 DEF StopDebouncer, HeadsKnown
<1>11. \/ \E h \in hooks : LookUp(h)
       \/ \E t \in callers : Schedule(t) \/ Prefix(t) \/ Detail(t) \/ DetailFails(t) \/ Acquire(t)
       \/ \E e \in timers : TimerFires(e)
       \/ \E e \in callbacks : Callback(e)
       \/ Click \/ StopDebouncer
       \/ UNCHANGED <<callers, timers, callbacks>>
  BY DEF ReviewNext, reviewVars, Push, Redeliver,
         Reads, ReadFails, Stores, Skips, Comments, MarksComment, ReviewFails, Stops,
         StopTracker, Drained, CloseGivesUp, schedulers
<1> QED
  BY <1>1, <1>2, <1>3, <1>4, <1>5, <1>6, <1>7, <1>8, <1>9, <1>10, <1>11

LEMMA ReviewIInvStep == ReviewIInv /\ [ReviewNext]_reviewVars => ReviewIInv'
<1> SUFFICES ASSUME ReviewIInv, [ReviewNext]_reviewVars PROVE ReviewIInv'
  OBVIOUS
<1>1. ReviewTyped /\ HeadsKnown
  BY DEF ReviewIInv
<1>2. ReviewTypeOK'
  BY <1>1, HooksTyped, SchedulersTyped, CallersTyped, TrackersTyped, OutcomeTyped, ClosingTyped
     DEF ReviewTypeOK, Hooks, Callers, Reviews
<1> QED
  BY <1>1, <1>2, BudgetedStep, SawMadeStep, HeadsKnownStep DEF ReviewIInv, ReviewTyped

LEMMA ReviewIInvInit == ReviewInit => ReviewIInv
<1> SUFFICES ASSUME ReviewInit PROVE ReviewIInv
  OBVIOUS
<1> DEFINE h == [head |-> 1, again |-> FALSE]
<1>1. /\ limit \in ReviewScenarios /\ pushed = 1 /\ hooks = {h} /\ resent = {}
      /\ debouncer = 0 /\ entry = [d \in Ids |-> NoEntry] /\ armed = 0
      /\ timers = {} /\ callbacks = {} /\ callers = {}
      /\ tracker = 0 /\ inFlight = [t \in Ids |-> {}] /\ refusing = {} /\ halted = {}
      /\ reviews = {} /\ report = [head |-> 0, commented |-> FALSE]
      /\ phase = "up" /\ waits = 0 /\ gaveUp = FALSE
      /\ clicks = 0 /\ errors = 0
      /\ owed = 0 /\ comments = [x \in Heads |-> [k \in Kinds |-> 0]] /\ displaced = {}
  BY DEF ReviewInit
<1>2. /\ MaxHead \in Nat \ {0} /\ MaxCallers \in Nat
      /\ limit.heads \in 1..MaxHead /\ limit.resent \in Nat /\ limit.clicks \in Nat
      /\ limit.errors \in Nat
  BY <1>1, ReviewAssumption
<1>3. 1 \in Heads /\ 0 \in Ids /\ 0 \in 0..MaxHead /\ NoEntry \in Entries /\ h \in Hooks
  BY <1>2 DEF Heads, Ids, NoEntry, Entries, Hooks
<1> HIDE DEF h
<1>4. limit \in ReviewScenarios /\ pushed \in Heads /\ hooks \subseteq Hooks /\ resent \subseteq Heads
  BY <1>1, <1>3
<1>5. /\ debouncer \in Ids /\ entry \in [Ids -> Entries] /\ armed \in Ids
      /\ timers \subseteq Entries /\ callbacks \subseteq Entries /\ callers \subseteq Callers
  BY <1>1, <1>3
<1>6. /\ tracker \in Ids /\ inFlight \in [Ids -> SUBSET Heads]
      /\ refusing \subseteq Ids /\ halted \subseteq Ids /\ reviews \subseteq Reviews
      /\ waits \in Ids /\ gaveUp \in BOOLEAN
  BY <1>1, <1>3
<1>7. /\ report \in [head : 0..MaxHead, commented : BOOLEAN]
      /\ comments \in [Heads -> [Kinds -> Nat]] /\ displaced \subseteq Heads
      /\ clicks \in 0..limit.clicks /\ errors \in 0..limit.errors /\ owed \in 0..MaxHead
      /\ phase \in {"up", "stopping", "tracker", "debouncer", "waiting", "closed"}
  BY <1>1, <1>2, <1>3
<1>8. ReviewTypeOK
  BY <1>4, <1>5, <1>6, <1>7 DEF ReviewTypeOK, Hooks, Callers, Reviews
<1>9. Budgeted
  <2>1. Arming \subseteq {<<"hook", h>>} /\ Pending \subseteq {<<"hook", h>>}
    BY <1>1 DEF Arming, Pending
  <2>2. IsFiniteSet({<<"hook", h>>}) /\ Cardinality({<<"hook", h>>}) = 1
    BY FS_Singleton
  <2>3. /\ IsFiniteSet(Arming) /\ Cardinality(Arming) <= 1 /\ Cardinality(Arming) \in Nat
        /\ IsFiniteSet(Pending) /\ Cardinality(Pending) <= 1 /\ Cardinality(Pending) \in Nat
    BY <2>1, <2>2, Shrunk
  <2>4. IsFiniteSet(resent) /\ Cardinality(resent) = 0
    BY <1>1, FS_EmptySet
  <2> QED
    BY <1>1, <1>2, <2>3, <2>4 DEF Budgeted
<1>10. SawMade /\ HeadsKnown
  BY <1>1 DEF SawMade, HeadsKnown
<1> QED
  BY <1>8, <1>9, <1>10 DEF ReviewIInv, ReviewTyped

(* However webhooks, timers, requests and App.Close interleave, no more    *)
(* entries, debouncers and trackers are made than callers came for one,    *)
(* and what is entered in a tracker is the head of a push (ReviewTypeOK).  *)
THEOREM ReviewTypeCorrect == ReviewSpec => []ReviewTypeOK
<1>1. ReviewInit => ReviewIInv
  BY ReviewIInvInit
<1>2. ReviewIInv /\ [ReviewNext]_reviewVars => ReviewIInv'
  BY ReviewIInvStep
<1>3. ReviewIInv => ReviewTypeOK
  BY DEF ReviewIInv, ReviewTyped
<1> QED
  BY <1>1, <1>2, <1>3, PTL DEF ReviewSpec

-----------------------------------------------------------------------------
(* The newest head.  Until App.Close stops the debouncer, none is stopped. *)

NotHalted == phase \in {"up", "stopping", "tracker"} => halted = {}
NewestIInv == ReviewIInv /\ NotHalted /\ NewestReviewed

LEMMA NotHaltedStep ==
    ASSUME NotHalted, [ReviewNext]_reviewVars
    PROVE  NotHalted'
<1>1. StopDebouncer \/ Stops \/ StopTracker \/ Drained \/ CloseGivesUp \/ UNCHANGED <<phase, halted>>
  BY DEF ReviewNext, reviewVars, closing, Push, Redeliver, LookUp, Schedule, TimerFires, Callback,
         Click, Prefix, Acquire, Detail, DetailFails, Reads, ReadFails, Stores, Skips, Comments,
         MarksComment, ReviewFails
<1> QED
  BY <1>1 DEF NotHalted, StopDebouncer, Stops, StopTracker, Drained, CloseGivesUp

LEMMA NewestStep ==
    ASSUME NewestIInv, [ReviewNext]_reviewVars
    PROVE  NewestReviewed'
<1> SUFFICES ASSUME owed' # 0, phase' = "up"
             PROVE  \/ \E e \in timers' \cup callbacks' : e.head = owed' /\ entry'[e.deb] = e
                    \/ \E t \in callers' : t.at = "acquire" /\ t.kind = "auto" /\ t.head = owed'
  BY DEF NewestReviewed
<1> DEFINE Goal == \/ \E e \in timers' \cup callbacks' : e.head = owed' /\ entry'[e.deb] = e
                   \/ \E t \in callers' : t.at = "acquire" /\ t.kind = "auto" /\ t.head = owed'
           Kept == owed' = owed
<1>0. ReviewIInv /\ phase = "up" /\ halted = {}
  <2>1. phase = "up"
    BY DEF ReviewNext, reviewVars, closing, Push, Redeliver, LookUp, Schedule, TimerFires, Callback,
           Click, Prefix, Acquire, Detail, DetailFails, Reads, ReadFails, Stores, Skips, Comments,
           MarksComment, ReviewFails, Stops, StopTracker, StopDebouncer, Drained, CloseGivesUp
  <2> QED
    BY <2>1 DEF NewestIInv, NotHalted
<1>1. owed # 0 => \/ \E e \in timers \cup callbacks : e.head = owed /\ entry[e.deb] = e
                  \/ \E t \in callers : t.at = "acquire" /\ t.kind = "auto" /\ t.head = owed
  BY <1>0 DEF NewestIInv, NewestReviewed
<1>2. ASSUME NEW t \in callers, Schedule(t) PROVE Goal
  <2> DEFINE d == Used(t.saw, debouncer)
             e == [n |-> armed + 1, deb |-> d, head |-> t.head]
  <2>1. t.at = "schedule"
    BY <1>2 DEF Schedule
  <2>2. d \in Ids
    BY <1>0, <2>1, NumbersLeft
  <2>3. e.deb = d /\ e.head = t.head
    OBVIOUS
  <2>4. entry' = [entry EXCEPT ![d] = e] /\ e \in timers' /\ owed' = t.head
    BY <1>0, <1>2 DEF Schedule
  <2>5. entry'[d] = e
    <3>1. entry \in [Ids -> Entries]
      BY <1>0 DEF ReviewIInv, ReviewTyped, ReviewTypeOK
    <3> HIDE DEF d, e
    <3> QED
      BY <2>2, <2>4, <3>1
  <2> HIDE DEF d, e
  <2> QED
    BY <2>3, <2>4, <2>5
<1>3. ASSUME NEW e \in timers, TimerFires(e) PROVE Goal
  BY <1>1, <1>3 DEF TimerFires
<1>4. ASSUME NEW e \in callbacks, Callback(e) PROVE Goal
  <2> DEFINE c == [n |-> e.n, kind |-> "auto", at |-> "acquire", head |-> e.head, saw |-> tracker]
  <2>1. c.at = "acquire" /\ c.kind = "auto" /\ c.head = e.head
    OBVIOUS
  <2>2. /\ callbacks' = callbacks \ {e} /\ UNCHANGED <<timers, owed>>
        /\ \/ entry[e.deb] # e /\ UNCHANGED <<entry, callers>>
           \/ /\ entry[e.deb] = e /\ callers' = callers \cup {c}
              /\ entry' = [entry EXCEPT ![e.deb] = NoEntry]
    BY <1>0, <1>4 DEF Callback, Stale
  <2> HIDE DEF c
  <2>3. ASSUME NEW f \in timers \cup callbacks, f.head = owed, entry[f.deb] = f, f # e
        PROVE  f \in timers' \cup callbacks' /\ entry'[f.deb] = f
    <3>1. entry \in [Ids -> Entries] /\ f.deb \in Ids
      BY <1>0, ReviewElements DEF ReviewIInv, ReviewTyped, ReviewTypeOK
    <3> QED
      BY <2>2, <2>3, <3>1
  <2> QED
    BY <1>1, <2>1, <2>2, <2>3
<1>5. CASE Click
  <2> DEFINE d == Used(debouncer, debouncer)
             c == [n |-> clicks', kind |-> "manual", at |-> "prefix", head |-> 0, saw |-> tracker]
  <2>1. /\ timers' = timers \ {entry[d]} /\ entry' = [entry EXCEPT ![d] = NoEntry]
        /\ owed' = (IF entry[d].head = owed THEN 0 ELSE owed)
        /\ callers' = callers \cup {c} /\ UNCHANGED callbacks
    BY <1>5 DEF Click
  <2> HIDE DEF c, d
  <2>2. owed' = owed /\ entry[d].head # owed
    BY <2>1
  <2>3. ASSUME NEW f \in timers \cup callbacks, f.head = owed, entry[f.deb] = f
        PROVE  f \in timers' \cup callbacks' /\ entry'[f.deb] = f
    <3>1. entry \in [Ids -> Entries] /\ f.deb \in Ids
      BY <1>0, ReviewElements DEF ReviewIInv, ReviewTyped, ReviewTypeOK
    <3>2. f.deb # d /\ f # entry[d]
      BY <2>2, <2>3
    <3> QED
      BY <2>1, <2>3, <3>1, <3>2
  <2> QED
    BY <1>1, <2>1, <2>2, <2>3
<1>6. ASSUME NEW t \in callers, Acquire(t) PROVE Goal
  <2>1. callers' = callers \ {t} /\ t.head # owed /\ UNCHANGED <<owed, entry, timers, callbacks>>
    BY <1>6 DEF Acquire, schedulers
  <2> QED
    BY <1>1, <2>1
<1>7. ASSUME NEW t \in callers, Prefix(t) \/ Detail(t) \/ DetailFails(t) PROVE Goal
  <2>1. /\ t.at # "acquire" /\ UNCHANGED <<owed, entry, timers, callbacks>>
        /\ callers \ {t} \subseteq callers'
    BY <1>7 DEF Prefix, Detail, DetailFails, schedulers
  <2> QED
    BY <1>1, <2>1
<1>8. CASE UNCHANGED <<owed, entry, timers, callbacks>> /\ callers \subseteq callers'
  BY <1>1, <1>8
<1>9. \/ UNCHANGED <<owed, entry, timers, callbacks>> /\ callers \subseteq callers'
      \/ \E t \in callers : Schedule(t) \/ Prefix(t) \/ Detail(t) \/ DetailFails(t) \/ Acquire(t)
      \/ \E e \in timers : TimerFires(e)
      \/ \E e \in callbacks : Callback(e)
      \/ Click
  BY DEF ReviewNext, reviewVars, schedulers, Push, Redeliver, LookUp, Reads, ReadFails, Stores, Skips,
         Comments, MarksComment, ReviewFails, Stops, StopTracker, StopDebouncer, Drained, CloseGivesUp
<1> QED
  BY <1>2, <1>3, <1>4, <1>5, <1>6, <1>7, <1>8, <1>9

(* Of a burst of pushes the head scheduled last is not lost while the      *)
(* application is up, however many debouncers and trackers racing callers  *)
(* have made: its timer runs, its callback will not find itself replaced,  *)
(* or it is about to enter a tracker (NewestReviewed).                     *)
THEOREM NewestHeadReviewed == ReviewSpec => []NewestReviewed
<1>1. ReviewInit => NewestIInv
  <2>1. ReviewInit => owed = 0 /\ halted = {}
    BY DEF ReviewInit
  <2> QED
    BY <2>1, ReviewIInvInit DEF NewestIInv, NotHalted, NewestReviewed
<1>2. NewestIInv /\ [ReviewNext]_reviewVars => NewestIInv'
  BY ReviewIInvStep, NotHaltedStep, NewestStep DEF NewestIInv
<1>3. NewestIInv => NewestReviewed
  BY DEF NewestIInv
<1> QED
  BY <1>1, <1>2, <1>3, PTL DEF ReviewSpec

-----------------------------------------------------------------------------
(* One tracker.  While only one was made, each review has its head entered *)
(* there, alone, and releases it there.                                    *)

OneTracker ==
    tracker = 1 =>
        /\ \A v \in reviews : v.head \in inFlight[1] /\ (v.step # "start" => v.of = 1)
        /\ \A v, w \in reviews : v.head = w.head => v = w

TrackerIInv == ReviewIInv /\ OneTracker

LEMMA OneTrackerStep ==
    ASSUME TrackerIInv, [ReviewNext]_reviewVars
    PROVE  OneTracker'
<1>0. ReviewIInv /\ OneTracker
  BY DEF TrackerIInv
<1>a. /\ inFlight \in [Ids -> SUBSET Heads] /\ tracker \in Nat
      /\ reviews # {} => 0 < tracker
  <2>1. tracker \in Nat
    BY <1>0, ReviewNumbers DEF ReviewIInv
  <2> QED
    BY <1>0, <2>1 DEF ReviewIInv, ReviewTyped, ReviewTypeOK, SawMade
<1> SUFFICES ASSUME tracker' = 1
             PROVE  /\ \A v \in reviews' : v.head \in inFlight'[1] /\ (v.step # "start" => v.of = 1)
                    /\ \A v, w \in reviews' : v.head = w.head => v = w
  BY DEF OneTracker
<1> DEFINE Goal == /\ \A v \in reviews' : v.head \in inFlight'[1] /\ (v.step # "start" => v.of = 1)
                   /\ \A v, w \in reviews' : v.head = w.head => v = w
<1>1. CASE UNCHANGED <<inFlight, reviews>> /\ tracker' \in {tracker, tracker + 1}
  <2>1. tracker = 1 \/ reviews = {}
    BY <1>a, <1>1
  <2> QED
    BY <1>0, <1>1, <2>1 DEF OneTracker
<1>2. ASSUME NEW t \in callers, Acquire(t) PROVE Goal
  <2> DEFINE u == Used(t.saw, tracker)
             v == [n |-> t.n, kind |-> t.kind, head |-> t.head, step |-> "start", of |-> 0]
  <2>1. t.at = "acquire" /\ t.saw <= tracker /\ t.saw \in Nat
    BY <1>0, <1>2, ReviewElements DEF Acquire, ReviewIInv, ReviewTyped, SawMade, Ids
  <2>2. tracker' = Made(t.saw, tracker)
    BY <1>2 DEF Acquire
  <2>3. u = 1 /\ tracker' \in {tracker, tracker + 1}
    BY <1>a, <2>1, <2>2 DEF Used, Made
  <2>4. v.head = t.head /\ v.step = "start"
    OBVIOUS
  <2>5. \/ UNCHANGED <<inFlight, reviews>>
        \/ /\ t.head \notin inFlight[u]
           /\ inFlight' = [inFlight EXCEPT ![u] = @ \cup {t.head}]
           /\ reviews' = reviews \cup {v}
    BY <1>2 DEF Acquire, Refuses
  <2> HIDE DEF u, v
  <2>6. 1 \in Ids
    BY <1>0, <2>1, <2>3, NumbersLeft DEF u
  <2>7. CASE UNCHANGED <<inFlight, reviews>>
    BY <1>1, <2>3, <2>7
  <2>8. CASE /\ t.head \notin inFlight[1]
             /\ inFlight' = [inFlight EXCEPT ![1] = @ \cup {t.head}]
             /\ reviews' = reviews \cup {v}
    <3>1. inFlight'[1] = inFlight[1] \cup {t.head}
      BY <1>a, <2>6, <2>8
    <3>2. \A w \in reviews : w.head \in inFlight[1] /\ w.head # v.head
                             /\ (w.step # "start" => w.of = 1)
      BY <1>0, <1>a, <2>3, <2>4, <2>8 DEF OneTracker
    <3>3. \A w, x \in reviews : w.head = x.head => w = x
      BY <1>0, <1>a, <2>3 DEF OneTracker
    <3> QED
      BY <2>4, <2>8, <3>1, <3>2, <3>3
  <2> QED
    BY <2>3, <2>5, <2>7, <2>8
<1>3. ASSUME NEW v \in reviews, ReviewStep(v) PROVE Goal
  <2>1. tracker = 1
    BY <1>3, ReviewSteps, <1>0
  <2>2. /\ \A w \in reviews : w.head \in inFlight[1] /\ (w.step # "start" => w.of = 1)
        /\ \A w, x \in reviews : w.head = x.head => w = x
    BY <1>0, <2>1 DEF OneTracker
  <2>3. v \in Reviews
    BY <1>0, ReviewElements
  <2>4. CASE /\ reviews' = reviews \ {v}
             /\ inFlight' = [inFlight EXCEPT ![1] = @ \ {v.head}]
    <3>1. 1 \in Ids
      BY <1>0, <2>1, ReviewElements
    <3>2. inFlight'[1] = inFlight[1] \ {v.head}
      BY <1>a, <2>4, <3>1
    <3> QED
      BY <2>2, <2>4, <3>2
  <2>5. ASSUME NEW w, reviews' = (reviews \ {v}) \cup {w}, w.head = v.head,
               w.step # "start" => w.of = 1, UNCHANGED inFlight
        PROVE  Goal
    BY <2>2, <2>5
  <2>6. CASE Reads(v) \/ ReadFails(v)
    <3> DEFINE w == [v EXCEPT !.step = "working", !.of = tracker]
    <3>1. w.head = v.head /\ w.of = 1
      BY <2>1, <2>3 DEF Reviews
    <3>2. \/ /\ reviews' = reviews \ {v}
             /\ inFlight' = [inFlight EXCEPT ![1] = @ \ {v.head}]
          \/ reviews' = (reviews \ {v}) \cup {w} /\ UNCHANGED inFlight
      BY <2>1, <2>6 DEF Reads, ReadFails, trackers
    <3> HIDE DEF w
    <3> QED
      BY <2>4, <2>5, <3>1, <3>2
  <2>7. CASE ~(Reads(v) \/ ReadFails(v))
    <3> DEFINE w(s) == [v EXCEPT !.step = s]
    <3>1. v.step # "start"
      BY <1>3, <2>7 DEF ReviewStep, Stores, Skips, Comments, MarksComment, ReviewFails
    <3>2. v.of = 1
      BY <2>2, <3>1
    <3>3. \A s : w(s).head = v.head /\ w(s).of = 1
      BY <2>3, <3>2 DEF Reviews
    <3>4. \/ /\ reviews' = reviews \ {v}
             /\ inFlight' = [inFlight EXCEPT ![1] = @ \ {v.head}]
          \/ /\ \E s \in Steps : reviews' = (reviews \ {v}) \cup {w(s)}
             /\ UNCHANGED inFlight
      BY <1>3, <2>7, <3>2 DEF ReviewStep, Stores, Skips, Comments, MarksComment, ReviewFails,
                              GoesOn, Ends, trackers, Steps
    <3> HIDE DEF w
    <3> QED
      BY <2>4, <2>5, <3>3, <3>4
  <2> QED
    BY <2>6, <2>7
<1>4. ASSUME NEW t \in callers, Prefix(t) PROVE Goal
  <2>1. tracker' \in {tracker, tracker + 1} /\ UNCHANGED <<inFlight, reviews>>
    BY <1>4 DEF Prefix, Made
  <2> QED
    BY <1>1, <2>1
<1>5. \/ \E t \in callers : Prefix(t) \/ Acquire(t)
      \/ \E v \in reviews : ReviewStep(v)
      \/ UNCHANGED <<tracker, inFlight, reviews>>
  BY DEF ReviewNext, reviewVars, ReviewStep, Push, Redeliver, LookUp, Schedule, TimerFires, Callback,
         Click, Detail, DetailFails, Stops, StopTracker, StopDebouncer, Drained, CloseGivesUp, trackers
<1> QED
  BY <1>1, <1>2, <1>3, <1>4, <1>5

-----------------------------------------------------------------------------
(* One comment.  A review that comments has stored its report, which only  *)
(* another head's has displaced; a head that an automatic review commented *)
(* on has a report, at which later automatic reviews end.                  *)

StoredFirst ==
    \A v \in reviews : v.step \in {"commenting", "marking"} =>
        report.head = v.head \/ v.head \in displaced

CommentedHeads ==
    tracker <= 1 => \A h \in Heads \ displaced :
        \/ comments[h]["auto"] = 0
        \/ /\ comments[h]["auto"] = 1 /\ report.head = h
           /\ \A v \in reviews : v.head = h /\ v.kind = "auto" => v.step \in {"start", "marking"}

CommentsIInv == ReviewIInv /\ OneTracker /\ StoredFirst /\ CommentedHeads

LEMMA StoredFirstStep ==
    ASSUME ReviewIInv, StoredFirst, [ReviewNext]_reviewVars
    PROVE  StoredFirst'
<1>1. CASE UNCHANGED <<reviews, report, displaced>>
  BY <1>1 DEF StoredFirst
<1>2. ASSUME NEW t \in callers, Acquire(t) PROVE StoredFirst'
  <2> DEFINE v == [n |-> t.n, kind |-> t.kind, head |-> t.head, step |-> "start", of |-> 0]
  <2>1. v.step = "start"
    OBVIOUS
  <2>2. reviews' \subseteq reviews \cup {v} /\ UNCHANGED <<report, displaced>>
    BY <1>2 DEF Acquire, outcome
  <2> HIDE DEF v
  <2> QED
    BY <2>1, <2>2 DEF StoredFirst
<1>3. ASSUME NEW v \in reviews, ReviewStep(v) PROVE StoredFirst'
  <2>0. v \in Reviews /\ \A w \in reviews : w.head \in Heads
    BY ReviewElements
  <2>h. \A h \in Heads : h # 0
    BY DEF Heads
  <2>1. CASE Put(v.head, FALSE) \/ Put(v.head, TRUE)
    <3>1. report'.head = v.head
      BY <2>1 DEF Put
    <3>2. \A w \in reviews : w.step \in {"commenting", "marking"} =>
              report'.head = w.head \/ w.head \in displaced'
      BY <2>0, <2>h, <2>1, <3>1 DEF Put, StoredFirst
    <3>3. \A w \in reviews' : w \in reviews \/ w.head = v.head
      BY <1>3, ReviewSteps
    <3> QED
      BY <3>1, <3>2, <3>3 DEF StoredFirst
  <2>2. ASSUME NEW w, reviews' \subseteq reviews \cup {w}, w.head = v.head,
               w.step \in {"commenting", "marking"} => v.step \in {"commenting", "marking"},
               displaced \subseteq displaced', UNCHANGED report
        PROVE  StoredFirst'
    BY <2>2 DEF StoredFirst
  <2>3. CASE ReadFails(v) \/ Reads(v)
    <3> DEFINE w == [v EXCEPT !.step = "working", !.of = tracker]
    <3>1. w.head = v.head /\ w.step = "working"
      BY <2>0 DEF Reviews
    <3>2. reviews' \subseteq reviews \cup {w} /\ displaced \subseteq displaced' /\ UNCHANGED report
      BY <2>3 DEF ReadFails, Reads, outcome
    <3> HIDE DEF w
    <3> QED
      BY <2>2, <3>1, <3>2
  <2>4. CASE Comments(v)
    <3> DEFINE w == [v EXCEPT !.step = "marking"]
    <3>1. w.head = v.head /\ v.step = "commenting"
      BY <2>0, <2>4 DEF Reviews, Comments
    <3>2. reviews' \subseteq reviews \cup {w} /\ UNCHANGED <<report, displaced>>
      BY <2>4 DEF Comments, GoesOn, Ends
    <3> HIDE DEF w
    <3> QED
      BY <2>2, <3>1, <3>2
  <2>5. CASE ReviewFails(v)
    BY <2>5 DEF ReviewFails, Ends, outcome, StoredFirst
  <2>6. CASE Stores(v) \/ Skips(v) \/ MarksComment(v)
    <3>1. Put(v.head, FALSE) \/ Put(v.head, TRUE)
      BY <2>6 DEF Stores, Skips, MarksComment
    <3> QED
      BY <2>1, <3>1
  <2> QED
    BY <1>3, <2>3, <2>4, <2>5, <2>6 DEF ReviewStep
<1>4. \/ \E t \in callers : Acquire(t)
      \/ \E v \in reviews : ReviewStep(v)
      \/ UNCHANGED <<reviews, report, displaced>>
  BY DEF ReviewNext, reviewVars, ReviewStep, Push, Redeliver, LookUp, Schedule, TimerFires, Callback,
         Click, Prefix, Detail, DetailFails, Stops, StopTracker, StopDebouncer, Drained, CloseGivesUp,
         outcome
<1> QED
  BY <1>1, <1>2, <1>3, <1>4

LEMMA CommentedHeadsStep ==
    ASSUME CommentsIInv, [ReviewNext]_reviewVars
    PROVE  CommentedHeads'
<1>0. /\ ReviewIInv /\ OneTracker /\ StoredFirst /\ CommentedHeads
      /\ tracker \in Nat /\ tracker' \in Nat /\ tracker <= tracker'
      /\ (reviews # {} => 0 < tracker)
      /\ comments \in [Heads -> [Kinds -> Nat]]
  <2>1. ReviewIInv /\ OneTracker /\ StoredFirst /\ CommentedHeads
    BY DEF CommentsIInv
  <2>2. tracker \in Nat
    BY <2>1, ReviewNumbers DEF ReviewIInv
  <2>3. tracker' \in {tracker, tracker + 1}
    BY DEF ReviewNext, reviewVars, trackers, Push, Redeliver, LookUp, Schedule, TimerFires, Callback,
           Click, Prefix, Acquire, Detail, DetailFails, Reads, ReadFails, Stores, Skips, Comments,
           MarksComment, ReviewFails, Stops, StopTracker, StopDebouncer, Drained, CloseGivesUp, Made
  <2> QED
    BY <2>1, <2>2, <2>3 DEF ReviewIInv, ReviewTyped, ReviewTypeOK, SawMade
<1> SUFFICES ASSUME tracker' <= 1, NEW h \in Heads, h \notin displaced'
             PROVE  \/ comments'[h]["auto"] = 0
                    \/ /\ comments'[h]["auto"] = 1 /\ report'.head = h
                       /\ \A w \in reviews' : w.head = h /\ w.kind = "auto" =>
                              w.step \in {"start", "marking"}
  BY DEF CommentedHeads
<1> DEFINE Told == /\ comments[h]["auto"] = 1 /\ report.head = h
                   /\ \A w \in reviews : w.head = h /\ w.kind = "auto" => w.step \in {"start", "marking"}
           Later == \A w \in reviews' : w.head = h /\ w.kind = "auto" =>
                        w.step \in {"start", "marking"}
           Goal == \/ comments'[h]["auto"] = 0
                   \/ comments'[h]["auto"] = 1 /\ report'.head = h /\ Later
<1>1. h \notin displaced => comments[h]["auto"] = 0 \/ Told
  BY <1>0 DEF CommentedHeads
<1>2. CASE UNCHANGED <<reviews, report, comments, displaced>>
  BY <1>1, <1>2
<1>3. ASSUME NEW t \in callers, Acquire(t) PROVE Goal
  <2> DEFINE v == [n |-> t.n, kind |-> t.kind, head |-> t.head, step |-> "start", of |-> 0]
  <2>1. v.step = "start"
    OBVIOUS
  <2>2. reviews' \subseteq reviews \cup {v} /\ UNCHANGED <<report, displaced, comments>>
    BY <1>3 DEF Acquire, outcome
  <2> HIDE DEF v
  <2> QED
    BY <1>1, <2>1, <2>2
<1>4. ASSUME NEW v \in reviews, ReviewStep(v) PROVE Goal
  <2>0. v \in Reviews /\ v.head \in Heads /\ v.kind \in Kinds /\ v.head # 0 /\ h # 0
    BY <1>0, ReviewElements DEF Heads
  <2>1. tracker = 1 /\ (\A w, x \in reviews : w.head = x.head => w = x)
    <3>1. tracker = 1
      BY <1>0
    <3> QED
      BY <1>0, <3>1 DEF OneTracker
  <2>2. CASE Reads(v)
    <3> DEFINE w == [v EXCEPT !.step = "working", !.of = tracker]
    <3>1. w.head = v.head /\ w.kind = v.kind
      BY <2>0 DEF Reviews
    <3>2. /\ \/ reviews' = reviews \ {v}
             \/ (v.kind # "auto" \/ report.head # v.head) /\ reviews' = (reviews \ {v}) \cup {w}
          /\ UNCHANGED <<report, displaced, comments>>
      BY <2>2 DEF Reads, AlreadyStored, outcome
    <3> HIDE DEF w
    <3> QED
      BY <1>1, <3>1, <3>2
  <2>3. CASE ReadFails(v)
    <3> DEFINE w == [v EXCEPT !.step = "working", !.of = tracker]
    <3>1. w.head = v.head
      BY <2>0 DEF Reviews
    <3>2. /\ reviews' = (reviews \ {v}) \cup {w} /\ displaced' = displaced \cup {v.head}
          /\ UNCHANGED <<report, comments>>
      BY <2>3 DEF ReadFails
    <3> HIDE DEF w
    <3> QED
      BY <1>1, <3>1, <3>2
  <2>4. ASSUME NEW c \in BOOLEAN, Put(v.head, c), UNCHANGED comments,
               v.step \in {"working", "marking"},
               \/ reviews' = reviews \ {v}
               \/ \E w : reviews' = (reviews \ {v}) \cup {w} /\ w.head = v.head /\ w.kind = v.kind
                         /\ v.step = "working"
        PROVE  Goal
    <3>1. report'.head = v.head
          /\ displaced' = IF report.head \in {0, v.head} THEN displaced ELSE displaced \cup {report.head}
      BY <2>4 DEF Put
    <3>2. CASE comments[h]["auto"] = 0
      BY <2>4, <3>2
    <3>3. CASE Told
      <4>1. report.head = h /\ v.head = h
        BY <2>0, <3>1, <3>3
      <4>2. Later
        BY <2>4, <3>3, <4>1
      <4> QED
        BY <2>4, <3>1, <3>3, <4>1, <4>2
    <3> QED
      BY <1>1, <3>1, <3>2, <3>3
  <2>5. CASE Stores(v)
    <3> DEFINE w == [v EXCEPT !.step = "commenting"]
    <3>1. w.head = v.head /\ w.kind = v.kind
      BY <2>0 DEF Reviews
    <3>2. Put(v.head, FALSE) /\ reviews' = (reviews \ {v}) \cup {w} /\ UNCHANGED comments
          /\ v.step = "working"
      BY <2>5 DEF Stores, GoesOn
    <3> HIDE DEF w
    <3> QED
      BY <2>4, <3>1, <3>2
  <2>6. CASE Skips(v) \/ MarksComment(v)
    <3>1. /\ Put(v.head, FALSE) \/ Put(v.head, TRUE)
          /\ reviews' = reviews \ {v} /\ UNCHANGED comments /\ v.step \in {"working", "marking"}
      BY <2>6 DEF Skips, MarksComment, Ends
    <3> QED
      BY <2>4, <3>1
  <2>7. CASE Comments(v)
    <3> DEFINE w == [v EXCEPT !.step = "marking"]
    <3>1. w.head = v.head /\ w.kind = v.kind /\ w.step = "marking" /\ v.step = "commenting"
      BY <2>0, <2>7 DEF Reviews, Comments
    <3>2. /\ UNCHANGED <<report, displaced>>
          /\ \/ reviews' = reviews \ {v} /\ UNCHANGED comments
             \/ /\ reviews' = (reviews \ {v}) \cup {w}
                /\ comments' = [comments EXCEPT ![v.head][v.kind] = @ + 1]
      BY <2>7 DEF Comments, GoesOn, Ends
    <3> HIDE DEF w
    <3>3. CASE reviews' = reviews \ {v} /\ UNCHANGED comments
      BY <1>1, <3>2, <3>3
    <3>4. CASE /\ reviews' = (reviews \ {v}) \cup {w}
               /\ comments' = [comments EXCEPT ![v.head][v.kind] = @ + 1]
      <4>1. CASE v.head = h /\ v.kind = "auto"
        <5>1. comments[h]["auto"] = 0
          BY <1>1, <3>1, <3>2, <4>1
        <5>2. comments'[h]["auto"] = 1
          BY <1>0, <2>0, <3>4, <4>1, <5>1
        <5>3. report'.head = h
          BY <1>0, <3>1, <3>2, <4>1 DEF StoredFirst
        <5>4. Later
          BY <2>1, <3>1, <3>4, <4>1
        <5> QED
          BY <5>2, <5>3, <5>4
      <4>2. CASE ~(v.head = h /\ v.kind = "auto")
        <5>1. comments'[h]["auto"] = comments[h]["auto"]
          BY <1>0, <2>0, <3>4, <4>2 DEF Kinds
        <5>2. Told => Later
          BY <3>1, <3>4
        <5> QED
          BY <1>1, <3>2, <5>1, <5>2
      <4> QED
        BY <4>1, <4>2
    <3> QED
      BY <3>2, <3>3, <3>4
  <2>8. CASE ReviewFails(v)
    <3>1. reviews' = reviews \ {v} /\ UNCHANGED <<report, displaced, comments>>
      BY <2>8 DEF ReviewFails, Ends, outcome
    <3> QED
      BY <1>1, <3>1
  <2> QED
    BY <1>4, <2>2, <2>3, <2>5, <2>6, <2>7, <2>8 DEF ReviewStep
<1>5. \/ \E t \in callers : Acquire(t)
      \/ \E v \in reviews : ReviewStep(v)
      \/ UNCHANGED <<reviews, report, displaced, comments>>
  BY DEF ReviewNext, reviewVars, ReviewStep, Push, Redeliver, LookUp, Schedule, TimerFires, Callback,
         Click, Prefix, Detail, DetailFails, Stops, StopTracker, StopDebouncer, Drained, CloseGivesUp,
         outcome
<1> QED
  BY <1>2, <1>3, <1>4, <1>5

(* While one tracker serves the pull request, a head whose report was not  *)
(* displaced gets one comment of automatic reviews, whatever webhooks are  *)
(* processed again, requests run and calls fail (AutoCommentsOnce).        *)
THEOREM CommentedOnceByHead == ReviewSpec => []AutoCommentsOnce
<1>1. ReviewInit => CommentsIInv
  <2>1. ReviewInit => /\ tracker = 0 /\ reviews = {}
                      /\ \A h \in Heads : comments[h]["auto"] = 0
    BY DEF ReviewInit, Kinds
  <2> QED
    BY <2>1, ReviewIInvInit DEF CommentsIInv, OneTracker, StoredFirst, CommentedHeads
<1>2. CommentsIInv /\ [ReviewNext]_reviewVars => CommentsIInv'
  BY ReviewIInvStep, OneTrackerStep, StoredFirstStep, CommentedHeadsStep DEF CommentsIInv, TrackerIInv
<1>3. CommentsIInv => AutoCommentsOnce
  <2>1. CommentsIInv => tracker \in Nat
    BY ReviewNumbers DEF CommentsIInv, ReviewIInv
  <2> QED
    BY <2>1 DEF CommentsIInv, CommentedHeads, AutoCommentsOnce
<1> QED
  BY <1>1, <1>2, <1>3, PTL DEF ReviewSpec

-----------------------------------------------------------------------------
(* The end of App.Close: the tracker it stopped, if it is the only one, is *)
(* the one it waits for, and stays empty.                                  *)

StopsAndWaits ==
    /\ phase \in {"up", "stopping"} => refusing = {}
    /\ refusing = {1} => 0 < tracker
    /\ phase \in {"waiting", "closed"} /\ refusing = {1} /\ tracker = 1 => waits = 1
    /\ phase = "closed" /\ ~gaveUp /\ refusing = {1} /\ tracker = 1 => inFlight[1] = {}

QuietIInv == ReviewIInv /\ OneTracker /\ StopsAndWaits

LEMMA StopsAndWaitsStep ==
    ASSUME QuietIInv, [ReviewNext]_reviewVars
    PROVE  StopsAndWaits'
<1>0. ReviewIInv /\ StopsAndWaits /\ tracker \in Nat /\ inFlight \in [Ids -> SUBSET Heads]
      /\ (0 < tracker => 1 \in Ids)
  <2>1. ReviewIInv /\ StopsAndWaits /\ inFlight \in [Ids -> SUBSET Heads] /\ tracker \in Ids
        /\ MaxCallers \in Nat
    BY ReviewAssumption DEF QuietIInv, ReviewIInv, ReviewTyped, ReviewTypeOK
  <2> QED
    BY <2>1 DEF Ids
<1>1. CASE UNCHANGED <<refusing, closing, inFlight>> /\ tracker' \in {tracker, tracker + 1}
  BY <1>0, <1>1 DEF StopsAndWaits, closing
<1>2. ASSUME NEW t \in callers, Acquire(t) PROVE StopsAndWaits'
  <2> DEFINE u == Used(t.saw, tracker)
  <2>1. /\ tracker' = Made(t.saw, tracker) /\ UNCHANGED <<refusing, closing>>
        /\ \/ UNCHANGED inFlight
           \/ u \notin refusing /\ inFlight' = [inFlight EXCEPT ![u] = @ \cup {t.head}]
    BY <1>2 DEF Acquire, Refuses
  <2>2. t.saw \in Nat /\ t.saw <= tracker
    BY <1>0, <1>2, ReviewElements DEF Acquire, ReviewIInv, ReviewTyped, SawMade, Ids
  <2>3. tracker' \in {tracker, tracker + 1} /\ (tracker' = 1 => u = 1)
    BY <1>0, <2>1, <2>2 DEF Used, Made
  <2> HIDE DEF u
  <2>4. refusing' = {1} /\ tracker' = 1 => UNCHANGED <<inFlight, tracker>>
    BY <1>0, <2>1, <2>3 DEF StopsAndWaits
  <2> QED
    BY <1>0, <2>1, <2>3, <2>4 DEF StopsAndWaits, closing
<1>3. ASSUME NEW v \in reviews, ReviewStep(v) PROVE StopsAndWaits'
  <2>1. \/ inFlight' = inFlight
        \/ \E u \in Ids : inFlight' = [inFlight EXCEPT ![u] = @ \ {v.head}]
    BY <1>0, <1>3, ReviewSteps
  <2>2. UNCHANGED <<tracker, refusing, closing>>
    BY <1>0, <1>3, ReviewSteps
  <2>3. 0 < tracker => inFlight'[1] \subseteq inFlight[1]
    BY <1>0, <2>1
  <2> QED
    BY <1>0, <2>2, <2>3 DEF StopsAndWaits, closing
<1>4. ASSUME NEW t \in callers, Prefix(t) PROVE StopsAndWaits'
  <2>1. tracker' \in {tracker, tracker + 1} /\ UNCHANGED <<refusing, closing, inFlight>>
    BY <1>4 DEF Prefix, Made
  <2> QED
    BY <1>1, <2>1
<1>5. CASE Stops
  BY <1>0, <1>5 DEF Stops, trackers, StopsAndWaits
<1>6. CASE StopTracker
  BY <1>0, <1>6 DEF StopTracker, StopsAndWaits
<1>7. CASE StopDebouncer
  BY <1>0, <1>7 DEF StopDebouncer, trackers, StopsAndWaits
<1>8. CASE Drained \/ CloseGivesUp
  BY <1>0, <1>8 DEF Drained, CloseGivesUp, trackers, StopsAndWaits
<1>9. \/ \E t \in callers : Prefix(t) \/ Acquire(t)
      \/ \E v \in reviews : ReviewStep(v)
      \/ Stops \/ StopTracker \/ StopDebouncer \/ Drained \/ CloseGivesUp
      \/ UNCHANGED <<tracker, refusing, closing, inFlight>>
  BY DEF ReviewNext, reviewVars, ReviewStep, Push, Redeliver, LookUp, Schedule, TimerFires, Callback,
         Click, Detail, DetailFails, trackers
<1> QED
  BY <1>0, <1>1, <1>2, <1>3, <1>4, <1>5, <1>6, <1>7, <1>8, <1>9

(* When App.Close has waited to the end and the tracker it stopped is the  *)
(* only one that was made, no review runs on into the closed database, and *)
(* none begins (DrainedMeansQuiet).                                        *)
THEOREM ClosedMeansQuiet == ReviewSpec => []DrainedMeansQuiet
<1>1. ReviewInit => QuietIInv
  <2>1. ReviewInit => /\ tracker = 0 /\ reviews = {} /\ refusing = {} /\ phase = "up"
    BY DEF ReviewInit
  <2> QED
    BY <2>1, ReviewIInvInit DEF QuietIInv, OneTracker, StopsAndWaits
<1>2. QuietIInv /\ [ReviewNext]_reviewVars => QuietIInv'
  BY ReviewIInvStep, OneTrackerStep, StopsAndWaitsStep DEF QuietIInv, TrackerIInv
<1>3. QuietIInv => DrainedMeansQuiet
  BY DEF QuietIInv, OneTracker, StopsAndWaits, DrainedMeansQuiet
<1> QED
  BY <1>1, <1>2, <1>3, PTL DEF ReviewSpec
=============================================================================
