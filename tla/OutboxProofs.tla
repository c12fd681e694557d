---------------------------- MODULE OutboxProofs ----------------------------
(***************************************************************************)
(* Proofs about the outbox for any rows, workers, channels, tokens and     *)
(* bounds: typing, the safety invariants of Outbox, the faults behind a    *)
(* second sending, and that the outbox implements NotificationQueue.       *)
(***************************************************************************)
EXTENDS Outbox, FiniteSetTheorems, TLAPS

-----------------------------------------------------------------------------
(* A fresh token is a token nobody holds.                                  *)
LEMMA NewTokenFresh ==
    ASSUME FreshTokens # {}
    PROVE  /\ NewToken \in Tokens
           /\ \A r \in Rows : claimToken[r] # NewToken
           /\ \A c \in inflight : c.token # NewToken
<1>1. NewToken \in FreshTokens
  BY DEF NewToken
<1> QED
  BY <1>1 DEF FreshTokens

(* The two ways a send ends: with its answer, or accepted without one.     *)
LEMMA Delivers ==
    ASSUME NEW c, Send(c) \/ AnswerLost(c)
    PROVE  \E outcome \in {"accepted"} \cup Failures, taken \in BOOLEAN :
              /\ Deliver(c, outcome, taken) /\ faults' = faults
              /\ outcome = "accepted" => taken
              /\ \/ unanswered' = unanswered + 1
                 \/ unanswered' = unanswered /\ (taken => outcome = "accepted")
<1>1. CASE Send(c)
  <2>1. PICK outcome \in {"accepted"} \cup Failures :
           Deliver(c, outcome, outcome = "accepted") /\ UNCHANGED unanswered
    BY <1>1 DEF Send
  <2> QED
    BY <2>1 DEF Deliver
<1>2. CASE AnswerLost(c)
  <2>1. Deliver(c, "transient", TRUE) /\ unanswered' = unanswered + 1
    BY <1>2 DEF AnswerLost
  <2> QED
    BY <2>1 DEF Deliver, Failures
<1> QED
  BY <1>1, <1>2

(* A fault is charged once.                                                *)
LEMMA FaultCharges ==
    ASSUME TypeOK, Fault PROVE Charged \in Nat /\ Charged' = Charged + 1
BY DEF TypeOK, Fault, Charged

(* Every action of the outbox keeps the variables in their types.          *)
LEMMA TypeStep == TypeOK /\ [Next]_vars => TypeOK'
<1> SUFFICES ASSUME TypeOK, [Next]_vars PROVE TypeOK'
  OBVIOUS
<1> USE BoundAssumption, TokenAssumption DEF Statuses, Queued, Terminal, Errors,
        Failures, Stages
<1>1. ASSUME NEW w \in Workers, NEW r \in Rows, ClaimOne(w, r) PROVE TypeOK'
  <2>1. NewToken \in Tokens
    BY <1>1, NewTokenFresh DEF ClaimOne, ClaimRow
  <2> DEFINE item == [worker |-> w, row |-> r, token |-> NewToken,
                      attempt |-> attempts[r] + 1, stage |-> "claimed",
                      lease |-> "live"]
  <2>2. item \in Claims
    BY <2>1 DEF TypeOK, Claims
  <2>3. inflight' \subseteq Claims
    BY <2>2, <1>1 DEF ClaimOne, TypeOK
  <2> QED
    BY <1>1, <2>1, <2>3 DEF ClaimOne, ClaimRow, TypeOK, historyVars
<1>2. ASSUME NEW w \in Workers, StartDelivery(w) \/ EndTick(w) PROVE TypeOK'
  BY <1>2 DEF StartDelivery, EndTick, TypeOK, rowVars, historyVars
<1>3. ASSUME NEW c \in inflight, Send(c) \/ AnswerLost(c) PROVE TypeOK'
  <2>1. c \in Claims /\ c.row \in Rows
    BY DEF TypeOK, Claims
  <2>2. PICK outcome \in {"accepted"} \cup Failures, taken \in BOOLEAN :
           /\ Deliver(c, outcome, taken) /\ faults' = faults
           /\ outcome = "accepted" => taken
           /\ \/ unanswered' = unanswered + 1
              \/ unanswered' = unanswered /\ (taken => outcome = "accepted")
    BY <1>3, Delivers
  <2>3. [c EXCEPT !.stage = outcome] \in Claims
    BY <2>1 DEF Claims
  <2>4. inflight' \subseteq Claims /\ acked' \in [Rows -> Nat]
    BY <2>1, <2>2, <2>3 DEF TypeOK, Deliver
  <2>5. faults' = faults /\ unanswered' \in 0 .. MaxFaults - faults
    <3>1. CASE Send(c)
      BY <2>2, <3>1 DEF Send, TypeOK
    <3>2. CASE AnswerLost(c)
      BY <2>2, <3>2 DEF AnswerLost, Charged, TypeOK
    <3> QED
      BY <1>3, <3>1, <3>2
  <2> QED
    BY <2>2, <2>4, <2>5 DEF Deliver, TypeOK, rowVars
<1>4. ASSUME NEW c \in inflight, Mark(c) PROVE TypeOK'
  <2>1. c.row \in Rows /\ c.stage \in Stages
    BY DEF TypeOK, Claims
  <2>2. inflight' \subseteq Claims
    BY <1>4 DEF Mark, TypeOK
  <2>3. CASE WriteOutcome(c)
    BY <1>4, <2>1, <2>2, <2>3
       DEF Mark, WriteOutcome, SetSent, SetDead, SetFailed, TypeOK, historyVars
  <2>4. CASE UNCHANGED rowVars
    BY <1>4, <2>2, <2>4 DEF Mark, TypeOK, rowVars, historyVars
  <2> QED
    BY <1>4, <2>3, <2>4 DEF Mark
<1>5. ASSUME NEW w \in Workers, ClaimFails(w) PROVE TypeOK'
  <2>1. /\ inflight' \subseteq Claims /\ faults' \in 0 .. MaxFaults
        /\ unanswered' \in 0 .. MaxFaults - faults'
    BY <1>5 DEF ClaimFails, Fault, Charged, TypeOK
  <2>2. CASE UNCHANGED rowVars
    BY <1>5, <2>1, <2>2 DEF ClaimFails, TypeOK, rowVars
  <2>3. CASE \E r \in Rows : ClaimRow(r)
    <3>1. PICK r \in Rows : ClaimRow(r)
      BY <2>3
    <3>2. NewToken \in Tokens
      BY <3>1, NewTokenFresh DEF ClaimRow
    <3>3. /\ status' \in [Rows -> Statuses] /\ attempts' \in [Rows -> Nat]
          /\ lock' \in [Rows -> {"free", "held", "expired"}]
          /\ claimToken' \in [Rows -> Tokens \cup {NoToken}]
          /\ UNCHANGED <<next, lastError>>
      BY <3>1, <3>2 DEF ClaimRow, TypeOK
    <3> QED
      BY <1>5, <2>1, <3>3 DEF ClaimFails, TypeOK
  <2> QED
    BY <1>5, <2>2, <2>3 DEF ClaimFails
<1>6. ASSUME NEW w \in Workers, Crash(w) PROVE TypeOK'
  BY <1>6 DEF Crash, Fault, Charged, TypeOK, rowVars
<1>7. ASSUME NEW c \in inflight, MarkFails(c) PROVE TypeOK'
  BY <1>7 DEF MarkFails, Fault, Charged, TypeOK, rowVars
<1>8. ASSUME NEW r \in Rows, LeaseRunsOutEarly(r) PROVE TypeOK'
  <2>1. \A c \in inflight : [c EXCEPT !.lease = "lapsed"] \in Claims
    BY DEF TypeOK, Claims
  <2>2. inflight' \subseteq Claims
    BY <1>8, <2>1 DEF LeaseRunsOutEarly, TypeOK
  <2> QED
    BY <1>8, <2>2 DEF LeaseRunsOutEarly, Fault, Charged, TypeOK
<1>9. ASSUME NEW r \in Rows, LeaseRunsOut(r) \/ BackoffElapses(r) PROVE TypeOK'
  BY <1>9 DEF LeaseRunsOut, BackoffElapses, TypeOK, workerVars, historyVars
<1>10. ASSUME NEW r \in Rows, Create(r) PROVE TypeOK'
  BY <1>10 DEF Create, TypeOK, workerVars, historyVars
<1>11. ASSUME NEW hit \in SUBSET Rows, Requeue(hit) PROVE TypeOK'
  BY <1>11 DEF Requeue, TypeOK, workerVars, historyVars
<1>12. CASE CancelPendingByRepository
  BY <1>12 DEF CancelPendingByRepository, TypeOK, workerVars, historyVars
<1>13. CASE SelectTerminal \/ DeleteFails
  BY <1>13 DEF SelectTerminal, DeleteFails, TypeOK, rowVars, workerVars, historyVars
<1>14. CASE DeleteSelected
  BY <1>14 DEF DeleteSelected, TypeOK, workerVars, historyVars
<1>15. CASE UNCHANGED vars
  BY <1>15 DEF vars, rowVars, workerVars, historyVars, TypeOK
<1> QED
  BY <1>1, <1>2, <1>3, <1>4, <1>5, <1>6, <1>7, <1>8, <1>9, <1>10, <1>11, <1>12,
     <1>13, <1>14, <1>15
     DEF Next, WorkerStep, FaultStep, StoreStep, TimeStep, RetryDead, RetryAllDead,
         Batch

(* The variables of the outbox always have the types of its columns.       *)
THEOREM TypeCorrect == Spec => []TypeOK
<1>1. Init => TypeOK
  BY BoundAssumption DEF Init, TypeOK, Statuses, Errors
<1> QED
  BY <1>1, TypeStep, PTL DEF Spec

-----------------------------------------------------------------------------
(* What the inductive invariant says of the items, without the typing.     *)
Items == TokensUnique /\ CurrentClaim /\ HolderUndisturbed /\ AcceptedCounted

(* ... and of the rows.                                                    *)
RowFacts == /\ NewRowsUntried /\ SentMeansAccepted /\ DeadMeansExhausted
            /\ TriesLeft /\ TriesBounded

(* Forgetting items leaves what is known of the others.                    *)
LEMMA FewerItems ==
    ASSUME Items, inflight' \subseteq inflight, UNCHANGED <<rowVars, acked>>
    PROVE  Items'
<1> USE DEF Items, rowVars
<1>1. TokensUnique'
  BY DEF TokensUnique
<1>2. CurrentClaim'
  BY DEF CurrentClaim
<1>3. HolderUndisturbed'
  BY DEF HolderUndisturbed
<1>4. AcceptedCounted'
  BY DEF AcceptedCounted
<1> QED
  BY <1>1, <1>2, <1>3, <1>4

(* A write to rows that no item owns leaves what is known of the items, if *)
(* it does not hand out a token.                                           *)
LEMMA UnownedRows ==
    ASSUME TypeOK, Items,
           NEW hit \in SUBSET Rows,
           \A r \in hit : status[r] \in {"absent", "pending", "dead"}
                             \/ status'[r] = "deleted",
           \A r \in hit : claimToken'[r] \in {claimToken[r], NoToken},
           \A r \in hit : status'[r] = "deleted" => claimToken'[r] = NoToken,
           \A r \in Rows \ hit : /\ status'[r] = status[r]
                                 /\ attempts'[r] = attempts[r]
                                 /\ lock'[r] = lock[r]
                                 /\ claimToken'[r] = claimToken[r],
           UNCHANGED <<inflight, acked>>
    PROVE  Items'
<1> USE TokenAssumption DEF Items
<1>0. \A c \in inflight : c \in Claims /\ c.row \in Rows /\ c.token \in Tokens
  BY DEF TypeOK, Claims
<1>1. TokensUnique'
  BY <1>0 DEF TokensUnique
<1>2. CurrentClaim'
  <2> SUFFICES ASSUME NEW c \in inflight, claimToken'[c.row] = c.token
               PROVE  /\ status'[c.row] = "sending"
                      /\ attempts'[c.row] = c.attempt
                      /\ lock'[c.row] # "free"
                      /\ lock'[c.row] = "expired" => c.lease = "lapsed"
    BY DEF CurrentClaim
  <2>1. claimToken[c.row] = c.token
    BY <1>0
  <2>2. c.row \notin hit
    BY <1>0, <2>1 DEF CurrentClaim
  <2> QED
    BY <1>0, <2>1, <2>2 DEF CurrentClaim
<1>3. HolderUndisturbed'
  <2> SUFFICES ASSUME NEW c \in inflight, c.lease = "live", status'[c.row] # "deleted"
               PROVE  /\ status'[c.row] = "sending"
                      /\ claimToken'[c.row] = c.token
                      /\ attempts'[c.row] = c.attempt
    BY DEF HolderUndisturbed
  <2>1. status[c.row] # "deleted" => status[c.row] = "sending"
    BY DEF HolderUndisturbed
  <2>2. c.row \notin hit
    BY <1>0, <2>1
  <2> QED
    BY <1>0, <2>2 DEF HolderUndisturbed
<1>4. AcceptedCounted'
  BY DEF AcceptedCounted
<1> QED
  BY <1>1, <1>2, <1>3, <1>4

(* A claim gives the row to its new item and to nobody else.               *)
LEMMA ClaimItems ==
    ASSUME TypeOK, Items, NEW r \in Rows, ClaimRow(r), UNCHANGED acked,
           \A c \in inflight' : \/ c \in inflight
                               \/ /\ c.row = r /\ c.token = NewToken
                                  /\ c.attempt = attempts[r] + 1
                                  /\ c.stage = "claimed" /\ c.lease = "live",
           \A c, d \in inflight' \ inflight : c = d
    PROVE  Items'
<1> USE TokenAssumption DEF Items
<1>0. \A c \in inflight : c \in Claims /\ c.row \in Rows /\ c.token \in Tokens
  BY DEF TypeOK, Claims
<1>1. /\ NewToken \in Tokens
      /\ \A s \in Rows : claimToken[s] # NewToken
      /\ \A c \in inflight : c.token # NewToken
  BY NewTokenFresh DEF ClaimRow
<1>2. /\ status' = [status EXCEPT ![r] = "sending"]
      /\ claimToken' = [claimToken EXCEPT ![r] = NewToken]
      /\ lock' = [lock EXCEPT ![r] = "held"]
      /\ attempts' = [attempts EXCEPT ![r] = @ + 1]
      /\ lock[r] \in {"free", "expired"} /\ status[r] \in Queued
  BY DEF ClaimRow, Claimable
<1>3. \A c \in inflight : c.row = r => c.lease = "lapsed"
  <2> SUFFICES ASSUME NEW c \in inflight, c.row = r, c.lease = "live" PROVE FALSE
    BY DEF TypeOK, Claims
  <2>1. status[r] # "deleted"
    BY <1>2 DEF Queued
  <2>2. claimToken[r] = c.token
    BY <2>1 DEF HolderUndisturbed
  <2> QED
    BY <1>2, <2>2 DEF CurrentClaim
<1>4. TokensUnique'
  BY <1>0, <1>1, <1>2 DEF TokensUnique, TypeOK
<1>5. CurrentClaim'
  <2> SUFFICES ASSUME NEW c \in inflight', claimToken'[c.row] = c.token
               PROVE  /\ status'[c.row] = "sending"
                      /\ attempts'[c.row] = c.attempt
                      /\ lock'[c.row] # "free"
                      /\ lock'[c.row] = "expired" => c.lease = "lapsed"
    BY DEF CurrentClaim
  <2>1. CASE c \in inflight
    <3>1. c.row # r
      BY <1>0, <1>1, <1>2, <2>1 DEF TypeOK
    <3> QED
      BY <1>0, <1>2, <2>1, <3>1 DEF CurrentClaim, TypeOK
  <2>2. CASE c \notin inflight
    BY <1>2, <2>2 DEF TypeOK
  <2> QED
    BY <2>1, <2>2
<1>6. HolderUndisturbed'
  <2> SUFFICES ASSUME NEW c \in inflight', c.lease = "live", status'[c.row] # "deleted"
               PROVE  /\ status'[c.row] = "sending"
                      /\ claimToken'[c.row] = c.token
                      /\ attempts'[c.row] = c.attempt
    BY DEF HolderUndisturbed
  <2>1. CASE c \in inflight
    <3>1. c.row # r
      BY <1>3, <2>1
    <3> QED
      BY <1>0, <1>2, <2>1, <3>1 DEF HolderUndisturbed, TypeOK
  <2>2. CASE c \notin inflight
    BY <1>2, <2>2 DEF TypeOK
  <2> QED
    BY <2>1, <2>2
<1>7. AcceptedCounted'
  BY DEF AcceptedCounted
<1> QED
  BY <1>4, <1>5, <1>6, <1>7

(* Sending moves one item on and touches no row.                           *)
LEMMA SendItems ==
    ASSUME TypeOK, Items, NEW c \in inflight, Send(c) \/ AnswerLost(c)
    PROVE  Items'
<1> USE DEF Items
<1>1. PICK outcome \in {"accepted"} \cup Failures, taken \in BOOLEAN :
         /\ Deliver(c, outcome, taken) /\ faults' = faults
         /\ outcome = "accepted" => taken
         /\ \/ unanswered' = unanswered + 1
            \/ unanswered' = unanswered /\ (taken => outcome = "accepted")
  BY Delivers
<1> DEFINE e == [c EXCEPT !.stage = outcome]
<1>2. c \in Claims /\ c.row \in Rows
  BY DEF TypeOK, Claims
<1>3. /\ e.row = c.row /\ e.token = c.token /\ e.attempt = c.attempt
      /\ e.lease = c.lease /\ e.stage = outcome
  BY <1>2 DEF Claims
<1>4. UNCHANGED <<status, claimToken, attempts, lock>>
  BY <1>1 DEF Deliver, rowVars
<1>5. inflight' = (inflight \ {c}) \cup {e}
  BY <1>1 DEF Deliver
<1> HIDE DEF e
<1>6. TokensUnique'
  BY <1>3, <1>4, <1>5 DEF TokensUnique
<1>7. CurrentClaim'
  BY <1>3, <1>4, <1>5 DEF CurrentClaim
<1>8. HolderUndisturbed'
  BY <1>3, <1>4, <1>5 DEF HolderUndisturbed
<1>9. AcceptedCounted'
  <2>1. \A r \in Rows : acked[r] > 0 => acked'[r] > 0
    BY <1>1, <1>2 DEF Deliver, TypeOK
  <2>2. outcome = "accepted" => acked'[c.row] > 0
    BY <1>1, <1>2 DEF Deliver, TypeOK
  <2>3. \A d \in inflight : d.row \in Rows
    BY DEF TypeOK, Claims
  <2> QED
    BY <1>3, <1>5, <2>1, <2>2, <2>3 DEF AcceptedCounted
<1> QED
  BY <1>6, <1>7, <1>8, <1>9

(* A mark that the row accepts is the mark of its current delivery.        *)
LEMMA MarkItems ==
    ASSUME TypeOK, Items, NEW c \in inflight, MarkGuard(c), WriteOutcome(c),
           inflight' = inflight \ {c}, UNCHANGED acked
    PROVE  Items'
<1> USE TokenAssumption DEF Items
<1>0. \A d \in inflight : d \in Claims /\ d.row \in Rows /\ d.token \in Tokens
  BY DEF TypeOK, Claims
<1>1. \A d \in inflight : d # c => d.row # c.row \/ claimToken[c.row] # d.token
  BY DEF MarkGuard, TokensUnique
<1>2. \A d \in inflight : d # c /\ d.lease = "live" => d.row # c.row
  <2> SUFFICES ASSUME NEW d \in inflight, d # c, d.lease = "live", d.row = c.row
               PROVE  FALSE
    OBVIOUS
  <2>1. status[d.row] # "deleted"
    BY DEF MarkGuard, Queued
  <2> QED
    BY <1>1, <2>1 DEF HolderUndisturbed
<1>3. /\ claimToken'[c.row] \in {claimToken[c.row], NoToken}
      /\ \A r \in Rows \ {c.row} : /\ status'[r] = status[r]
                                   /\ attempts'[r] = attempts[r]
                                   /\ lock'[r] = lock[r]
                                   /\ claimToken'[r] = claimToken[r]
  BY <1>0 DEF WriteOutcome, SetSent, SetDead, SetFailed, TypeOK
<1>4. TokensUnique'
  BY <1>0, <1>3 DEF TokensUnique
<1>5. CurrentClaim'
  <2> SUFFICES ASSUME NEW d \in inflight', claimToken'[d.row] = d.token
               PROVE  /\ status'[d.row] = "sending"
                      /\ attempts'[d.row] = d.attempt
                      /\ lock'[d.row] # "free"
                      /\ lock'[d.row] = "expired" => d.lease = "lapsed"
    BY DEF CurrentClaim
  <2>1. d.row # c.row
    BY <1>0, <1>1, <1>3
  <2> QED
    BY <1>0, <1>3, <2>1 DEF CurrentClaim
<1>6. HolderUndisturbed'
  BY <1>0, <1>2, <1>3 DEF HolderUndisturbed
<1>7. AcceptedCounted'
  BY DEF AcceptedCounted
<1> QED
  BY <1>4, <1>5, <1>6, <1>7

(* A lease that runs out under a worker marks that worker's item lapsed.   *)
LEMMA LapseItems ==
    ASSUME TypeOK, Items, NEW r \in Rows, LeaseRunsOutEarly(r)
    PROVE  Items'
<1> USE DEF Items
<1> DEFINE late(c) == IF c.token = claimToken[r] THEN [c EXCEPT !.lease = "lapsed"] ELSE c
<1>1. inflight' = {late(c) : c \in inflight}
  BY DEF LeaseRunsOutEarly
<1>2. \A c \in inflight : /\ late(c).row = c.row /\ late(c).token = c.token
                          /\ late(c).attempt = c.attempt /\ late(c).stage = c.stage
                          /\ late(c).lease = IF c.token = claimToken[r]
                                               THEN "lapsed" ELSE c.lease
  BY DEF TypeOK, Claims
<1>3. /\ UNCHANGED <<status, claimToken, attempts, acked>>
      /\ \A s \in Rows : lock'[s] = IF s = r THEN "expired" ELSE lock[s]
  BY DEF LeaseRunsOutEarly, TypeOK
<1>4. \A c \in inflight : c.row \in Rows
  BY DEF TypeOK, Claims
<1> HIDE DEF late
<1>5. TokensUnique'
  <2>1. \A c, d \in inflight : late(c).token = late(d).token => c = d
    BY <1>2 DEF TokensUnique
  <2> QED
    BY <1>1, <1>2, <1>3, <2>1 DEF TokensUnique
<1>6. CurrentClaim'
  BY <1>1, <1>2, <1>3, <1>4 DEF CurrentClaim
<1>7. HolderUndisturbed'
  BY <1>1, <1>2, <1>3, <1>4 DEF HolderUndisturbed
<1>8. AcceptedCounted'
  BY <1>1, <1>2, <1>3 DEF AcceptedCounted
<1> QED
  BY <1>5, <1>6, <1>7, <1>8

-----------------------------------------------------------------------------
(* The items' part of the inductive invariant, action by action.           *)
LEMMA ItemsStep == ASSUME TypeOK, Items, [Next]_vars PROVE Items'
<1>1. ASSUME NEW w \in Workers, NEW r \in Rows, ClaimOne(w, r) PROVE Items'
  BY <1>1, ClaimItems DEF ClaimOne, historyVars
<1>2. ASSUME NEW w \in Workers, StartDelivery(w) \/ EndTick(w) PROVE Items'
  BY <1>2, FewerItems DEF StartDelivery, EndTick, historyVars
<1>3. ASSUME NEW c \in inflight, Send(c) \/ AnswerLost(c) PROVE Items'
  BY <1>3, SendItems
<1>4. ASSUME NEW c \in inflight, Mark(c) PROVE Items'
  <2>1. CASE MarkGuard(c) /\ WriteOutcome(c)
    BY <1>4, <2>1, MarkItems DEF Mark, historyVars
  <2>2. CASE UNCHANGED rowVars
    BY <1>4, <2>2, FewerItems DEF Mark, historyVars
  <2> QED
    BY <1>4, <2>1, <2>2 DEF Mark
<1>5. ASSUME NEW w \in Workers, ClaimFails(w) PROVE Items'
  <2>1. CASE UNCHANGED rowVars
    BY <1>5, <2>1, FewerItems DEF ClaimFails
  <2>2. ASSUME NEW r \in Rows, ClaimRow(r) PROVE Items'
    BY <1>5, <2>2, ClaimItems DEF ClaimFails
  <2> QED
    BY <1>5, <2>1, <2>2 DEF ClaimFails
<1>6. ASSUME NEW w \in Workers, Crash(w) PROVE Items'
  BY <1>6, FewerItems DEF Crash
<1>7. ASSUME NEW c \in inflight, MarkFails(c) PROVE Items'
  BY <1>7, FewerItems DEF MarkFails
<1>8. ASSUME NEW r \in Rows, LeaseRunsOutEarly(r) PROVE Items'
  BY <1>8, LapseItems
<1>9. ASSUME NEW r \in Rows, LeaseRunsOut(r) PROVE Items'
  <2>1. \A c \in inflight : c.row \in Rows /\ c.token # claimToken[r]
    BY <1>9 DEF LeaseRunsOut, HeldByWorker, TypeOK, Claims
  <2>2. \A c \in inflight : claimToken[c.row] = c.token => lock'[c.row] = lock[c.row]
    BY <1>9, <2>1 DEF LeaseRunsOut, TypeOK
  <2>3. UNCHANGED <<status, attempts, claimToken, inflight, acked>>
    BY <1>9 DEF LeaseRunsOut, workerVars, historyVars
  <2>4. CurrentClaim'
    BY <2>2, <2>3 DEF Items, CurrentClaim
  <2>5. TokensUnique' /\ HolderUndisturbed' /\ AcceptedCounted'
    BY <2>3 DEF Items, TokensUnique, HolderUndisturbed, AcceptedCounted
  <2> QED
    BY <2>4, <2>5 DEF Items
<1>10. ASSUME NEW r \in Rows, BackoffElapses(r) PROVE Items'
  BY <1>10 DEF BackoffElapses, Items, TokensUnique, CurrentClaim,
     HolderUndisturbed, AcceptedCounted, workerVars, historyVars
<1>11. ASSUME NEW r \in Rows, Create(r) PROVE Items'
  <2> DEFINE hit == {r}
  <2>1. \A s \in hit : /\ status[s] = "absent" /\ status'[s] # "deleted"
                       /\ claimToken'[s] = claimToken[s]
    BY <1>11 DEF Create, TypeOK
  <2>2. \A s \in Rows \ hit : /\ status'[s] = status[s] /\ attempts'[s] = attempts[s]
                              /\ lock'[s] = lock[s] /\ claimToken'[s] = claimToken[s]
    BY <1>11 DEF Create, TypeOK
  <2>3. UNCHANGED <<inflight, acked>>
    BY <1>11 DEF Create, workerVars, historyVars
  <2>4. hit \in SUBSET Rows
    OBVIOUS
  <2> HIDE DEF hit
  <2> QED
    BY <2>1, <2>2, <2>3, <2>4, UnownedRows
<1>12. ASSUME NEW hit \in SUBSET {r \in Rows : status[r] = "dead"}, Requeue(hit)
       PROVE  Items'
  <2>1. \A s \in hit : /\ status[s] = "dead" /\ status'[s] # "deleted"
                       /\ claimToken'[s] = claimToken[s]
    BY <1>12 DEF Requeue, TypeOK
  <2>2. \A s \in Rows \ hit : /\ status'[s] = status[s] /\ attempts'[s] = attempts[s]
                              /\ lock'[s] = lock[s] /\ claimToken'[s] = claimToken[s]
    BY <1>12 DEF Requeue, TypeOK
  <2>3. UNCHANGED <<inflight, acked>>
    BY <1>12 DEF Requeue, workerVars, historyVars
  <2> QED
    BY <2>1, <2>2, <2>3, UnownedRows
<1>13. CASE CancelPendingByRepository
  <2> DEFINE hit == {r \in ReleaseRows : status[r] = "pending"}
  <2>1. \A s \in hit : /\ s \in Rows
                       /\ status[s] = "pending" /\ status'[s] # "deleted"
                       /\ claimToken'[s] = claimToken[s]
    BY <1>13, ReleaseAssumption DEF CancelPendingByRepository, TypeOK
  <2>2. \A s \in Rows \ hit : /\ status'[s] = status[s] /\ attempts'[s] = attempts[s]
                              /\ lock'[s] = lock[s] /\ claimToken'[s] = claimToken[s]
    BY <1>13 DEF CancelPendingByRepository, TypeOK
  <2>3. UNCHANGED <<inflight, acked>>
    BY <1>13 DEF CancelPendingByRepository, workerVars, historyVars
  <2> QED
    BY <2>1, <2>2, <2>3, UnownedRows
<1>14. CASE SelectTerminal \/ DeleteFails
  BY <1>14, FewerItems DEF SelectTerminal, DeleteFails, workerVars, historyVars
<1>15. CASE DeleteSelected
  <2>1. \A s \in selected : /\ s \in Rows /\ status'[s] = "deleted"
                            /\ claimToken'[s] = NoToken
    BY <1>15 DEF DeleteSelected, TypeOK
  <2>2. \A s \in Rows \ selected : /\ status'[s] = status[s] /\ attempts'[s] = attempts[s]
                                   /\ lock'[s] = lock[s] /\ claimToken'[s] = claimToken[s]
    BY <1>15 DEF DeleteSelected, TypeOK
  <2>3. UNCHANGED <<inflight, acked>> /\ selected \in SUBSET Rows
    BY <1>15 DEF DeleteSelected, workerVars, historyVars, TypeOK
  <2> QED
    BY <2>1, <2>2, <2>3, UnownedRows
<1>16. CASE UNCHANGED vars
  BY <1>16, FewerItems DEF vars, workerVars, historyVars
<1> QED
  BY <1>1, <1>2, <1>3, <1>4, <1>5, <1>6, <1>7, <1>8, <1>9, <1>10, <1>11, <1>12,
     <1>13, <1>14, <1>15, <1>16
     DEF Next, WorkerStep, FaultStep, StoreStep, TimeStep, RetryDead, RetryAllDead,
         Batch

-----------------------------------------------------------------------------
(* A step that writes no row, keeps the items' tokens and charges no fault *)
(* leaves the facts about rows; so does any fault that writes no row.      *)
LEMMA RowsUntouched ==
    ASSUME TypeOK, RowFacts, UNCHANGED rowVars,
           \A r \in Rows : acked'[r] >= acked[r] /\ acked'[r] \in Nat,
           \/ faults' = faults /\ \A r \in Rows : HeldByWorker(r) => HeldByWorker(r)'
           \/ faults' = faults + 1
    PROVE  RowFacts'
<1> USE BoundAssumption DEF RowFacts
<1>1. UNCHANGED <<status, attempts, lock, claimToken, lastError>>
  BY DEF rowVars
<1>2. \A r \in Rows : attempts[r] \in Nat /\ acked[r] \in Nat
  BY DEF TypeOK
<1>3. faults \in Nat /\ faults' \in Nat
  BY DEF TypeOK
<1>4. NewRowsUntried' /\ DeadMeansExhausted'
  BY <1>1 DEF NewRowsUntried, DeadMeansExhausted
<1>5. SentMeansAccepted'
  BY <1>1, <1>2 DEF SentMeansAccepted
<1>6. TriesBounded'
  BY <1>1, <1>2, <1>3 DEF TriesBounded
<1>7. TriesLeft'
  <2> SUFFICES ASSUME NEW r \in Rows, status'[r] \in Queued,
                      ~(lock'[r] = "held" /\ HeldByWorker(r)')
               PROVE  attempts'[r] < MaxAttempts + faults'
    BY DEF TriesLeft
  <2>1. CASE faults' = faults + 1
    BY <1>1, <1>2, <1>3, <2>1 DEF TriesBounded
  <2>2. CASE faults' = faults /\ (HeldByWorker(r) => HeldByWorker(r)')
    BY <1>1, <2>2 DEF TriesLeft
  <2> QED
    BY <2>1, <2>2
<1> QED
  BY <1>4, <1>5, <1>6, <1>7

(* A step that writes the rows of hit without sending or killing any       *)
(* leaves the facts about rows if the rows it queues have a try left.      *)
LEMMA RowsWritten ==
    ASSUME TypeOK, RowFacts, NEW hit \in SUBSET Rows,
           UNCHANGED historyVars,
           \A r \in hit : /\ attempts'[r] \in Nat /\ attempts'[r] <= attempts[r]
                          /\ status'[r] \in Queued => attempts'[r] < MaxAttempts
                          /\ status'[r] \notin {"sent", "dead", "absent"},
           \A r \in Rows \ hit : /\ status'[r] = status[r]
                                 /\ attempts'[r] = attempts[r]
                                 /\ lock'[r] = lock[r]
                                 /\ lastError'[r] = lastError[r]
                                 /\ HeldByWorker(r) => HeldByWorker(r)'
    PROVE  RowFacts'
<1> USE BoundAssumption DEF RowFacts, historyVars
<1>1. \A r \in Rows : attempts[r] \in Nat /\ acked[r] \in Nat
  BY DEF TypeOK
<1>2. faults \in Nat /\ faults' = faults
  BY DEF TypeOK
<1>3. NewRowsUntried'
  BY DEF NewRowsUntried
<1>4. DeadMeansExhausted'
  BY DEF DeadMeansExhausted
<1>5. SentMeansAccepted'
  BY DEF SentMeansAccepted
<1>6. TriesBounded'
  BY <1>1, <1>2 DEF TriesBounded
<1>7. TriesLeft'
  BY <1>1, <1>2 DEF TriesLeft
<1> QED
  BY <1>3, <1>4, <1>5, <1>6, <1>7

(* The rows' part of the inductive invariant, action by action.            *)
LEMMA RowsStep == ASSUME TypeOK, Items, RowFacts, [Next]_vars PROVE RowFacts'
<1> USE BoundAssumption
<1>0. /\ \A r \in Rows : attempts[r] \in Nat /\ acked[r] \in Nat
      /\ \A c \in inflight : c.row \in Rows /\ c.token \in Tokens /\ c.attempt \in Nat
      /\ faults \in Nat
  BY DEF TypeOK, Claims
<1>1. ASSUME NEW w \in Workers, NEW r \in Rows, ClaimOne(w, r) PROVE RowFacts'
  <2> DEFINE item == [worker |-> w, row |-> r, token |-> NewToken,
                      attempt |-> attempts[r] + 1, stage |-> "claimed", lease |-> "live"]
  <2>0. ClaimRow(r) /\ UNCHANGED <<acked, faults>> /\ inflight' = inflight \cup {item}
    BY <1>1 DEF ClaimOne, historyVars
  <2>1. /\ ClaimRow(r) /\ UNCHANGED <<acked, faults>> /\ inflight \subseteq inflight'
        /\ \E c \in inflight' : c.token = NewToken
    <3>1. item.token = NewToken
      OBVIOUS
    <3> HIDE DEF item
    <3> QED
      BY <2>0, <3>1
  <2>a. status[r] \in Queued /\ attempts[r] < MaxAttempts + faults
    BY <2>1 DEF ClaimRow, Claimable, RowFacts, TriesLeft
  <2>b. /\ status'[r] = "sending" /\ attempts'[r] = attempts[r] + 1
        /\ lock'[r] = "held" /\ claimToken'[r] = NewToken
    BY <2>1 DEF ClaimRow, TypeOK
  <2>c. \A s \in Rows \ {r} : /\ status'[s] = status[s] /\ attempts'[s] = attempts[s]
                              /\ lock'[s] = lock[s] /\ claimToken'[s] = claimToken[s]
    BY <2>1 DEF ClaimRow, TypeOK
  <2>2. /\ status[r] \in Queued /\ attempts[r] < MaxAttempts + faults
        /\ status'[r] = "sending" /\ attempts'[r] = attempts[r] + 1
        /\ lock'[r] = "held" /\ claimToken'[r] = NewToken
        /\ \A s \in Rows \ {r} : /\ status'[s] = status[s] /\ attempts'[s] = attempts[s]
                                /\ lock'[s] = lock[s] /\ claimToken'[s] = claimToken[s]
        /\ UNCHANGED lastError
    BY <2>1, <2>a, <2>b, <2>c DEF ClaimRow
  <2>3. TriesLeft'
    BY <2>1, <2>2, <1>0 DEF RowFacts, TriesLeft, HeldByWorker
  <2>4. TriesBounded'
    BY <2>1, <2>2, <1>0 DEF RowFacts, TriesBounded
  <2>5. NewRowsUntried' /\ SentMeansAccepted' /\ DeadMeansExhausted'
    BY <2>1, <2>2 DEF RowFacts, NewRowsUntried, SentMeansAccepted, DeadMeansExhausted
  <2> QED
    BY <2>3, <2>4, <2>5 DEF RowFacts
<1>2. ASSUME NEW w \in Workers, StartDelivery(w) \/ EndTick(w) PROVE RowFacts'
  BY <1>0, <1>2, RowsUntouched DEF StartDelivery, EndTick, historyVars, rowVars,
     HeldByWorker
<1>3. ASSUME NEW c \in inflight, Send(c) \/ AnswerLost(c) PROVE RowFacts'
  <2>1. PICK outcome \in {"accepted"} \cup Failures, taken \in BOOLEAN :
           /\ Deliver(c, outcome, taken) /\ faults' = faults
           /\ outcome = "accepted" => taken
           /\ \/ unanswered' = unanswered + 1
              \/ unanswered' = unanswered /\ (taken => outcome = "accepted")
    BY <1>3, Delivers
  <2>2. [c EXCEPT !.stage = outcome].token = c.token
    BY DEF TypeOK, Claims
  <2>3. UNCHANGED rowVars /\ faults' = faults
    BY <2>1 DEF Deliver
  <2>4. \A r \in Rows : HeldByWorker(r) => HeldByWorker(r)'
    BY <2>1, <2>2, <2>3 DEF Deliver, HeldByWorker, rowVars
  <2>5. \A r \in Rows : acked'[r] >= acked[r] /\ acked'[r] \in Nat
    BY <1>0, <2>1 DEF Deliver, TypeOK
  <2> QED
    BY <2>3, <2>4, <2>5, RowsUntouched
<1>4. ASSUME NEW c \in inflight, Mark(c) PROVE RowFacts'
  <2>1. inflight' = inflight \ {c} /\ UNCHANGED historyVars
    BY <1>4 DEF Mark
  <2>2. CASE MarkGuard(c) /\ WriteOutcome(c)
    <3> DEFINE Other(r) == /\ status'[r] = status[r] /\ attempts'[r] = attempts[r]
                           /\ lock'[r] = lock[r] /\ lastError'[r] = lastError[r]
                           /\ claimToken'[r] = claimToken[r]
    <3>1. /\ \A r \in Rows \ {c.row} : Other(r)
          /\ attempts'[c.row] = attempts[c.row]
      BY <1>0, <2>2 DEF WriteOutcome, SetSent, SetDead, SetFailed, TypeOK
    <3>2. \A r \in Rows \ {c.row} : HeldByWorker(r) => HeldByWorker(r)'
      BY <2>1, <2>2, <3>1 DEF HeldByWorker, MarkGuard, Items, TokensUnique
    <3>3. attempts[c.row] = c.attempt
      BY <2>2 DEF MarkGuard, Items, CurrentClaim
    <3>4. CASE status'[c.row] = "pending" /\ c.attempt < MaxAttempts
      <4> DEFINE hit == {c.row}
      <4>1. /\ hit \in SUBSET Rows
            /\ \A r \in hit : /\ attempts'[r] \in Nat /\ attempts'[r] <= attempts[r]
                              /\ status'[r] \in Queued => attempts'[r] < MaxAttempts
                              /\ status'[r] \notin {"sent", "dead", "absent"}
        BY <1>0, <3>1, <3>3, <3>4
      <4> HIDE DEF hit
      <4>2. \A r \in Rows \ hit : /\ status'[r] = status[r] /\ attempts'[r] = attempts[r]
                                  /\ lock'[r] = lock[r] /\ lastError'[r] = lastError[r]
                                  /\ HeldByWorker(r) => HeldByWorker(r)'
        BY <3>1, <3>2 DEF hit
      <4> QED
        BY <2>1, <4>1, <4>2, RowsWritten
    <3>5. CASE /\ status'[c.row] \in {"sent", "dead"}
               /\ status'[c.row] = "sent" => c.stage = "accepted"
               /\ status'[c.row] = "dead" =>
                     lastError'[c.row] = "permanent" \/ c.attempt >= MaxAttempts
      <4>1. acked[c.row] > 0 \/ status'[c.row] # "sent"
        BY <3>5 DEF Items, AcceptedCounted
      <4>2. UNCHANGED <<acked, faults>>
        BY <2>1 DEF historyVars
      <4>3. NewRowsUntried' /\ SentMeansAccepted' /\ DeadMeansExhausted'
        BY <3>1, <3>3, <3>5, <4>1, <4>2
           DEF RowFacts, NewRowsUntried, SentMeansAccepted, DeadMeansExhausted
      <4>4. TriesBounded'
        BY <3>1, <4>2 DEF RowFacts, TriesBounded
      <4>5. TriesLeft'
        BY <3>1, <3>2, <3>5, <4>2 DEF RowFacts, TriesLeft, Queued
      <4> QED
        BY <4>3, <4>4, <4>5 DEF RowFacts
    <3>6. CASE c.stage = "accepted" /\ SetSent(c.row)
      BY <1>0, <3>5, <3>6 DEF SetSent, TypeOK
    <3>7. CASE GivesUp(c) /\ SetDead(c.row, c.stage)
      BY <1>0, <3>5, <3>7 DEF SetDead, GivesUp, TypeOK
    <3>8. CASE ~GivesUp(c) /\ SetFailed(c.row, c.stage)
      BY <1>0, <3>4, <3>8 DEF SetFailed, GivesUp, TypeOK
    <3> QED
      BY <2>2, <3>6, <3>7, <3>8 DEF WriteOutcome
  <2>3. CASE ~MarkGuard(c) /\ UNCHANGED rowVars
    <3>1. \A r \in Rows : claimToken[r] # c.token
      BY <2>3 DEF MarkGuard, Items, TokensUnique, CurrentClaim, Queued
    <3>2. \A r \in Rows : HeldByWorker(r) => HeldByWorker(r)'
      BY <2>1, <2>3, <3>1 DEF HeldByWorker, rowVars
    <3> QED
      BY <1>0, <2>1, <2>3, <3>2, RowsUntouched DEF historyVars
  <2> QED
    BY <1>4, <2>2, <2>3 DEF Mark
<1>5. ASSUME NEW w \in Workers, ClaimFails(w) PROVE RowFacts'
  <2>1. faults' = faults + 1 /\ UNCHANGED acked
    BY <1>5 DEF ClaimFails, Fault
  <2>2. CASE UNCHANGED rowVars
    BY <1>0, <2>1, <2>2, RowsUntouched
  <2>3. ASSUME NEW r \in Rows, ClaimRow(r) PROVE RowFacts'
    <3>1. /\ status[r] \in Queued /\ attempts[r] < MaxAttempts + faults
          /\ status'[r] = "sending" /\ attempts'[r] = attempts[r] + 1
          /\ \A s \in Rows \ {r} : status'[s] = status[s] /\ attempts'[s] = attempts[s]
          /\ UNCHANGED lastError
      BY <2>3 DEF ClaimRow, Claimable, TypeOK, RowFacts, TriesLeft
    <3>2. TriesLeft' /\ TriesBounded'
      BY <1>0, <2>1, <3>1 DEF RowFacts, TriesLeft, TriesBounded
    <3>3. NewRowsUntried' /\ SentMeansAccepted' /\ DeadMeansExhausted'
      BY <2>1, <3>1 DEF RowFacts, NewRowsUntried, SentMeansAccepted, DeadMeansExhausted
    <3> QED
      BY <3>2, <3>3 DEF RowFacts
  <2> QED
    BY <1>5, <2>2, <2>3 DEF ClaimFails
<1>6. ASSUME NEW w \in Workers, Crash(w) PROVE RowFacts'
  BY <1>0, <1>6, RowsUntouched DEF Crash, Fault
<1>7. ASSUME NEW c \in inflight, MarkFails(c) PROVE RowFacts'
  BY <1>0, <1>7, RowsUntouched DEF MarkFails, Fault
<1>8. ASSUME NEW r \in Rows, LeaseRunsOutEarly(r) PROVE RowFacts'
  <2>1. UNCHANGED <<status, attempts, lastError, acked>> /\ faults' = faults + 1
    BY <1>8 DEF LeaseRunsOutEarly, Fault
  <2> QED
    BY <1>0, <2>1 DEF RowFacts, NewRowsUntried, SentMeansAccepted, DeadMeansExhausted,
       TriesLeft, TriesBounded
<1>9. ASSUME NEW r \in Rows, LeaseRunsOut(r) PROVE RowFacts'
  <2>1. /\ UNCHANGED <<status, attempts, lastError, claimToken, inflight, acked, faults>>
        /\ ~HeldByWorker(r)
        /\ \A s \in Rows \ {r} : lock'[s] = lock[s]
    BY <1>9 DEF LeaseRunsOut, TypeOK, workerVars, historyVars
  <2>2. TriesLeft'
    BY <2>1 DEF RowFacts, TriesLeft, HeldByWorker
  <2> QED
    BY <2>1, <2>2 DEF RowFacts, NewRowsUntried, SentMeansAccepted, DeadMeansExhausted,
       TriesBounded
<1>10. ASSUME NEW r \in Rows, BackoffElapses(r) PROVE RowFacts'
  BY <1>10 DEF BackoffElapses, RowFacts, NewRowsUntried, SentMeansAccepted,
     DeadMeansExhausted, TriesLeft, TriesBounded, HeldByWorker, workerVars, historyVars
<1>11. ASSUME NEW r \in Rows, Create(r) PROVE RowFacts'
  <2> DEFINE hit == {r}
  <2>1. /\ hit \in SUBSET Rows /\ UNCHANGED historyVars
        /\ \A s \in hit : /\ attempts'[s] \in Nat /\ attempts'[s] <= attempts[s]
                          /\ status'[s] \in Queued => attempts'[s] < MaxAttempts
                          /\ status'[s] \notin {"sent", "dead", "absent"}
    BY <1>0, <1>11 DEF Create, TypeOK, RowFacts, NewRowsUntried
  <2>2. \A s \in Rows \ hit : /\ status'[s] = status[s] /\ attempts'[s] = attempts[s]
                              /\ lock'[s] = lock[s] /\ lastError'[s] = lastError[s]
                              /\ HeldByWorker(s) => HeldByWorker(s)'
    BY <1>11 DEF Create, TypeOK, HeldByWorker, workerVars
  <2> HIDE DEF hit
  <2> QED
    BY <2>1, <2>2, RowsWritten
<1>12. ASSUME NEW hit \in SUBSET {r \in Rows : status[r] = "dead"}, Requeue(hit)
       PROVE  RowFacts'
  <2>1. /\ hit \in SUBSET Rows /\ UNCHANGED historyVars
        /\ \A s \in hit : /\ attempts'[s] \in Nat /\ attempts'[s] <= attempts[s]
                          /\ status'[s] \in Queued => attempts'[s] < MaxAttempts
                          /\ status'[s] \notin {"sent", "dead", "absent"}
    BY <1>0, <1>12 DEF Requeue, TypeOK
  <2>2. \A s \in Rows \ hit : /\ status'[s] = status[s] /\ attempts'[s] = attempts[s]
                              /\ lock'[s] = lock[s] /\ lastError'[s] = lastError[s]
                              /\ HeldByWorker(s) => HeldByWorker(s)'
    BY <1>12 DEF Requeue, TypeOK, HeldByWorker, workerVars
  <2> QED
    BY <2>1, <2>2, RowsWritten
<1>13. CASE CancelPendingByRepository
  <2> DEFINE hit == {r \in ReleaseRows : status[r] = "pending"}
  <2>1. /\ hit \in SUBSET Rows /\ UNCHANGED historyVars
        /\ \A s \in hit : /\ attempts'[s] \in Nat /\ attempts'[s] <= attempts[s]
                          /\ status'[s] \in Queued => attempts'[s] < MaxAttempts
                          /\ status'[s] \notin {"sent", "dead", "absent"}
    BY <1>0, <1>13, ReleaseAssumption DEF CancelPendingByRepository, TypeOK, Queued
  <2>2. \A s \in Rows \ hit : /\ status'[s] = status[s] /\ attempts'[s] = attempts[s]
                              /\ lock'[s] = lock[s] /\ lastError'[s] = lastError[s]
                              /\ HeldByWorker(s) => HeldByWorker(s)'
    BY <1>13 DEF CancelPendingByRepository, TypeOK, HeldByWorker, workerVars
  <2> HIDE DEF hit
  <2> QED
    BY <2>1, <2>2, RowsWritten
<1>14. CASE SelectTerminal \/ DeleteFails
  BY <1>0, <1>14, RowsUntouched DEF SelectTerminal, DeleteFails, workerVars, historyVars,
     HeldByWorker, rowVars
<1>15. CASE DeleteSelected
  <2>1. /\ selected \in SUBSET Rows /\ UNCHANGED historyVars
        /\ \A s \in selected : /\ attempts'[s] \in Nat /\ attempts'[s] <= attempts[s]
                               /\ status'[s] \in Queued => attempts'[s] < MaxAttempts
                               /\ status'[s] \notin {"sent", "dead", "absent"}
    BY <1>0, <1>15 DEF DeleteSelected, TypeOK
  <2>2. \A s \in Rows \ selected : /\ status'[s] = status[s] /\ attempts'[s] = attempts[s]
                                   /\ lock'[s] = lock[s] /\ lastError'[s] = lastError[s]
                                   /\ HeldByWorker(s) => HeldByWorker(s)'
    BY <1>15 DEF DeleteSelected, TypeOK, HeldByWorker, workerVars
  <2> QED
    BY <2>1, <2>2, RowsWritten
<1>16. CASE UNCHANGED vars
  BY <1>0, <1>16, RowsUntouched DEF vars, rowVars, workerVars, historyVars, HeldByWorker
<1> QED
  BY <1>1, <1>2, <1>3, <1>4, <1>5, <1>6, <1>7, <1>8, <1>9, <1>10, <1>11, <1>12,
     <1>13, <1>14, <1>15, <1>16
     DEF Next, WorkerStep, FaultStep, StoreStep, TimeStep, RetryDead, RetryAllDead,
         Batch

-----------------------------------------------------------------------------
LEMMA InductiveInit == Init => IInv
<1> SUFFICES ASSUME Init PROVE IInv
  OBVIOUS
<1>1. TypeOK
  BY BoundAssumption DEF Init, TypeOK, Statuses, Errors
<1>2. TokensUnique /\ CurrentClaim /\ HolderUndisturbed /\ AcceptedCounted
  BY DEF Init, TokensUnique, CurrentClaim, HolderUndisturbed, AcceptedCounted
<1>3. \A r \in Rows : status[r] = "absent" /\ attempts[r] = 0
  BY DEF Init
<1>4. NewRowsUntried /\ SentMeansAccepted /\ DeadMeansExhausted /\ TriesLeft
  BY <1>3 DEF NewRowsUntried, SentMeansAccepted, DeadMeansExhausted, TriesLeft, Queued
<1>5. TriesBounded
  BY <1>3, BoundAssumption DEF TriesBounded, Init
<1> QED
  BY <1>1, <1>2, <1>4, <1>5 DEF IInv

LEMMA InductiveStep == IInv /\ [Next]_vars => IInv'
<1> SUFFICES ASSUME IInv, [Next]_vars PROVE IInv'
  OBVIOUS
<1>1. TypeOK /\ Items /\ RowFacts
  BY DEF IInv, Items, RowFacts
<1>2. TypeOK' /\ Items' /\ RowFacts'
  BY <1>1, TypeStep, ItemsStep, RowsStep
<1> QED
  BY <1>2 DEF IInv, Items, RowFacts

LEMMA Inductive == Spec => []IInv
  BY InductiveInit, InductiveStep, PTL DEF Spec

(* A worker whose lease has not run out keeps its row, whatever late marks,*)
(* operator retries and cancellations do meanwhile.                        *)
THEOREM LeaseProtects == Spec => []HolderUndisturbed
<1>1. IInv => HolderUndisturbed
  BY DEF IInv
<1> QED
  BY <1>1, Inductive, PTL

(* No row is recorded as sent that the channel did not accept.             *)
THEOREM SentIsAccepted == Spec => []SentMeansAccepted
<1>1. IInv => SentMeansAccepted
  BY DEF IInv
<1> QED
  BY <1>1, Inductive, PTL

(* No notification is given up while it has a try left.                    *)
THEOREM DeadIsExhausted == Spec => []DeadMeansExhausted
<1>1. IInv => DeadMeansExhausted
  BY DEF IInv
<1> QED
  BY <1>1, Inductive, PTL

(* Only faults make a row be tried more than MaxAttempts times.            *)
THEOREM TriesAreBounded == Spec => []TriesBounded
<1>1. IInv => TriesBounded
  BY DEF IInv
<1> QED
  BY <1>1, Inductive, PTL

-----------------------------------------------------------------------------
(* Why duplicates need faults.  A row has at most one claim with a live    *)
(* lease; beside it only late claims can still send, and each was made     *)
(* late by a fault.                                                        *)
LateSends(r) ==
    {c \in inflight : c.row = r /\ c.stage = "claimed" /\ c.lease = "lapsed"}

LiveClaim(c, r) == c \in inflight /\ c.row = r /\ c.lease = "live"

(* The row may be sent once more without another fault.                    *)
SendLeft(r) ==
    \/ \E c \in inflight : LiveClaim(c, r) /\ c.stage # "accepted"
    \/ /\ status[r] \in Queued \cup {"absent", "dead"}
       /\ \A c \in inflight : ~LiveClaim(c, r)

SendPaid(r) ==
    /\ IsFiniteSet(LateSends(r))
    /\ acked[r] + Cardinality(LateSends(r)) + (IF SendLeft(r) THEN 1 ELSE 0)
          <= 1 + Charged

SendsPaid == \A r \in Rows : SendPaid(r)

OneLiveClaim ==
    \A c, d \in inflight : c.row = d.row /\ c.lease = "live" /\ d.lease = "live" => c = d

HeldIsLive ==
    \A c \in inflight :
        claimToken[c.row] = c.token /\ lock[c.row] = "held" => c.lease = "live"

LiveFacts == OneLiveClaim /\ HeldIsLive

(* A row that can be claimed has no live claim.                            *)
LEMMA ClaimableIsFree ==
    ASSUME TypeOK, Items, NEW r \in Rows, ClaimRow(r)
    PROVE  \A c \in inflight : c.row = r => c.lease = "lapsed"
<1> SUFFICES ASSUME NEW c \in inflight, c.row = r, c.lease = "live" PROVE FALSE
  BY DEF TypeOK, Claims
<1>1. lock[r] \in {"free", "expired"} /\ status[r] # "deleted"
  BY DEF ClaimRow, Claimable, Queued
<1>2. claimToken[r] = c.token
  BY <1>1 DEF Items, HolderUndisturbed
<1> QED
  BY <1>1, <1>2 DEF Items, CurrentClaim

(* A step that takes no lock and hands out no token keeps the live claims. *)
LEMMA LiveKept ==
    ASSUME TypeOK, LiveFacts, inflight' \subseteq inflight,
           \A r \in Rows : /\ claimToken'[r] \in {claimToken[r], NoToken}
                           /\ lock'[r] = "held" => lock[r] = "held"
    PROVE  LiveFacts'
<1>1. \A c \in inflight : c.row \in Rows /\ c.token # NoToken
  BY TokenAssumption DEF TypeOK, Claims
<1>2. OneLiveClaim'
  BY DEF LiveFacts, OneLiveClaim
<1>3. HeldIsLive'
  BY <1>1 DEF LiveFacts, HeldIsLive
<1> QED
  BY <1>2, <1>3 DEF LiveFacts

(* ... and so does any step of the outbox.                                 *)
LEMMA LiveStep == ASSUME TypeOK, Items, LiveFacts, [Next]_vars PROVE LiveFacts'
<1>0. \A c \in inflight : c \in Claims /\ c.row \in Rows /\ c.token \in Tokens
  BY DEF TypeOK, Claims
<1>1. ASSUME NEW w \in Workers, NEW r \in Rows, ClaimOne(w, r) PROVE LiveFacts'
  <2> DEFINE item == [worker |-> w, row |-> r, token |-> NewToken,
                      attempt |-> attempts[r] + 1, stage |-> "claimed", lease |-> "live"]
  <2>0. ClaimRow(r) /\ inflight' = inflight \cup {item}
    BY <1>1 DEF ClaimOne
  <2>1. item.row = r /\ item.lease = "live" /\ item.token = NewToken
    OBVIOUS
  <2> HIDE DEF item
  <2>2. \A c \in inflight : c.row = r => c.lease # "live"
    BY <2>0, ClaimableIsFree
  <2>3. OneLiveClaim'
    BY <2>0, <2>1, <2>2 DEF LiveFacts, OneLiveClaim
  <2>4. /\ \A c \in inflight : c.token # NewToken
        /\ claimToken' = [claimToken EXCEPT ![r] = NewToken]
        /\ lock' = [lock EXCEPT ![r] = "held"]
    BY <2>0, NewTokenFresh DEF ClaimRow
  <2>5. HeldIsLive'
    BY <1>0, <2>0, <2>1, <2>4 DEF LiveFacts, HeldIsLive, TypeOK
  <2> QED
    BY <2>3, <2>5 DEF LiveFacts
<1>2. ASSUME NEW w \in Workers, StartDelivery(w) \/ EndTick(w) PROVE LiveFacts'
  BY <1>2, LiveKept DEF StartDelivery, EndTick, rowVars
<1>3. ASSUME NEW c \in inflight, Send(c) \/ AnswerLost(c) PROVE LiveFacts'
  <2>1. PICK outcome \in {"accepted"} \cup Failures, taken \in BOOLEAN :
           /\ Deliver(c, outcome, taken) /\ faults' = faults
           /\ outcome = "accepted" => taken
           /\ \/ unanswered' = unanswered + 1
              \/ unanswered' = unanswered /\ (taken => outcome = "accepted")
    BY <1>3, Delivers
  <2> DEFINE e == [c EXCEPT !.stage = outcome]
  <2>2. e.row = c.row /\ e.token = c.token /\ e.lease = c.lease
    BY <1>0 DEF Claims
  <2>3. inflight' = (inflight \ {c}) \cup {e} /\ UNCHANGED <<claimToken, lock>>
    BY <2>1 DEF Deliver, rowVars
  <2> HIDE DEF e
  <2>4. OneLiveClaim'
    BY <2>2, <2>3 DEF LiveFacts, OneLiveClaim
  <2>5. HeldIsLive'
    BY <2>2, <2>3 DEF LiveFacts, HeldIsLive
  <2> QED
    BY <2>4, <2>5 DEF LiveFacts
<1>4. ASSUME NEW c \in inflight, Mark(c) PROVE LiveFacts'
  <2>1. inflight' \subseteq inflight
    BY <1>4 DEF Mark
  <2>2. CASE WriteOutcome(c)
    BY <1>0, <2>1, <2>2, LiveKept DEF WriteOutcome, SetSent, SetDead, SetFailed, TypeOK
  <2>3. CASE UNCHANGED rowVars
    BY <2>1, <2>3, LiveKept DEF rowVars
  <2> QED
    BY <1>4, <2>2, <2>3 DEF Mark
<1>5. ASSUME NEW w \in Workers, ClaimFails(w) PROVE LiveFacts'
  <2>1. inflight' \subseteq inflight
    BY <1>5 DEF ClaimFails
  <2>2. CASE UNCHANGED rowVars
    BY <2>1, <2>2, LiveKept DEF rowVars
  <2>3. ASSUME NEW r \in Rows, ClaimRow(r) PROVE LiveFacts'
    <3>1. /\ \A c \in inflight : c.token # NewToken
          /\ claimToken' = [claimToken EXCEPT ![r] = NewToken]
          /\ lock' = [lock EXCEPT ![r] = "held"]
      BY <2>3, NewTokenFresh DEF ClaimRow
    <3>2. HeldIsLive'
      BY <1>0, <2>1, <3>1 DEF LiveFacts, HeldIsLive, TypeOK
    <3>3. OneLiveClaim'
      BY <2>1 DEF LiveFacts, OneLiveClaim
    <3> QED
      BY <3>2, <3>3 DEF LiveFacts
  <2> QED
    BY <1>5, <2>2, <2>3 DEF ClaimFails
<1>6. ASSUME NEW w \in Workers, Crash(w) PROVE LiveFacts'
  BY <1>6, LiveKept DEF Crash, rowVars
<1>7. ASSUME NEW c \in inflight, MarkFails(c) PROVE LiveFacts'
  BY <1>7, LiveKept DEF MarkFails, rowVars
<1>8. ASSUME NEW r \in Rows, LeaseRunsOutEarly(r) PROVE LiveFacts'
  <2> DEFINE late(c) == IF c.token = claimToken[r] THEN [c EXCEPT !.lease = "lapsed"] ELSE c
  <2>1. /\ inflight' = {late(c) : c \in inflight}
        /\ claimToken' = claimToken /\ lock' = [lock EXCEPT ![r] = "expired"]
    BY <1>8 DEF LeaseRunsOutEarly
  <2>2. \A c \in inflight : /\ late(c).row = c.row /\ late(c).token = c.token
                            /\ late(c).lease = IF c.token = claimToken[r]
                                                 THEN "lapsed" ELSE c.lease
    BY <1>0 DEF Claims
  <2> HIDE DEF late
  <2>3. OneLiveClaim'
    BY <2>1, <2>2 DEF LiveFacts, OneLiveClaim
  <2>4. \A c \in inflight : c.token = claimToken[r] => c.row = r
    BY DEF Items, TokensUnique
  <2>5. HeldIsLive'
    BY <1>0, <2>1, <2>2, <2>4 DEF LiveFacts, HeldIsLive, TypeOK
  <2> QED
    BY <2>3, <2>5 DEF LiveFacts
<1>9. ASSUME NEW r \in Rows, LeaseRunsOut(r) \/ BackoffElapses(r) \/ Create(r)
      PROVE  LiveFacts'
  BY <1>9, LiveKept DEF LeaseRunsOut, BackoffElapses, Create, workerVars, TypeOK
<1>10. ASSUME NEW hit \in SUBSET Rows, Requeue(hit) PROVE LiveFacts'
  BY <1>10, LiveKept DEF Requeue, workerVars
<1>11. CASE CancelPendingByRepository
  BY <1>11, LiveKept DEF CancelPendingByRepository, workerVars
<1>12. CASE SelectTerminal \/ DeleteFails
  BY <1>12, LiveKept DEF SelectTerminal, DeleteFails, workerVars, rowVars
<1>13. CASE DeleteSelected
  BY <1>13, LiveKept DEF DeleteSelected, workerVars
<1>14. CASE UNCHANGED vars
  BY <1>14, LiveKept DEF vars, workerVars, rowVars
<1> QED
  BY <1>1, <1>2, <1>3, <1>4, <1>5, <1>6, <1>7, <1>8, <1>9, <1>10, <1>11, <1>12,
     <1>13, <1>14
     DEF Next, WorkerStep, FaultStep, StoreStep, TimeStep, RetryDead, RetryAllDead,
         Batch

(* A row that loses late claims, and is not sent again, stays paid for if  *)
(* it gains no send or a fault pays for the one it gains.                  *)
LEMMA PaidKept ==
    ASSUME TypeOK, NEW r \in Rows, SendPaid(r),
           LateSends(r)' \subseteq LateSends(r),
           acked'[r] = acked[r],
           \/ Charged' = Charged /\ (SendLeft(r)' => SendLeft(r))
           \/ Charged' = Charged + 1
    PROVE  SendPaid(r)'
<1> DEFINE old == LateSends(r)  new == LateSends(r)'
<1>1. IsFiniteSet(old) /\ acked[r] \in Nat /\ Charged \in Nat
  BY DEF SendPaid, TypeOK, Charged
<1>2. IsFiniteSet(new) /\ Cardinality(new) <= Cardinality(old)
  BY <1>1, FS_Subset
<1>3. Cardinality(old) \in Nat /\ Cardinality(new) \in Nat
  BY <1>1, <1>2, FS_CardinalityType
<1>4. acked[r] + Cardinality(old) + (IF SendLeft(r) THEN 1 ELSE 0) <= 1 + Charged
  BY DEF SendPaid
<1> DEFINE left == SendLeft(r)  leftNow == SendLeft(r)'
<1>5. acked'[r] + Cardinality(new) + (IF leftNow THEN 1 ELSE 0) <= 1 + Charged'
  <2>1. CASE Charged' = Charged /\ (leftNow => left)
    <3> HIDE DEF old, new, left, leftNow
    <3>1. CASE left
      BY <1>1, <1>2, <1>3, <1>4, <2>1, <3>1 DEF left
    <3>2. CASE ~left
      BY <1>1, <1>2, <1>3, <1>4, <2>1, <3>2 DEF left
    <3> QED
      BY <3>1, <3>2
  <2>2. CASE Charged' = Charged + 1
    <3>1. acked[r] + Cardinality(old) <= 1 + Charged
      BY <1>1, <1>3, <1>4
    <3> HIDE DEF old, new, left, leftNow
    <3> QED
      BY <1>1, <1>2, <1>3, <2>2, <3>1
  <2> QED
    BY <2>1, <2>2
<1> QED
  BY <1>2, <1>5 DEF SendPaid

(* A step that touches no item, no count and settles rows only.            *)
LEMMA RowsSettled ==
    ASSUME TypeOK, SendsPaid, UNCHANGED <<inflight, acked, Charged>>,
           \A r \in Rows : status'[r] \in Queued \cup {"absent", "dead"} =>
                              status[r] \in Queued \cup {"absent", "dead"}
    PROVE  SendsPaid'
<1> SUFFICES ASSUME NEW r \in Rows PROVE SendPaid(r)'
  BY DEF SendsPaid
<1>1. LateSends(r)' = LateSends(r)
  BY DEF LateSends
<1>2. SendLeft(r)' => SendLeft(r)
  BY DEF SendLeft, LiveClaim
<1> QED
  BY <1>1, <1>2, PaidKept DEF SendsPaid

(* A fault that only forgets items pays for whatever they leave to do.     *)
LEMMA FaultPays ==
    ASSUME TypeOK, SendsPaid, inflight' \subseteq inflight, acked' = acked,
           Charged' = Charged + 1
    PROVE  SendsPaid'
<1> SUFFICES ASSUME NEW r \in Rows PROVE SendPaid(r)'
  BY DEF SendsPaid
<1>1. LateSends(r)' \subseteq LateSends(r)
  BY DEF LateSends
<1> QED
  BY <1>1, PaidKept DEF SendsPaid

(* A send moves one claim on: a late one uses up what its fault paid for,  *)
(* a live one the row's own send.                                          *)
LEMMA SendPays ==
    ASSUME TypeOK, LiveFacts, SendsPaid, NEW c \in inflight, Send(c) \/ AnswerLost(c)
    PROVE  SendsPaid'
<1>0. \A d \in inflight : d \in Claims /\ d.row \in Rows
  BY DEF TypeOK, Claims
<1>1. PICK outcome \in {"accepted"} \cup Failures, taken \in BOOLEAN :
         /\ Deliver(c, outcome, taken) /\ faults' = faults
         /\ outcome = "accepted" => taken
         /\ \/ unanswered' = unanswered + 1
            \/ unanswered' = unanswered /\ (taken => outcome = "accepted")
  BY Delivers
<1> DEFINE e == [c EXCEPT !.stage = outcome]
<1>2. e.row = c.row /\ e.lease = c.lease /\ e.stage = outcome
  BY <1>0 DEF Claims
<1>3. /\ inflight' = (inflight \ {c}) \cup {e}
      /\ acked' = IF taken THEN [acked EXCEPT ![c.row] = @ + 1] ELSE acked
      /\ UNCHANGED status /\ c.stage = "claimed" /\ outcome # "claimed"
  BY <1>1 DEF Deliver, rowVars, Failures
<1> HIDE DEF e
<1>3a. Charged \in Nat /\ (Charged' = Charged \/ Charged' = Charged + 1)
  BY <1>1 DEF Charged, TypeOK
<1>3b. taken /\ outcome # "accepted" => Charged' = Charged + 1
  BY <1>1 DEF Charged, TypeOK
<1>3c. ~taken => outcome # "accepted"
  BY <1>1
<1> SUFFICES ASSUME NEW r \in Rows PROVE SendPaid(r)'
  BY DEF SendsPaid
<1>4. SendPaid(r)
  BY DEF SendsPaid
<1>5. LateSends(r)' \subseteq LateSends(r)
  BY <1>2, <1>3 DEF LateSends
<1>6. CASE r # c.row \/ ~taken
  <2>1. acked'[r] = acked[r]
    BY <1>3, <1>6, <1>0 DEF TypeOK
  <2>2. SendLeft(r)' => SendLeft(r)
    BY <1>2, <1>3, <1>3c, <1>6 DEF SendLeft, LiveClaim
  <2> QED
    BY <1>4, <1>5, <1>3a, <2>1, <2>2, PaidKept
<1>7. CASE r = c.row /\ taken /\ outcome # "accepted"
  <2> DEFINE old == LateSends(r)  new == LateSends(r)'
             left == SendLeft(r)  leftNow == SendLeft(r)'
  <2>1. /\ IsFiniteSet(old) /\ acked[r] \in Nat /\ Charged \in Nat
        /\ acked'[r] = acked[r] + 1 /\ Charged' = Charged + 1
    BY <1>3, <1>3a, <1>3b, <1>4, <1>7 DEF SendPaid, TypeOK
  <2>2. IsFiniteSet(new) /\ Cardinality(new) <= Cardinality(old)
    BY <1>5, <2>1, FS_Subset
  <2>3. Cardinality(old) \in Nat /\ Cardinality(new) \in Nat
    BY <2>1, <2>2, FS_CardinalityType
  <2>4. leftNow => left
    BY <1>2, <1>3, <1>7 DEF SendLeft, LiveClaim
  <2>5. acked[r] + Cardinality(old) + (IF left THEN 1 ELSE 0) <= 1 + Charged
    BY <1>4 DEF SendPaid
  <2>6. acked'[r] + Cardinality(new) + (IF leftNow THEN 1 ELSE 0) <= 1 + Charged'
    <3> HIDE DEF old, new, left, leftNow
    <3>1. CASE left
      BY <2>1, <2>2, <2>3, <2>5, <3>1
    <3>2. CASE ~left
      BY <2>1, <2>2, <2>3, <2>4, <2>5, <3>2
    <3> QED
      BY <3>1, <3>2
  <2> QED
    BY <2>2, <2>6 DEF SendPaid
<1>8. CASE r = c.row /\ taken /\ outcome = "accepted"
  <2> DEFINE old == LateSends(r)  new == LateSends(r)'
  <2>1. IsFiniteSet(old) /\ acked[r] \in Nat /\ Charged \in Nat /\ acked'[r] = acked[r] + 1
    BY <1>3, <1>8, <1>4 DEF SendPaid, TypeOK, Charged
  <2>2. IsFiniteSet(new) /\ Cardinality(new) <= Cardinality(old)
    BY <1>5, <2>1, FS_Subset
  <2>3. Cardinality(old) \in Nat /\ Cardinality(new) \in Nat
    BY <2>1, <2>2, FS_CardinalityType
  <2>4. acked[r] + Cardinality(old) + (IF SendLeft(r) THEN 1 ELSE 0) <= 1 + Charged
    BY <1>4 DEF SendPaid
  <2>5. CASE c.lease = "live"
    <3>1. SendLeft(r)
      BY <1>3, <1>8, <2>5 DEF SendLeft, LiveClaim
    <3>2. \A d \in inflight' : LiveClaim(d, r)' => d = e
      BY <1>2, <1>3, <1>8, <2>5 DEF LiveClaim, LiveFacts, OneLiveClaim
    <3>3. LiveClaim(e, r)' /\ e \in inflight'
      BY <1>2, <1>3, <1>8, <2>5 DEF LiveClaim
    <3>4. ~SendLeft(r)'
      BY <1>2, <1>8, <3>2, <3>3 DEF SendLeft
    <3>5. acked[r] + Cardinality(old) + 1 <= 1 + Charged
      BY <2>4, <3>1
    <3>6. acked'[r] + Cardinality(new) + 0 <= 1 + Charged'
      <4> HIDE DEF old, new
      <4> QED
        BY <1>3a, <2>1, <2>2, <2>3, <3>5
    <3> QED
      BY <2>2, <3>4, <3>6 DEF SendPaid
  <2>6. CASE c.lease # "live"
    <3>1. c.lease = "lapsed"
      BY <1>0, <2>6 DEF Claims
    <3>2. c \in old
      BY <1>3, <1>8, <3>1 DEF LateSends
    <3>3. new \subseteq old \ {c}
      BY <1>2, <1>3, <1>8 DEF LateSends
    <3>4. IsFiniteSet(old \ {c}) /\ Cardinality(old \ {c}) = Cardinality(old) - 1
      BY <2>1, <3>2, FS_RemoveElement
    <3>5. Cardinality(new) <= Cardinality(old) - 1
      BY <3>3, <3>4, FS_Subset
    <3>6. SendLeft(r)' => SendLeft(r)
      BY <1>2, <1>3, <2>6 DEF SendLeft, LiveClaim
    <3> DEFINE left == SendLeft(r)  leftNow == SendLeft(r)'
    <3>7. acked'[r] + Cardinality(new) + (IF leftNow THEN 1 ELSE 0) <= 1 + Charged'
      <4> HIDE DEF old, new, left, leftNow
      <4>1. leftNow => left
        BY <3>6 DEF left, leftNow
      <4>2. acked[r] + Cardinality(old) + (IF left THEN 1 ELSE 0) <= 1 + Charged
        BY <2>4 DEF left, old
      <4>3. CASE left
        BY <1>3a, <2>1, <2>3, <3>5, <4>2, <4>3
      <4>4. CASE ~left
        BY <1>3a, <2>1, <2>3, <3>5, <4>1, <4>2, <4>4
      <4> QED
        BY <4>3, <4>4
    <3> QED
      BY <2>2, <3>7 DEF SendPaid
  <2> QED
    BY <2>5, <2>6
<1> QED
  BY <1>6, <1>7, <1>8

(* A mark that the row takes settles the row's only claim; a mark that it  *)
(* refuses is a late one's.                                                *)
LEMMA MarkPays ==
    ASSUME TypeOK, Items, LiveFacts, SendsPaid, NEW c \in inflight, Mark(c)
    PROVE  SendsPaid'
<1> USE DEF LiveClaim
<1>0. \A d \in inflight : d \in Claims /\ d.row \in Rows
  BY DEF TypeOK, Claims
<1>1. inflight' = inflight \ {c} /\ UNCHANGED <<acked, Charged>> /\ c.stage # "claimed"
  BY DEF Mark, historyVars, Charged
<1> SUFFICES ASSUME NEW r \in Rows PROVE SendPaid(r)'
  BY DEF SendsPaid
<1>2. SendPaid(r)
  BY DEF SendsPaid
<1>3. LateSends(r)' \subseteq LateSends(r)
  BY <1>1 DEF LateSends
<1>4. CASE MarkGuard(c) /\ WriteOutcome(c) /\ r # c.row
  <2>1. status'[r] = status[r]
    BY <1>0, <1>4 DEF WriteOutcome, SetSent, SetDead, SetFailed, TypeOK
  <2>2. SendLeft(r)' => SendLeft(r)
    BY <1>1, <1>4, <2>1 DEF SendLeft
  <2> QED
    BY <1>1, <1>2, <1>3, <2>2, PaidKept
<1>5. CASE MarkGuard(c) /\ WriteOutcome(c) /\ r = c.row
  <2>1. \A d \in inflight : LiveClaim(d, r) => d = c
    BY <1>5 DEF MarkGuard, Queued, Items, HolderUndisturbed, TokensUnique
  <2>2. CASE c.lease = "live" /\ c.stage = "accepted"
    <3>1. status'[r] = "sent"
      BY <1>0, <1>5, <2>2 DEF WriteOutcome, SetSent, Failures, TypeOK
    <3>2. ~SendLeft(r)'
      BY <1>1, <2>1, <3>1 DEF SendLeft, Queued
    <3> QED
      BY <1>1, <1>2, <1>3, <3>2, PaidKept
  <2>3. CASE c.lease = "live" /\ c.stage # "accepted"
    <3>1. SendLeft(r)
      BY <1>5, <2>3 DEF SendLeft
    <3> QED
      BY <1>1, <1>2, <1>3, <3>1, PaidKept
  <2>4. CASE c.lease # "live"
    <3>1. SendLeft(r)
      BY <1>5, <2>1, <2>4 DEF SendLeft, MarkGuard
    <3> QED
      BY <1>1, <1>2, <1>3, <3>1, PaidKept
  <2> QED
    BY <2>2, <2>3, <2>4
<1>6. CASE ~MarkGuard(c) /\ UNCHANGED rowVars
  <2>1. status' = status
    BY <1>6 DEF rowVars
  <2>2. c.lease = "live" => status[c.row] = "deleted"
    BY <1>6 DEF MarkGuard, Queued, Items, HolderUndisturbed
  <2>3. SendLeft(r)' => SendLeft(r)
    BY <1>1, <2>1, <2>2 DEF SendLeft, Queued
  <2> QED
    BY <1>1, <1>2, <1>3, <2>3, PaidKept
<1> QED
  BY <1>4, <1>5, <1>6 DEF Mark

(* A claim gives a row that may be sent once more its one live claim.      *)
LEMMA ClaimPays ==
    ASSUME TypeOK, Items, SendsPaid, NEW w \in Workers, NEW r \in Rows, ClaimOne(w, r)
    PROVE  SendsPaid'
<1> DEFINE item == [worker |-> w, row |-> r, token |-> NewToken,
                    attempt |-> attempts[r] + 1, stage |-> "claimed", lease |-> "live"]
<1>1. /\ ClaimRow(r) /\ inflight' = inflight \cup {item}
      /\ UNCHANGED <<acked, Charged>>
  BY DEF ClaimOne, historyVars, Charged
<1>2. item.row = r /\ item.lease = "live"
  OBVIOUS
<1> HIDE DEF item
<1>3. \A c \in inflight : ~LiveClaim(c, r)
  BY <1>1, ClaimableIsFree DEF LiveClaim
<1>4. status[r] \in Queued /\ \A s \in Rows \ {r} : status'[s] = status[s]
  BY <1>1 DEF ClaimRow, Claimable, TypeOK
<1> SUFFICES ASSUME NEW s \in Rows PROVE SendPaid(s)'
  BY DEF SendsPaid
<1>5. LateSends(s)' \subseteq LateSends(s)
  BY <1>1, <1>2 DEF LateSends
<1>6. SendLeft(s)' => SendLeft(s)
  <2>1. CASE s = r
    BY <1>3, <1>4, <2>1 DEF SendLeft
  <2>2. CASE s # r
    BY <1>1, <1>2, <1>4, <2>2 DEF SendLeft, LiveClaim
  <2> QED
    BY <2>1, <2>2
<1> QED
  BY <1>1, <1>5, <1>6, PaidKept DEF SendsPaid

(* A lease that runs out under a worker is a fault: it pays for the send   *)
(* the late claim may still make, or for the one that may follow it.       *)
LEMMA LapsePays ==
    ASSUME TypeOK, Items, LiveFacts, SendsPaid, NEW r \in Rows, LeaseRunsOutEarly(r)
    PROVE  SendsPaid'
<1> DEFINE late(c) == IF c.token = claimToken[r] THEN [c EXCEPT !.lease = "lapsed"] ELSE c
<1>0. \A c \in inflight : c \in Claims /\ c.row \in Rows
  BY DEF TypeOK, Claims
<1>1. /\ inflight' = {late(d) : d \in inflight} /\ lock[r] = "held"
      /\ Charged' = Charged + 1 /\ acked' = acked
  BY FaultCharges DEF LeaseRunsOutEarly
<1>2. PICK c \in inflight : c.token = claimToken[r]
  BY DEF LeaseRunsOutEarly, HeldByWorker
<1>3. c.row = r /\ c.lease = "live"
  BY <1>1, <1>2 DEF Items, TokensUnique, LiveFacts, HeldIsLive
<1>4. \A d \in inflight : d.token = claimToken[r] => d = c
  BY <1>2 DEF Items, TokensUnique
<1> DEFINE e == [c EXCEPT !.lease = "lapsed"]
<1>5. e.row = c.row /\ e.stage = c.stage
  BY <1>0 DEF Claims
<1>6. inflight' \subseteq inflight \cup {e}
  BY <1>1, <1>4
<1> HIDE DEF late, e
<1> SUFFICES ASSUME NEW s \in Rows PROVE SendPaid(s)'
  BY DEF SendsPaid
<1>7. SendPaid(s)
  BY DEF SendsPaid
<1>8. CASE s # r \/ c.stage # "claimed"
  <2>1. LateSends(s)' \subseteq LateSends(s)
    BY <1>3, <1>5, <1>6, <1>8 DEF LateSends
  <2> QED
    BY <1>1, <1>7, <2>1, PaidKept
<1>9. CASE s = r /\ c.stage = "claimed"
  <2> DEFINE old == LateSends(s)  new == LateSends(s)'
  <2>1. IsFiniteSet(old) /\ acked[s] \in Nat /\ Charged \in Nat
    BY <1>7 DEF SendPaid, TypeOK, Charged
  <2>2. IsFiniteSet(old \cup {e}) /\ Cardinality(old \cup {e}) <= Cardinality(old) + 1
    <3> HIDE DEF old
    <3>1. Cardinality(old) \in Nat
      BY <2>1, FS_CardinalityType
    <3>2. /\ IsFiniteSet(old \cup {e})
          /\ Cardinality(old \cup {e}) =
                IF e \in old THEN Cardinality(old) ELSE Cardinality(old) + 1
      BY <2>1, FS_AddElement
    <3> QED
      BY <3>1, <3>2
  <2>3. new \subseteq old \cup {e}
    BY <1>6 DEF LateSends
  <2>4. IsFiniteSet(new) /\ Cardinality(new) <= Cardinality(old \cup {e})
    BY <2>2, <2>3, FS_Subset
  <2>5. /\ Cardinality(old) \in Nat /\ Cardinality(new) \in Nat
        /\ Cardinality(old \cup {e}) \in Nat
    BY <2>1, <2>2, <2>4, FS_CardinalityType
  <2>6. SendLeft(s)
    BY <1>3, <1>9 DEF SendLeft, LiveClaim
  <2>7. acked[s] + Cardinality(old) + 1 <= 1 + Charged
    BY <1>7, <2>6 DEF SendPaid
  <2> DEFINE leftNow == SendLeft(s)'
  <2>8. acked'[s] + Cardinality(new) + (IF leftNow THEN 1 ELSE 0) <= 1 + Charged'
    <3> HIDE DEF old, new, leftNow
    <3> QED
      BY <1>1, <2>1, <2>2, <2>4, <2>5, <2>7
  <2> QED
    BY <2>4, <2>8 DEF SendPaid
<1> QED
  BY <1>8, <1>9

(* Every step of the outbox keeps the sends paid for.                      *)
LEMMA PaidStep ==
    ASSUME TypeOK, Items, LiveFacts, SendsPaid, [Next]_vars
    PROVE  SendsPaid'
<1>1. ASSUME NEW w \in Workers, NEW r \in Rows, ClaimOne(w, r) PROVE SendsPaid'
  BY <1>1, ClaimPays
<1>2. ASSUME NEW w \in Workers, StartDelivery(w) \/ EndTick(w) PROVE SendsPaid'
  BY <1>2, RowsSettled DEF StartDelivery, EndTick, rowVars, historyVars, Charged
<1>3. ASSUME NEW c \in inflight, Send(c) \/ AnswerLost(c) PROVE SendsPaid'
  BY <1>3, SendPays
<1>4. ASSUME NEW c \in inflight, Mark(c) PROVE SendsPaid'
  BY <1>4, MarkPays
<1>5. ASSUME NEW w \in Workers, ClaimFails(w) PROVE SendsPaid'
  BY <1>5, FaultPays, FaultCharges DEF ClaimFails
<1>6. ASSUME NEW w \in Workers, Crash(w) PROVE SendsPaid'
  BY <1>6, FaultPays, FaultCharges DEF Crash
<1>7. ASSUME NEW c \in inflight, MarkFails(c) PROVE SendsPaid'
  BY <1>7, FaultPays, FaultCharges DEF MarkFails
<1>8. ASSUME NEW r \in Rows, LeaseRunsOutEarly(r) PROVE SendsPaid'
  BY <1>8, LapsePays
<1>9. ASSUME NEW r \in Rows, LeaseRunsOut(r) \/ BackoffElapses(r) PROVE SendsPaid'
  BY <1>9, RowsSettled DEF LeaseRunsOut, BackoffElapses, workerVars, historyVars, Charged
<1>10. ASSUME NEW r \in Rows, Create(r) PROVE SendsPaid'
  BY <1>10, RowsSettled DEF Create, workerVars, historyVars, Charged, TypeOK
<1>11. ASSUME NEW hit \in SUBSET {r \in Rows : status[r] = "dead"}, Requeue(hit)
       PROVE  SendsPaid'
  BY <1>11, RowsSettled DEF Requeue, workerVars, historyVars, Charged
<1>12. CASE CancelPendingByRepository
  BY <1>12, RowsSettled DEF CancelPendingByRepository, workerVars, historyVars, Charged, Queued
<1>13. CASE SelectTerminal \/ DeleteFails
  BY <1>13, RowsSettled DEF SelectTerminal, DeleteFails, rowVars, workerVars, historyVars, Charged
<1>14. CASE DeleteSelected
  BY <1>14, RowsSettled DEF DeleteSelected, workerVars, historyVars, Charged, Queued
<1>15. CASE UNCHANGED vars
  BY <1>15, RowsSettled DEF vars, rowVars, workerVars, historyVars, Charged
<1> QED
  BY <1>1, <1>2, <1>3, <1>4, <1>5, <1>6, <1>7, <1>8, <1>9, <1>10, <1>11, <1>12,
     <1>13, <1>14, <1>15
     DEF Next, WorkerStep, FaultStep, StoreStep, TimeStep, RetryDead, RetryAllDead,
         Batch

(* A notification is accepted more than once only as often as faults       *)
(* happened and answers were lost: crashes, failed claims and marks, leases*)
(* that ran out under a worker, acceptances the worker took for failures.  *)
THEOREM DuplicatesArePaid == Spec => []DuplicatesNeedFaults
<1>1. Init => LiveFacts /\ SendsPaid
  <2> SUFFICES ASSUME Init, NEW r \in Rows PROVE LiveFacts /\ SendPaid(r)
    BY DEF SendsPaid, LiveFacts, OneLiveClaim, HeldIsLive, Init
  <2>1. LateSends(r) = {} /\ acked[r] = 0 /\ Charged = 0
    BY DEF Init, LateSends, Charged
  <2>2. LiveFacts
    BY DEF Init, LiveFacts, OneLiveClaim, HeldIsLive
  <2> QED
    BY <2>1, <2>2, FS_EmptySet DEF SendPaid
<1>2. IInv /\ LiveFacts /\ SendsPaid /\ [Next]_vars => (LiveFacts /\ SendsPaid)'
  BY LiveStep, PaidStep DEF IInv, Items
<1>3. IInv /\ SendsPaid => DuplicatesNeedFaults
  <2> SUFFICES ASSUME IInv, SendsPaid, NEW r \in Rows PROVE acked[r] <= 1 + Charged
    BY DEF DuplicatesNeedFaults
  <2>1. /\ IsFiniteSet(LateSends(r)) /\ acked[r] \in Nat /\ Charged \in Nat
        /\ acked[r] + Cardinality(LateSends(r)) + (IF SendLeft(r) THEN 1 ELSE 0)
              <= 1 + Charged
    BY DEF SendsPaid, SendPaid, IInv, TypeOK, Charged
  <2>2. Cardinality(LateSends(r)) \in Nat
    BY <2>1, FS_CardinalityType
  <2> QED
    BY <2>1, <2>2
<1> QED
  BY <1>1, <1>2, <1>3, Inductive, PTL DEF Spec

-----------------------------------------------------------------------------
(* The outbox implements the notification queue, for every number of rows, *)
(* workers, channels, attempts and faults: each step of Outbox.tla, seen   *)
(* through phaseBar and acceptedBar, is a step of NotificationQueue.tla or *)
(* leaves the queue alone.                                                 *)

(* An item in memory is of a row that was created.                         *)
ItemsExist == \A c \in inflight : status[c.row] # "absent"

QInv == IInv /\ ItemsExist

-----------------------------------------------------------------------------
(* No operation brings a row back to its unborn state.                     *)
LEMMA NeverUnborn ==
    ASSUME TypeOK, [Next]_vars, NEW r \in Rows, status[r] # "absent"
    PROVE  status'[r] # "absent"
<1>1. ASSUME NEW s \in Rows, ClaimRow(s) PROVE status'[r] # "absent"
  BY <1>1 DEF ClaimRow, TypeOK
<1>2. ASSUME NEW c \in inflight, WriteOutcome(c) PROVE status'[r] # "absent"
  BY <1>2 DEF WriteOutcome, SetSent, SetDead, SetFailed, TypeOK
<1>3. ASSUME NEW hit, Requeue(hit) PROVE status'[r] # "absent"
  BY <1>3 DEF Requeue, TypeOK
<1>4. ASSUME NEW s \in Rows, Create(s) PROVE status'[r] # "absent"
  BY <1>4 DEF Create, TypeOK
<1>5. CASE CancelPendingByRepository \/ DeleteSelected
  BY <1>5 DEF CancelPendingByRepository, DeleteSelected, TypeOK
<1>6. CASE UNCHANGED status
  BY <1>6
<1>7. CASE \E w \in Workers : ClaimFails(w)
  BY <1>1, <1>6, <1>7 DEF ClaimFails, rowVars
<1>8. CASE \E w \in Workers : WorkerStep(w)
  <2> SUFFICES ASSUME NEW w \in Workers, WorkerStep(w) PROVE status'[r] # "absent"
    BY <1>8
  <2>1. CASE \E s \in Rows : ClaimOne(w, s)
    BY <2>1, <1>1 DEF ClaimOne
  <2>2. CASE StartDelivery(w) \/ EndTick(w)
    BY <2>2 DEF StartDelivery, EndTick, rowVars
  <2>3. ASSUME NEW c \in inflight, Send(c) \/ Mark(c) PROVE status'[r] # "absent"
    BY <2>3, <1>2 DEF Send, Deliver, Mark, rowVars
  <2> QED
    BY <2>1, <2>2, <2>3 DEF WorkerStep, Batch
<1>9. CASE \E w \in Workers : Crash(w)
  BY <1>6, <1>9 DEF Crash, rowVars
<1>10. CASE \E c \in inflight : MarkFails(c) \/ AnswerLost(c)
  BY <1>6, <1>10 DEF MarkFails, AnswerLost, Deliver, rowVars
<1>11. CASE TimeStep \/ \E s \in Rows : LeaseRunsOutEarly(s)
  BY <1>6, <1>11 DEF TimeStep, LeaseRunsOut, BackoffElapses, LeaseRunsOutEarly
<1>12. CASE StoreStep
  BY <1>3, <1>4, <1>5, <1>6, <1>12
     DEF StoreStep, RetryDead, RetryAllDead, SelectTerminal, DeleteFails, rowVars
<1>13. CASE UNCHANGED vars
  BY <1>6, <1>13 DEF vars, rowVars
<1> QED
  BY <1>7, <1>8, <1>9, <1>10, <1>11, <1>12, <1>13 DEF Next, FaultStep

(* Every item after a step continues an item or is of a row just claimed.  *)
LEMMA ItemsExistStep == ASSUME TypeOK, ItemsExist, [Next]_vars PROVE ItemsExist'
<1> SUFFICES ASSUME NEW d \in inflight',
                    d.row \in Rows, status[d.row] = "absent" PROVE FALSE
  <2>1. \A d \in inflight' : d.row \in Rows
    BY TypeStep DEF TypeOK, Claims
  <2> QED
    BY <2>1, NeverUnborn DEF ItemsExist
<1>1. CASE \E c \in inflight : d.row = c.row
  BY <1>1 DEF ItemsExist
<1>2. ASSUME NEW w \in Workers, NEW r \in Rows, ClaimOne(w, r) PROVE FALSE
  <2>1. d \in inflight \/ d.row = r
    BY <1>2 DEF ClaimOne
  <2>2. status[r] # "absent"
    BY <1>2 DEF ClaimOne, ClaimRow, Claimable, Queued
  <2> QED
    BY <1>1, <2>1, <2>2
<1>3. ASSUME NEW c \in inflight, Send(c) \/ AnswerLost(c) PROVE FALSE
  <2>1. PICK o \in {"accepted"} \cup Failures :
           inflight' = (inflight \ {c}) \cup {[c EXCEPT !.stage = o]}
    BY <1>3, Delivers DEF Deliver
  <2>2. [c EXCEPT !.stage = o].row = c.row
    BY DEF TypeOK, Claims
  <2> QED
    BY <1>1, <2>1, <2>2
<1>4. ASSUME NEW r \in Rows, LeaseRunsOutEarly(r) PROVE FALSE
  <2>1. \A c \in inflight : [c EXCEPT !.lease = "lapsed"].row = c.row
    BY DEF TypeOK, Claims
  <2>2. \A e \in inflight' : \E c \in inflight : e.row = c.row
    BY <1>4, <2>1 DEF LeaseRunsOutEarly
  <2> QED
    BY <1>1, <2>2
<1>5. CASE d \in inflight
  BY <1>1, <1>5
<1>6. ASSUME NEW w \in Workers,
             StartDelivery(w) \/ EndTick(w) \/ ClaimFails(w) \/ Crash(w)
      PROVE  FALSE
  BY <1>5, <1>6 DEF StartDelivery, EndTick, ClaimFails, Crash
<1>7. ASSUME NEW c \in inflight, Mark(c) \/ MarkFails(c) PROVE FALSE
  BY <1>5, <1>7 DEF Mark, MarkFails
<1>8. CASE StoreStep
  BY <1>5, <1>8 DEF StoreStep, Create, RetryDead, RetryAllDead, Requeue,
     CancelPendingByRepository, SelectTerminal, DeleteSelected, DeleteFails, workerVars
<1>9. CASE TimeStep \/ UNCHANGED vars
  BY <1>5, <1>9 DEF TimeStep, LeaseRunsOut, BackoffElapses, vars, workerVars
<1> QED
  BY <1>2, <1>3, <1>4, <1>6, <1>7, <1>8, <1>9 DEF Next, WorkerStep, FaultStep, Batch

LEMMA QInvariant == Spec => []QInv
<1>1. Init => ItemsExist
  BY DEF Init, ItemsExist
<1>2. IInv /\ ItemsExist /\ [Next]_vars => ItemsExist'
  BY ItemsExistStep DEF IInv
<1> QED
  BY <1>1, <1>2, Inductive, PTL DEF Spec, QInv

-----------------------------------------------------------------------------
(* What a step of the queue asks of the mapped variables.                  *)
LEMMA QueueStutters ==
    ASSUME \A r \in Rows : phaseBar'[r] = phaseBar[r], UNCHANGED <<acked, selected>>
    PROVE  UNCHANGED Queue!vars
BY DEF phaseBar, acceptedBar, Queue!vars

LEMMA QueueBecomes ==
    ASSUME NEW S, NEW p, UNCHANGED <<acked, selected>>,
           \A r \in Rows : phaseBar'[r] = IF r \in S THEN p ELSE phaseBar[r]
    PROVE  Queue!Become(S, p)
BY DEF phaseBar, acceptedBar, Queue!Become

LEMMA QueueInit == Init => Queue!Init
BY DEF Init, Queue!Init, phaseBar, acceptedBar, Queued

LEMMA ClaimStutters ==
    ASSUME TypeOK, NEW r \in Rows, ClaimRow(r), UNCHANGED <<acked, selected>>
    PROVE  UNCHANGED Queue!vars
<1>1. \A s \in Rows : phaseBar'[s] = phaseBar[s]
  BY DEF TypeOK, ClaimRow, Claimable, Queued, phaseBar
<1> QED
  BY <1>1, QueueStutters

(* A send the channel takes is an Accept, answered or not; a refused one is*)
(* invisible.                                                              *)
LEMMA SendImplements ==
    ASSUME TypeOK, ItemsExist, NEW c \in inflight, Send(c) \/ AnswerLost(c)
    PROVE  [Queue!Next]_(Queue!vars)
<1>1. c.row \in Rows /\ status[c.row] # "absent"
  BY DEF TypeOK, Claims, ItemsExist
<1>2. UNCHANGED <<status, selected>>
  BY Delivers DEF Deliver, rowVars
<1>3. UNCHANGED phaseBar
  BY <1>2 DEF phaseBar
<1>4. CASE UNCHANGED acked
  BY <1>2, <1>3, <1>4, QueueStutters
<1>5. CASE acked' = [acked EXCEPT ![c.row] = @ + 1]
  <2>1. acceptedBar' = acceptedBar \cup {c.row}
    BY <1>1, <1>5 DEF TypeOK, acceptedBar
  <2>2. c.row \notin Queue!In("absent")
    BY <1>1 DEF Queue!In, phaseBar, Queued
  <2>3. Queue!Accept(c.row)
    BY <1>2, <1>3, <2>1, <2>2 DEF Queue!Accept
  <2> QED
    BY <1>1, <2>3 DEF Queue!Next
<1> QED
  BY <1>4, <1>5, Delivers DEF Deliver

(* A mark that still owns its row records, gives up or waits; a stale one  *)
(* is invisible.                                                           *)
LEMMA MarkImplements ==
    ASSUME IInv, NEW c \in inflight, Mark(c)
    PROVE  [Queue!Next]_(Queue!vars)
<1>0. TypeOK /\ c.row \in Rows
  BY DEF IInv, TypeOK, Claims
<1>1. UNCHANGED <<acked, selected>>
  BY DEF Mark, historyVars
<1>2. CASE UNCHANGED rowVars
  BY <1>1, <1>2, QueueStutters DEF rowVars, phaseBar
<1>3. ASSUME MarkGuard(c), c.stage = "accepted", SetSent(c.row)
      PROVE  [Queue!Next]_(Queue!vars)
  <2>1. \A r \in Rows : phaseBar'[r] = IF r \in {c.row} THEN "sent" ELSE phaseBar[r]
    BY <1>0, <1>3 DEF SetSent, TypeOK, phaseBar, Queued
  <2>2. Queue!Become({c.row}, "sent")
    BY <1>1, <2>1, QueueBecomes
  <2>3. c.row \in Queue!In("queued") \cap acceptedBar
    BY <1>0, <1>3 DEF IInv, AcceptedCounted, MarkGuard, Queue!In, phaseBar, acceptedBar
  <2> QED
    BY <1>0, <2>2, <2>3 DEF Queue!Next, Queue!RecordSent
<1>4. ASSUME MarkGuard(c), SetDead(c.row, c.stage) PROVE [Queue!Next]_(Queue!vars)
  <2>1. \A r \in Rows : phaseBar'[r] = IF r \in {c.row} THEN "dead" ELSE phaseBar[r]
    BY <1>0, <1>4 DEF SetDead, TypeOK, phaseBar, Queued
  <2>2. Queue!Become({c.row}, "dead")
    BY <1>1, <2>1, QueueBecomes
  <2>3. c.row \in Queue!In("queued")
    BY <1>0, <1>4 DEF MarkGuard, Queue!In, phaseBar
  <2> QED
    BY <1>0, <2>2, <2>3 DEF Queue!Next, Queue!GiveUp
<1>5. ASSUME MarkGuard(c), SetFailed(c.row, c.stage) PROVE [Queue!Next]_(Queue!vars)
  <2>1. \A r \in Rows : phaseBar'[r] = phaseBar[r]
    BY <1>0, <1>5 DEF MarkGuard, SetFailed, TypeOK, phaseBar, Queued
  <2> QED
    BY <1>1, <2>1, QueueStutters
<1> QED
  BY <1>2, <1>3, <1>4, <1>5 DEF Mark, WriteOutcome

LEMMA RequeueImplements ==
    ASSUME TypeOK, NEW hit \in SUBSET {r \in Rows : status[r] = "dead"}, Requeue(hit)
    PROVE  [Queue!Next]_(Queue!vars)
<1>1. UNCHANGED <<acked, selected>>
  BY DEF Requeue, historyVars
<1>2. \A r \in Rows : phaseBar'[r] = IF r \in hit THEN "queued" ELSE phaseBar[r]
  BY DEF Requeue, TypeOK, phaseBar, Queued
<1>3. Queue!Become(hit, "queued")
  BY <1>1, <1>2, QueueBecomes
<1>4. hit \subseteq Queue!In("dead")
  BY DEF Queue!In, phaseBar, Queued
<1> QED
  BY <1>3, <1>4 DEF Queue!Next, Queue!Requeue

LEMMA CreateImplements ==
    ASSUME TypeOK, NEW r \in Rows, Create(r)
    PROVE  [Queue!Next]_(Queue!vars)
<1>1. UNCHANGED <<acked, selected>>
  BY DEF Create, historyVars
<1>2. r \in Queue!In("absent")
  BY DEF Create, Queue!In, phaseBar, Queued
<1>3. PICK s \in {"pending", "suppressed"} : status' = [status EXCEPT ![r] = s]
  BY DEF Create
<1>4. CASE s = "pending"
  <2>1. \A q \in Rows : phaseBar'[q] = IF q \in {r} THEN "queued" ELSE phaseBar[q]
    BY <1>3, <1>4 DEF TypeOK, phaseBar, Queued
  <2> QED
    BY <1>1, <1>2, <2>1, QueueBecomes DEF Queue!Next, Queue!Enqueue
<1>5. CASE s = "suppressed"
  <2>1. \A q \in Rows : phaseBar'[q] = IF q \in {r} THEN "suppressed" ELSE phaseBar[q]
    BY <1>3, <1>5 DEF TypeOK, phaseBar, Queued
  <2> QED
    BY <1>1, <1>2, <2>1, QueueBecomes DEF Queue!Next, Queue!Enqueue
<1> QED
  BY <1>3, <1>4, <1>5

LEMMA CancelImplements ==
    ASSUME TypeOK, CancelPendingByRepository
    PROVE  [Queue!Next]_(Queue!vars)
<1> DEFINE hit == {r \in ReleaseRows : status[r] = "pending"}
<1>1. UNCHANGED <<acked, selected>>
  BY DEF CancelPendingByRepository, historyVars
<1>2. \A r \in Rows : phaseBar'[r] = IF r \in hit THEN "cancelled" ELSE phaseBar[r]
  BY DEF CancelPendingByRepository, TypeOK, phaseBar, Queued
<1>3. hit \in SUBSET Rows /\ hit \subseteq Queue!In("queued")
  BY ReleaseAssumption DEF Queue!In, phaseBar, Queued
<1> HIDE DEF hit
<1>4. Queue!Become(hit, "cancelled")
  BY <1>1, <1>2, QueueBecomes
<1> QED
  BY <1>3, <1>4 DEF Queue!Next, Queue!Cancel

(* The retention job dooms what is terminal when it reads, and deletes what*)
(* it doomed.                                                              *)
LEMMA PurgeImplements ==
    ASSUME TypeOK, SelectTerminal \/ DeleteSelected \/ DeleteFails
    PROVE  [Queue!Next]_(Queue!vars)
<1>1. CASE SelectTerminal \/ DeleteFails
  <2>1. UNCHANGED <<phaseBar, acceptedBar>>
    BY <1>1 DEF SelectTerminal, DeleteFails, rowVars, historyVars, phaseBar, acceptedBar
  <2>2. \A r \in selected' : r \in Rows /\ phaseBar[r] \in Queue!Terminal
    BY <1>1 DEF SelectTerminal, DeleteFails, phaseBar, Queue!Terminal, Terminal, Queued
  <2>3. Queue!Doom(selected') /\ selected' \in SUBSET Rows
    BY <2>1, <2>2 DEF Queue!Doom
  <2> QED
    BY <2>3 DEF Queue!Next
<1>2. CASE DeleteSelected
  <2>1. UNCHANGED acceptedBar
    BY <1>2 DEF DeleteSelected, historyVars, acceptedBar
  <2>2. phaseBar' = [r \in Rows |-> IF r \in selected THEN "deleted" ELSE phaseBar[r]]
    BY <1>2 DEF DeleteSelected, phaseBar, Queued
  <2>3. Queue!Delete
    BY <1>2, <2>1, <2>2 DEF Queue!Delete, DeleteSelected
  <2> QED
    BY <2>3 DEF Queue!Next
<1> QED
  BY <1>1, <1>2

LEMMA StepImplements == ASSUME QInv, [Next]_vars PROVE [Queue!Next]_(Queue!vars)
<1>0. IInv /\ TypeOK /\ ItemsExist
  BY DEF QInv, IInv
<1>1. CASE UNCHANGED <<status, acked, selected>>
  BY <1>1, QueueStutters DEF phaseBar
<1>2. ASSUME NEW w \in Workers, NEW r \in Rows, ClaimOne(w, r)
      PROVE  [Queue!Next]_(Queue!vars)
  BY <1>0, <1>2, ClaimStutters DEF ClaimOne, historyVars
<1>3. ASSUME NEW w \in Workers, ClaimFails(w)
      PROVE  [Queue!Next]_(Queue!vars)
  BY <1>0, <1>1, <1>3, ClaimStutters DEF ClaimFails, rowVars
<1>4. ASSUME NEW c \in inflight, Send(c) \/ AnswerLost(c) \/ Mark(c)
      PROVE  [Queue!Next]_(Queue!vars)
  BY <1>0, <1>4, SendImplements, MarkImplements
<1>5. ASSUME NEW w \in Workers, StartDelivery(w) \/ EndTick(w) \/ Crash(w)
      PROVE  [Queue!Next]_(Queue!vars)
  BY <1>1, <1>5 DEF StartDelivery, EndTick, Crash, rowVars, historyVars
<1>6. CASE \E c \in inflight : MarkFails(c)
  BY <1>1, <1>6 DEF MarkFails, rowVars
<1>7. CASE TimeStep \/ \E r \in Rows : LeaseRunsOutEarly(r)
  BY <1>1, <1>7 DEF TimeStep, LeaseRunsOut, BackoffElapses, LeaseRunsOutEarly, historyVars
<1>8. ASSUME NEW r \in Rows, RetryDead(r) PROVE [Queue!Next]_(Queue!vars)
  BY <1>0, <1>8, RequeueImplements DEF RetryDead
<1>9. ASSUME NEW chans, RetryAllDead(chans) PROVE [Queue!Next]_(Queue!vars)
  BY <1>0, <1>9, RequeueImplements DEF RetryAllDead
<1>10. CASE StoreStep
  BY <1>0, <1>8, <1>9, <1>10, CreateImplements, CancelImplements, PurgeImplements
     DEF StoreStep
<1>11. CASE UNCHANGED vars
  BY <1>1, <1>11 DEF vars, rowVars, historyVars
<1> QED
  BY <1>2, <1>3, <1>4, <1>5, <1>6, <1>7, <1>10, <1>11
     DEF Next, WorkerStep, FaultStep, Batch

(* Every behaviour of the outbox, with any number of replicas, crashes,    *)
(* stale marks and operator retries, is one the notification queue allows. *)
THEOREM OutboxImplementsQueue == Spec => ImplementsQueue
<1>1. QInv /\ [Next]_vars => [Queue!Next]_(Queue!vars)
  BY StepImplements
<1> QED
  BY <1>1, QueueInit, QInvariant, PTL DEF Spec, Queue!Spec, ImplementsQueue
=============================================================================
