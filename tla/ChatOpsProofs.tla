---------------------------- MODULE ChatOpsProofs ----------------------------
(***************************************************************************)
(* Proofs about ChatOps, for any number of clicks, tokens, keys and faults:*)
(* a token has one holder, what a click settled for good stays settled,    *)
(* and an action takes effect once per receipt key.  Last, the operator    *)
(* actions implement the abstract OperatorAction, which is reliable.       *)
(***************************************************************************)
EXTENDS ChatOps, TLAPS

Busy == Checking \cup Executing

(* A click past the claim knows its key, and its token if it has one to    *)
(* check or to give back.                                                  *)
Known ==
    \A c \in Clicks :
        /\ pc[c] \in Busy => key[c] \in Keys
        /\ pc[c] \in {"bind", "release"} => held[c] \in Tokens

(* A receipt key has one executor, and its pending receipt is written.     *)
OneExecutor ==
    \A c \in Clicks : pc[c] \in Executing =>
        /\ receipt[key[c]] = "pending"
        /\ \A d \in Clicks : pc[d] \in Executing /\ key[d] = key[c] => d = c

(* Without a receipt, and until its executor calls, a key has no effect    *)
(* but those a server error hid.                                           *)
Unsent ==
    /\ \A k \in Keys : receipt[k] = "none" => effects[k] <= doubtful[k]
    /\ \A c \in Clicks : pc[c] \in {"prelude", "call", "drop"} =>
        effects[key[c]] <= doubtful[key[c]]

(* A click whose answer is final keeps its token from every other click.   *)
Final == {"executed", "already_done", "pending", "indeterminate",
      "guardrail_denied"}

Settled ==
    \A c \in Clicks : answer[c] \in Final =>
        /\ pc[c] = "done"
        /\ held[c] \in Tokens =>
            /\ token[held[c]] # "fresh"
            /\ \A d \in Clicks : held[d] = held[c] /\ d # c =>
                pc[d] = "done" /\ answer[d] \notin Final

(* A succeeded receipt stands for an effect.                               *)
Proven ==
    /\ \A k \in Keys : receipt[k] = "succeeded" => effects[k] >= 1
    /\ \A c \in Clicks : pc[c] = "book" => effects[key[c]] >= 1
    /\ \A c \in Clicks :
        answer[c] \in {"executed", "already_done"} =>
            key[c] \in Keys /\ pc[c] = "done"

(* While nothing fails, a consumed token is in hand or was spent, and a     *)
(* pending receipt has its executor: NothingStranded, click by click.       *)
TokensTied ==
    faults = 0 => \A t \in Tokens : token[t] = "consumed" =>
        \E c \in Clicks : held[c] = t /\ (pc[c] \in Busy \/ answer[c] \in Final)

ReceiptsTied ==
    faults = 0 => \A k \in Keys : receipt[k] = "pending" =>
        \E c \in Clicks : key[c] = k /\ pc[c] \in Executing

(* A click not handled yet has no token.                                   *)
Fresh == \A c \in Clicks : pc[c] = "new" => held[c] = None

IInv == /\ TypeOK /\ Known /\ Fresh
        /\ OneHolder /\ OneExecutor /\ Unsent /\ EffectOnce /\ Settled
        /\ Proven /\ AnswersTrue /\ TokensTied /\ ReceiptsTied

-----------------------------------------------------------------------------
(* The initial state satisfies the invariant.                              *)
LEMMA Base == Init => IInv
  BY ChatOpsAssumption
  DEF Init, IInv, TypeOK, Known, Fresh, OneHolder, OneExecutor, Unsent,
      EffectOnce,
      Settled, Proven, AnswersTrue, TokensTied, ReceiptsTied, Holds, Busy, Checking,
      Executing, Final, TokenStates, ReceiptStates, Answers

(* Types, and what each stage of a click knows.                            *)
LEMMA TypeStep ==
  ASSUME TypeOK, Known, Fresh, [Next]_vars
  PROVE  (TypeOK /\ Known /\ Fresh)'
<1> USE ChatOpsAssumption DEF TypeOK, Known, Fresh, Busy, Checking, Executing,
      TokenStates, ReceiptStates, Answers, rows, history, click, Goto, Tell,
      Finish, GiveBack, Fault, Available, Take, Recorded, Apply
<1>1. ASSUME NEW c \in Clicks, NEW t \in Tokens, NEW a \in Actors, Consume(c, t, a)
       PROVE (TypeOK /\ Known /\ Fresh)'
  BY <1>1 DEF Consume
<1>2. ASSUME NEW c \in Clicks, NEW t \in Tokens, NEW a \in Actors, Refuse(c, t, a)
       PROVE (TypeOK /\ Known /\ Fresh)'
  BY <1>2 DEF Refuse
<1>3. ASSUME NEW c \in Clicks, NEW t \in Tokens, NEW a \in Actors, ConsumeFails(c, t, a)
       PROVE (TypeOK /\ Known /\ Fresh)'
  BY <1>3 DEF ConsumeFails
<1>4. ASSUME NEW c \in Clicks, CheckActor(c) PROVE (TypeOK /\ Known /\ Fresh)'
  BY <1>4 DEF CheckActor
<1>5. ASSUME NEW c \in Clicks, GuardPass(c) PROVE (TypeOK /\ Known /\ Fresh)'
  BY <1>5 DEF GuardPass
<1>6. ASSUME NEW c \in Clicks, GuardDeny(c) PROVE (TypeOK /\ Known /\ Fresh)'
  BY <1>6 DEF GuardDeny
<1>7. ASSUME NEW c \in Clicks, GuardUnavailable(c)
       PROVE (TypeOK /\ Known /\ Fresh)'
  BY <1>7 DEF GuardUnavailable
<1>8. ASSUME NEW c \in Clicks, LoadFails(c) PROVE (TypeOK /\ Known /\ Fresh)'
  BY <1>8 DEF LoadFails
<1>9. ASSUME NEW c \in Clicks, CreateReceipt(c)
       PROVE (TypeOK /\ Known /\ Fresh)'
  BY <1>9 DEF CreateReceipt
<1>10. ASSUME NEW c \in Clicks, FindReceipt(c)
       PROVE (TypeOK /\ Known /\ Fresh)'
  BY <1>10 DEF FindReceipt
<1>11. ASSUME NEW c \in Clicks, ReceiptFails(c)
       PROVE (TypeOK /\ Known /\ Fresh)'
  BY <1>11 DEF ReceiptFails
<1>12. ASSUME NEW c \in Clicks, Prelude(c) PROVE (TypeOK /\ Known /\ Fresh)'
  BY <1>12 DEF Prelude
<1>13. ASSUME NEW c \in Clicks, Call(c) PROVE (TypeOK /\ Known /\ Fresh)'
  BY <1>13 DEF Call
<1>14. ASSUME NEW c \in Clicks, CallRefused(c)
       PROVE (TypeOK /\ Known /\ Fresh)'
  BY <1>14 DEF CallRefused
<1>15. ASSUME NEW c \in Clicks, CallLost(c) PROVE (TypeOK /\ Known /\ Fresh)'
  BY <1>15 DEF CallLost
<1>16. ASSUME NEW c \in Clicks, Book(c) PROVE (TypeOK /\ Known /\ Fresh)'
  BY <1>16 DEF Book
<1>17. ASSUME NEW c \in Clicks, Doubt(c) PROVE (TypeOK /\ Known /\ Fresh)'
  BY <1>17 DEF Doubt
<1>18. ASSUME NEW c \in Clicks, RecordFails(c)
       PROVE (TypeOK /\ Known /\ Fresh)'
  BY <1>18 DEF RecordFails
<1>19. ASSUME NEW c \in Clicks, Drop(c) PROVE (TypeOK /\ Known /\ Fresh)'
  BY <1>19 DEF Drop
<1>20. ASSUME NEW c \in Clicks, Release(c) PROVE (TypeOK /\ Known /\ Fresh)'
  BY <1>20 DEF Release
<1>21. ASSUME NEW c \in Clicks, ReleaseFails(c)
       PROVE (TypeOK /\ Known /\ Fresh)'
  BY <1>21 DEF ReleaseFails
<1>22. ASSUME NEW c \in Clicks, Crash(c) PROVE (TypeOK /\ Known /\ Fresh)'
  BY <1>22 DEF Crash
<1>23. ASSUME NEW c \in Clicks, NEW k \in WebKeys, WebAction(c, k)
       PROVE (TypeOK /\ Known /\ Fresh)'
  BY <1>23 DEF WebAction
<1>24. ASSUME NEW t \in Tokens, Expire(t) PROVE (TypeOK /\ Known /\ Fresh)'
  BY <1>24 DEF Expire
<1>25. ASSUME NEW t \in Tokens, SweepClaim(t) PROVE (TypeOK /\ Known /\ Fresh)'
  BY <1>25 DEF SweepClaim
<1>26. ASSUME NEW t \in Tokens, SweepToken(t) PROVE (TypeOK /\ Known /\ Fresh)'
  BY <1>26 DEF SweepToken
<1>27. CASE UNCHANGED vars
  BY <1>27 DEF vars
<1> QED
  BY <1>1, <1>2, <1>3, <1>4, <1>5, <1>6, <1>7, <1>8, <1>9, <1>10, <1>11, <1>12,
      <1>13, <1>14, <1>15, <1>16, <1>17, <1>18, <1>19, <1>20, <1>21, <1>22,
      <1>23, <1>24, <1>25, <1>26, <1>27
  DEF Next, Press, Handle, Check, Execute

(* Only Consume hands out a token, and only to a click when no other has it.*)
LEMMA HolderStep ==
  ASSUME IInv, [Next]_vars
  PROVE  OneHolder'
<1> USE ChatOpsAssumption DEF IInv, TypeOK, Known, Fresh, OneHolder, Holds,
      Busy, Checking, Executing, TokenStates, rows, history, click, Goto, Tell,
      Finish, GiveBack, Fault, Available, Take, Recorded, Apply
<1>1. ASSUME NEW c \in Clicks, NEW t \in Tokens, NEW a \in Actors, Consume(c, t, a)
       PROVE OneHolder'
  BY <1>1 DEF Consume
<1>2. ASSUME NEW c \in Clicks, NEW t \in Tokens, NEW a \in Actors, Refuse(c, t, a)
       PROVE OneHolder'
  BY <1>2 DEF Refuse
<1>3. ASSUME NEW c \in Clicks, NEW t \in Tokens, NEW a \in Actors, ConsumeFails(c, t, a)
       PROVE OneHolder'
  BY <1>3 DEF ConsumeFails
<1>4. ASSUME NEW c \in Clicks, CheckActor(c) PROVE OneHolder'
  BY <1>4 DEF CheckActor
<1>5. ASSUME NEW c \in Clicks, GuardPass(c) PROVE OneHolder'
  BY <1>5 DEF GuardPass
<1>6. ASSUME NEW c \in Clicks, GuardDeny(c) PROVE OneHolder'
  BY <1>6 DEF GuardDeny
<1>7. ASSUME NEW c \in Clicks, GuardUnavailable(c) PROVE OneHolder'
  BY <1>7 DEF GuardUnavailable
<1>8. ASSUME NEW c \in Clicks, LoadFails(c) PROVE OneHolder'
  BY <1>8 DEF LoadFails
<1>9. ASSUME NEW c \in Clicks, CreateReceipt(c) PROVE OneHolder'
  BY <1>9 DEF CreateReceipt
<1>10. ASSUME NEW c \in Clicks, FindReceipt(c) PROVE OneHolder'
  BY <1>10 DEF FindReceipt
<1>11. ASSUME NEW c \in Clicks, ReceiptFails(c) PROVE OneHolder'
  BY <1>11 DEF ReceiptFails
<1>12. ASSUME NEW c \in Clicks, Prelude(c) PROVE OneHolder'
  BY <1>12 DEF Prelude
<1>13. ASSUME NEW c \in Clicks, Call(c) PROVE OneHolder'
  BY <1>13 DEF Call
<1>14. ASSUME NEW c \in Clicks, CallRefused(c) PROVE OneHolder'
  BY <1>14 DEF CallRefused
<1>15. ASSUME NEW c \in Clicks, CallLost(c) PROVE OneHolder'
  BY <1>15 DEF CallLost
<1>16. ASSUME NEW c \in Clicks, Book(c) PROVE OneHolder'
  BY <1>16 DEF Book
<1>17. ASSUME NEW c \in Clicks, Doubt(c) PROVE OneHolder'
  BY <1>17 DEF Doubt
<1>18. ASSUME NEW c \in Clicks, RecordFails(c) PROVE OneHolder'
  BY <1>18 DEF RecordFails
<1>19. ASSUME NEW c \in Clicks, Drop(c) PROVE OneHolder'
  BY <1>19 DEF Drop
<1>20. ASSUME NEW c \in Clicks, Release(c) PROVE OneHolder'
  BY <1>20 DEF Release
<1>21. ASSUME NEW c \in Clicks, ReleaseFails(c) PROVE OneHolder'
  BY <1>21 DEF ReleaseFails
<1>22. ASSUME NEW c \in Clicks, Crash(c) PROVE OneHolder'
  BY <1>22 DEF Crash
<1>23. ASSUME NEW c \in Clicks, NEW k \in WebKeys, WebAction(c, k)
       PROVE OneHolder'
  BY <1>23 DEF WebAction
<1>24. ASSUME NEW t \in Tokens, Expire(t) PROVE OneHolder'
  BY <1>24 DEF Expire
<1>25. ASSUME NEW t \in Tokens, SweepClaim(t) PROVE OneHolder'
  BY <1>25 DEF SweepClaim
<1>26. ASSUME NEW t \in Tokens, SweepToken(t) PROVE OneHolder'
  BY <1>26 DEF SweepToken
<1>27. CASE UNCHANGED vars
  BY <1>27 DEF vars
<1> QED
  BY <1>1, <1>2, <1>3, <1>4, <1>5, <1>6, <1>7, <1>8, <1>9, <1>10, <1>11, <1>12,
      <1>13, <1>14, <1>15, <1>16, <1>17, <1>18, <1>19, <1>20, <1>21, <1>22,
      <1>23, <1>24, <1>25, <1>26, <1>27
  DEF Next, Press, Handle, Check, Execute

(* Receipts, executors and effects move together.                          *)
LEMMA LedgerStep ==
  ASSUME IInv, [Next]_vars
  PROVE  (OneExecutor /\ Unsent /\ EffectOnce)'
<1> USE ChatOpsAssumption DEF IInv, TypeOK, Known, OneExecutor, Unsent,
      EffectOnce, Busy, Checking, Executing, ReceiptStates, rows, history,
      click, Goto, Tell, Finish, GiveBack, Fault, Available, Take, Recorded,
      Apply
<1>1. ASSUME NEW c \in Clicks, NEW t \in Tokens, NEW a \in Actors, Consume(c, t, a)
       PROVE (OneExecutor /\ Unsent /\ EffectOnce)'
  BY <1>1 DEF Consume
<1>2. ASSUME NEW c \in Clicks, NEW t \in Tokens, NEW a \in Actors, Refuse(c, t, a)
       PROVE (OneExecutor /\ Unsent /\ EffectOnce)'
  BY <1>2 DEF Refuse
<1>3. ASSUME NEW c \in Clicks, NEW t \in Tokens, NEW a \in Actors, ConsumeFails(c, t, a)
       PROVE (OneExecutor /\ Unsent /\ EffectOnce)'
  BY <1>3 DEF ConsumeFails
<1>4. ASSUME NEW c \in Clicks, CheckActor(c)
       PROVE (OneExecutor /\ Unsent /\ EffectOnce)'
  BY <1>4 DEF CheckActor
<1>5. ASSUME NEW c \in Clicks, GuardPass(c)
       PROVE (OneExecutor /\ Unsent /\ EffectOnce)'
  BY <1>5 DEF GuardPass
<1>6. ASSUME NEW c \in Clicks, GuardDeny(c)
       PROVE (OneExecutor /\ Unsent /\ EffectOnce)'
  BY <1>6 DEF GuardDeny
<1>7. ASSUME NEW c \in Clicks, GuardUnavailable(c)
       PROVE (OneExecutor /\ Unsent /\ EffectOnce)'
  BY <1>7 DEF GuardUnavailable
<1>8. ASSUME NEW c \in Clicks, LoadFails(c)
       PROVE (OneExecutor /\ Unsent /\ EffectOnce)'
  BY <1>8 DEF LoadFails
<1>9. ASSUME NEW c \in Clicks, CreateReceipt(c)
       PROVE (OneExecutor /\ Unsent /\ EffectOnce)'
  BY <1>9 DEF CreateReceipt
<1>10. ASSUME NEW c \in Clicks, FindReceipt(c)
       PROVE (OneExecutor /\ Unsent /\ EffectOnce)'
  BY <1>10 DEF FindReceipt
<1>11. ASSUME NEW c \in Clicks, ReceiptFails(c)
       PROVE (OneExecutor /\ Unsent /\ EffectOnce)'
  BY <1>11 DEF ReceiptFails
<1>12. ASSUME NEW c \in Clicks, Prelude(c)
       PROVE (OneExecutor /\ Unsent /\ EffectOnce)'
  BY <1>12 DEF Prelude
<1>13. ASSUME NEW c \in Clicks, Call(c)
       PROVE (OneExecutor /\ Unsent /\ EffectOnce)'
  BY <1>13 DEF Call
<1>14. ASSUME NEW c \in Clicks, CallRefused(c)
       PROVE (OneExecutor /\ Unsent /\ EffectOnce)'
  BY <1>14, SMTT(30) DEF CallRefused
<1>15. ASSUME NEW c \in Clicks, CallLost(c)
       PROVE (OneExecutor /\ Unsent /\ EffectOnce)'
  BY <1>15 DEF CallLost
<1>16. ASSUME NEW c \in Clicks, Book(c)
       PROVE (OneExecutor /\ Unsent /\ EffectOnce)'
  BY <1>16 DEF Book
<1>17. ASSUME NEW c \in Clicks, Doubt(c)
       PROVE (OneExecutor /\ Unsent /\ EffectOnce)'
  BY <1>17 DEF Doubt
<1>18. ASSUME NEW c \in Clicks, RecordFails(c)
       PROVE (OneExecutor /\ Unsent /\ EffectOnce)'
  BY <1>18 DEF RecordFails
<1>19. ASSUME NEW c \in Clicks, Drop(c)
       PROVE (OneExecutor /\ Unsent /\ EffectOnce)'
  BY <1>19 DEF Drop
<1>20. ASSUME NEW c \in Clicks, Release(c)
       PROVE (OneExecutor /\ Unsent /\ EffectOnce)'
  BY <1>20 DEF Release
<1>21. ASSUME NEW c \in Clicks, ReleaseFails(c)
       PROVE (OneExecutor /\ Unsent /\ EffectOnce)'
  BY <1>21 DEF ReleaseFails
<1>22. ASSUME NEW c \in Clicks, Crash(c)
       PROVE (OneExecutor /\ Unsent /\ EffectOnce)'
  BY <1>22 DEF Crash
<1>23. ASSUME NEW c \in Clicks, NEW k \in WebKeys, WebAction(c, k)
       PROVE (OneExecutor /\ Unsent /\ EffectOnce)'
  BY <1>23 DEF WebAction
<1>24. ASSUME NEW t \in Tokens, Expire(t)
       PROVE (OneExecutor /\ Unsent /\ EffectOnce)'
  BY <1>24 DEF Expire
<1>25. ASSUME NEW t \in Tokens, SweepClaim(t)
       PROVE (OneExecutor /\ Unsent /\ EffectOnce)'
  BY <1>25 DEF SweepClaim
<1>26. ASSUME NEW t \in Tokens, SweepToken(t)
       PROVE (OneExecutor /\ Unsent /\ EffectOnce)'
  BY <1>26 DEF SweepToken
<1>27. CASE UNCHANGED vars
  BY <1>27 DEF vars
<1> QED
  BY <1>1, <1>2, <1>3, <1>4, <1>5, <1>6, <1>7, <1>8, <1>9, <1>10, <1>11, <1>12,
      <1>13, <1>14, <1>15, <1>16, <1>17, <1>18, <1>19, <1>20, <1>21, <1>22,
      <1>23, <1>24, <1>25, <1>26, <1>27
  DEF Next, Press, Handle, Check, Execute

(* A final answer leaves its token with no other click.                    *)
LEMMA SettledStep ==
  ASSUME IInv, [Next]_vars
  PROVE  Settled'
<1> USE ChatOpsAssumption DEF IInv, TypeOK, Known, Fresh, OneHolder, Holds,
      Settled, Final, Busy, Checking, Executing, TokenStates, rows, history,
      click, Goto, Tell, Finish, GiveBack, Fault, Available, Take, Recorded,
      Apply
<1>1. ASSUME NEW c \in Clicks, NEW t \in Tokens, NEW a \in Actors, Consume(c, t, a)
       PROVE Settled'
  BY <1>1 DEF Consume
<1>2. ASSUME NEW c \in Clicks, NEW t \in Tokens, NEW a \in Actors, Refuse(c, t, a)
       PROVE Settled'
  BY <1>2 DEF Refuse
<1>3. ASSUME NEW c \in Clicks, NEW t \in Tokens, NEW a \in Actors, ConsumeFails(c, t, a)
       PROVE Settled'
  BY <1>3 DEF ConsumeFails
<1>4. ASSUME NEW c \in Clicks, CheckActor(c) PROVE Settled'
  BY <1>4 DEF CheckActor
<1>5. ASSUME NEW c \in Clicks, GuardPass(c) PROVE Settled'
  BY <1>5 DEF GuardPass
<1>6. ASSUME NEW c \in Clicks, GuardDeny(c) PROVE Settled'
  BY <1>6 DEF GuardDeny
<1>7. ASSUME NEW c \in Clicks, GuardUnavailable(c) PROVE Settled'
  BY <1>7 DEF GuardUnavailable
<1>8. ASSUME NEW c \in Clicks, LoadFails(c) PROVE Settled'
  BY <1>8 DEF LoadFails
<1>9. ASSUME NEW c \in Clicks, CreateReceipt(c) PROVE Settled'
  BY <1>9 DEF CreateReceipt
<1>10. ASSUME NEW c \in Clicks, FindReceipt(c) PROVE Settled'
  BY <1>10 DEF FindReceipt
<1>11. ASSUME NEW c \in Clicks, ReceiptFails(c) PROVE Settled'
  BY <1>11 DEF ReceiptFails
<1>12. ASSUME NEW c \in Clicks, Prelude(c) PROVE Settled'
  BY <1>12 DEF Prelude
<1>13. ASSUME NEW c \in Clicks, Call(c) PROVE Settled'
  BY <1>13 DEF Call
<1>14. ASSUME NEW c \in Clicks, CallRefused(c) PROVE Settled'
  BY <1>14 DEF CallRefused
<1>15. ASSUME NEW c \in Clicks, CallLost(c) PROVE Settled'
  BY <1>15 DEF CallLost
<1>16. ASSUME NEW c \in Clicks, Book(c) PROVE Settled'
  BY <1>16 DEF Book
<1>17. ASSUME NEW c \in Clicks, Doubt(c) PROVE Settled'
  BY <1>17 DEF Doubt
<1>18. ASSUME NEW c \in Clicks, RecordFails(c) PROVE Settled'
  BY <1>18 DEF RecordFails
<1>19. ASSUME NEW c \in Clicks, Drop(c) PROVE Settled'
  BY <1>19 DEF Drop
<1>20. ASSUME NEW c \in Clicks, Release(c) PROVE Settled'
  BY <1>20 DEF Release
<1>21. ASSUME NEW c \in Clicks, ReleaseFails(c) PROVE Settled'
  BY <1>21 DEF ReleaseFails
<1>22. ASSUME NEW c \in Clicks, Crash(c) PROVE Settled'
  BY <1>22 DEF Crash
<1>23. ASSUME NEW c \in Clicks, NEW k \in WebKeys, WebAction(c, k)
       PROVE Settled'
  BY <1>23 DEF WebAction
<1>24. ASSUME NEW t \in Tokens, Expire(t) PROVE Settled'
  BY <1>24 DEF Expire
<1>25. ASSUME NEW t \in Tokens, SweepClaim(t) PROVE Settled'
  BY <1>25 DEF SweepClaim
<1>26. ASSUME NEW t \in Tokens, SweepToken(t) PROVE Settled'
  BY <1>26 DEF SweepToken
<1>27. CASE UNCHANGED vars
  BY <1>27 DEF vars
<1> QED
  BY <1>1, <1>2, <1>3, <1>4, <1>5, <1>6, <1>7, <1>8, <1>9, <1>10, <1>11, <1>12,
      <1>13, <1>14, <1>15, <1>16, <1>17, <1>18, <1>19, <1>20, <1>21, <1>22,
      <1>23, <1>24, <1>25, <1>26, <1>27
  DEF Next, Press, Handle, Check, Execute

(* Success is answered after the effect.                                   *)
LEMMA AnswerStep ==
  ASSUME IInv, [Next]_vars
  PROVE  (Proven /\ AnswersTrue)'
<1> USE ChatOpsAssumption DEF IInv, TypeOK, Known, OneExecutor, Proven,
      AnswersTrue, Busy, Checking, Executing, ReceiptStates, rows, history,
      click, Goto, Tell, Finish, GiveBack, Fault, Available, Take, Recorded,
      Apply
<1>1. ASSUME NEW c \in Clicks, NEW t \in Tokens, NEW a \in Actors, Consume(c, t, a)
       PROVE (Proven /\ AnswersTrue)'
  BY <1>1 DEF Consume
<1>2. ASSUME NEW c \in Clicks, NEW t \in Tokens, NEW a \in Actors, Refuse(c, t, a)
       PROVE (Proven /\ AnswersTrue)'
  BY <1>2 DEF Refuse
<1>3. ASSUME NEW c \in Clicks, NEW t \in Tokens, NEW a \in Actors, ConsumeFails(c, t, a)
       PROVE (Proven /\ AnswersTrue)'
  BY <1>3 DEF ConsumeFails
<1>4. ASSUME NEW c \in Clicks, CheckActor(c) PROVE (Proven /\ AnswersTrue)'
  BY <1>4 DEF CheckActor
<1>5. ASSUME NEW c \in Clicks, GuardPass(c) PROVE (Proven /\ AnswersTrue)'
  BY <1>5 DEF GuardPass
<1>6. ASSUME NEW c \in Clicks, GuardDeny(c) PROVE (Proven /\ AnswersTrue)'
  BY <1>6 DEF GuardDeny
<1>7. ASSUME NEW c \in Clicks, GuardUnavailable(c)
       PROVE (Proven /\ AnswersTrue)'
  BY <1>7 DEF GuardUnavailable
<1>8. ASSUME NEW c \in Clicks, LoadFails(c) PROVE (Proven /\ AnswersTrue)'
  BY <1>8 DEF LoadFails
<1>9. ASSUME NEW c \in Clicks, CreateReceipt(c) PROVE (Proven /\ AnswersTrue)'
  BY <1>9 DEF CreateReceipt
<1>10. ASSUME NEW c \in Clicks, FindReceipt(c) PROVE (Proven /\ AnswersTrue)'
  BY <1>10 DEF FindReceipt
<1>11. ASSUME NEW c \in Clicks, ReceiptFails(c) PROVE (Proven /\ AnswersTrue)'
  BY <1>11 DEF ReceiptFails
<1>12. ASSUME NEW c \in Clicks, Prelude(c) PROVE (Proven /\ AnswersTrue)'
  BY <1>12 DEF Prelude
<1>13. ASSUME NEW c \in Clicks, Call(c) PROVE (Proven /\ AnswersTrue)'
  BY <1>13 DEF Call
<1>14. ASSUME NEW c \in Clicks, CallRefused(c) PROVE (Proven /\ AnswersTrue)'
  BY <1>14 DEF CallRefused
<1>15. ASSUME NEW c \in Clicks, CallLost(c) PROVE (Proven /\ AnswersTrue)'
  BY <1>15 DEF CallLost
<1>16. ASSUME NEW c \in Clicks, Book(c) PROVE (Proven /\ AnswersTrue)'
  BY <1>16 DEF Book
<1>17. ASSUME NEW c \in Clicks, Doubt(c) PROVE (Proven /\ AnswersTrue)'
  BY <1>17 DEF Doubt
<1>18. ASSUME NEW c \in Clicks, RecordFails(c) PROVE (Proven /\ AnswersTrue)'
  BY <1>18 DEF RecordFails
<1>19. ASSUME NEW c \in Clicks, Drop(c) PROVE (Proven /\ AnswersTrue)'
  BY <1>19 DEF Drop
<1>20. ASSUME NEW c \in Clicks, Release(c) PROVE (Proven /\ AnswersTrue)'
  BY <1>20 DEF Release
<1>21. ASSUME NEW c \in Clicks, ReleaseFails(c) PROVE (Proven /\ AnswersTrue)'
  BY <1>21 DEF ReleaseFails
<1>22. ASSUME NEW c \in Clicks, Crash(c) PROVE (Proven /\ AnswersTrue)'
  BY <1>22 DEF Crash
<1>23. ASSUME NEW c \in Clicks, NEW k \in WebKeys, WebAction(c, k)
       PROVE (Proven /\ AnswersTrue)'
  BY <1>23 DEF WebAction
<1>24. ASSUME NEW t \in Tokens, Expire(t) PROVE (Proven /\ AnswersTrue)'
  BY <1>24 DEF Expire
<1>25. ASSUME NEW t \in Tokens, SweepClaim(t) PROVE (Proven /\ AnswersTrue)'
  BY <1>25 DEF SweepClaim
<1>26. ASSUME NEW t \in Tokens, SweepToken(t) PROVE (Proven /\ AnswersTrue)'
  BY <1>26 DEF SweepToken
<1>27. CASE UNCHANGED vars
  BY <1>27 DEF vars
<1> QED
  BY <1>1, <1>2, <1>3, <1>4, <1>5, <1>6, <1>7, <1>8, <1>9, <1>10, <1>11, <1>12,
      <1>13, <1>14, <1>15, <1>16, <1>17, <1>18, <1>19, <1>20, <1>21, <1>22,
      <1>23, <1>24, <1>25, <1>26, <1>27
  DEF Next, Press, Handle, Check, Execute

(* While nothing fails, a token leaves its holder freed or spent, and a     *)
(* pending receipt has its executor.                                       *)
LEMMA StrandStep ==
  ASSUME IInv, [Next]_vars
  PROVE  (TokensTied /\ ReceiptsTied)'
<1> USE ChatOpsAssumption DEF IInv, TypeOK, Known, Fresh, OneExecutor, Settled,
      TokensTied, ReceiptsTied, Final, Holds, Busy, Checking, Executing, TokenStates,
      ReceiptStates, rows, history, click, Goto, Tell, Finish, GiveBack, Fault,
      Available, Take, Recorded, Apply
<1>1. ASSUME NEW c \in Clicks, NEW t \in Tokens, NEW a \in Actors, Consume(c, t, a)
       PROVE (TokensTied /\ ReceiptsTied)'
  BY <1>1 DEF Consume
<1>2. ASSUME NEW c \in Clicks, NEW t \in Tokens, NEW a \in Actors, Refuse(c, t, a)
       PROVE (TokensTied /\ ReceiptsTied)'
  BY <1>2, SMTT(30) DEF Refuse
<1>3. ASSUME NEW c \in Clicks, NEW t \in Tokens, NEW a \in Actors, ConsumeFails(c, t, a)
       PROVE (TokensTied /\ ReceiptsTied)'
  BY <1>3 DEF ConsumeFails
<1>4. ASSUME NEW c \in Clicks, CheckActor(c)
       PROVE (TokensTied /\ ReceiptsTied)'
  BY <1>4 DEF CheckActor
<1>5. ASSUME NEW c \in Clicks, GuardPass(c) PROVE (TokensTied /\ ReceiptsTied)'
  BY <1>5 DEF GuardPass
<1>6. ASSUME NEW c \in Clicks, GuardDeny(c) PROVE (TokensTied /\ ReceiptsTied)'
  BY <1>6 DEF GuardDeny
<1>7. ASSUME NEW c \in Clicks, GuardUnavailable(c)
       PROVE (TokensTied /\ ReceiptsTied)'
  BY <1>7 DEF GuardUnavailable
<1>8. ASSUME NEW c \in Clicks, LoadFails(c) PROVE (TokensTied /\ ReceiptsTied)'
  BY <1>8 DEF LoadFails
<1>9. ASSUME NEW c \in Clicks, CreateReceipt(c)
       PROVE (TokensTied /\ ReceiptsTied)'
  BY <1>9 DEF CreateReceipt
<1>10. ASSUME NEW c \in Clicks, FindReceipt(c)
       PROVE (TokensTied /\ ReceiptsTied)'
  BY <1>10 DEF FindReceipt
<1>11. ASSUME NEW c \in Clicks, ReceiptFails(c)
       PROVE (TokensTied /\ ReceiptsTied)'
  BY <1>11 DEF ReceiptFails
<1>12. ASSUME NEW c \in Clicks, Prelude(c) PROVE (TokensTied /\ ReceiptsTied)'
  BY <1>12 DEF Prelude
<1>13. ASSUME NEW c \in Clicks, Call(c) PROVE (TokensTied /\ ReceiptsTied)'
  BY <1>13 DEF Call
<1>14. ASSUME NEW c \in Clicks, CallRefused(c)
       PROVE (TokensTied /\ ReceiptsTied)'
  BY <1>14 DEF CallRefused
<1>15. ASSUME NEW c \in Clicks, CallLost(c) PROVE (TokensTied /\ ReceiptsTied)'
  BY <1>15 DEF CallLost
<1>16. ASSUME NEW c \in Clicks, Book(c) PROVE (TokensTied /\ ReceiptsTied)'
  BY <1>16 DEF Book
<1>17. ASSUME NEW c \in Clicks, Doubt(c) PROVE (TokensTied /\ ReceiptsTied)'
  BY <1>17 DEF Doubt
<1>18. ASSUME NEW c \in Clicks, RecordFails(c)
       PROVE (TokensTied /\ ReceiptsTied)'
  BY <1>18 DEF RecordFails
<1>19. ASSUME NEW c \in Clicks, Drop(c) PROVE (TokensTied /\ ReceiptsTied)'
  BY <1>19 DEF Drop
<1>20. ASSUME NEW c \in Clicks, Release(c) PROVE (TokensTied /\ ReceiptsTied)'
  BY <1>20 DEF Release
<1>21. ASSUME NEW c \in Clicks, ReleaseFails(c)
       PROVE (TokensTied /\ ReceiptsTied)'
  BY <1>21 DEF ReleaseFails
<1>22. ASSUME NEW c \in Clicks, Crash(c) PROVE (TokensTied /\ ReceiptsTied)'
  BY <1>22 DEF Crash
<1>23. ASSUME NEW c \in Clicks, NEW k \in WebKeys, WebAction(c, k)
       PROVE (TokensTied /\ ReceiptsTied)'
  BY <1>23 DEF WebAction
<1>24. ASSUME NEW t \in Tokens, Expire(t) PROVE (TokensTied /\ ReceiptsTied)'
  BY <1>24 DEF Expire
<1>25. ASSUME NEW t \in Tokens, SweepClaim(t)
       PROVE (TokensTied /\ ReceiptsTied)'
  BY <1>25 DEF SweepClaim
<1>26. ASSUME NEW t \in Tokens, SweepToken(t)
       PROVE (TokensTied /\ ReceiptsTied)'
  BY <1>26 DEF SweepToken
<1>27. CASE UNCHANGED vars
  BY <1>27 DEF vars
<1> QED
  BY <1>1, <1>2, <1>3, <1>4, <1>5, <1>6, <1>7, <1>8, <1>9, <1>10, <1>11, <1>12,
      <1>13, <1>14, <1>15, <1>16, <1>17, <1>18, <1>19, <1>20, <1>21, <1>22,
      <1>23, <1>24, <1>25, <1>26, <1>27
  DEF Next, Press, Handle, Check, Execute

(* Every step keeps the invariant.                                         *)
LEMMA Step == IInv /\ [Next]_vars => IInv'
  BY TypeStep, HolderStep, LedgerStep, SettledStep, AnswerStep, StrandStep
  DEF IInv

(* All of it together is inductive.                                        *)
THEOREM Inductive == Spec => []IInv
<1>1. Init => IInv
  BY Base
<1>2. IInv /\ [Next]_vars => IInv'
  BY Step
<1> QED
  BY <1>1, <1>2, PTL DEF Spec

(* Every variable of the operator actions keeps its type.                  *)
THEOREM ChatOpsTypeCorrect == Spec => []TypeOK
  BY Inductive, PTL DEF IInv

(* Two clicks never hold one token at a time, and the row of a held token  *)
(* stays marked (the claim and release transactions of chatops/token.go).  *)
THEOREM OneHolderAlways == Spec => []OneHolder
  BY Inductive, PTL DEF IInv

(* An action takes effect once per receipt key, server errors excepted     *)
(* (ExecuteWithReceiptDetail in sideeffect/side_effects.go).               *)
THEOREM EffectOnceAlways == Spec => []EffectOnce
  BY Inductive, PTL DEF IInv

(* While nothing fails no token is burnt without cause and no receipt left *)
(* pending (the releases of chatops/service.go and guardrail.go, the       *)
(* deletion of a refused call's receipt in sideeffect/side_effects.go).    *)
THEOREM NothingStrandedAlways == Spec => []NothingStranded
<1>1. IInv => NothingStranded
  BY DEF IInv, TokensTied, ReceiptsTied, NothingStranded, Holds, Busy, Final
<1> QED
  BY <1>1, Inductive, PTL

(* "Executed" and "already done" are only said of effects that took place. *)
THEOREM AnswersTrueAlways == Spec => []AnswersTrue
  BY Inductive, PTL DEF IInv

(* A token the guardrail refused is spent for every other click            *)
(* (checkGuardrail in chatops/guardrail.go, Consume in chatops/token.go).  *)
THEOREM DeniedIsFinalAlways == Spec => []DeniedIsFinal
<1>1. IInv => DeniedIsFinal
  BY DEF IInv, TypeOK, Settled, DeniedIsFinal, Final, Holds, Checking,
      Executing
<1> QED
  BY <1>1, Inductive, PTL

-----------------------------------------------------------------------------
(* The refinement of OperatorAction.  Beside IInv it needs that server      *)
(* errors are counted with the effects they hid, and that whoever is about  *)
(* to book an effect has had one that nothing hid.                          *)
Counted ==
    /\ \A k \in Keys : doubtful[k] <= effects[k]
    /\ \A c \in Clicks : pc[c] = "book" => effects[key[c]] > doubtful[key[c]]

LEMMA CountedInit == Init => Counted
  BY DEF Init, Counted

LEMMA CountedStep == IInv /\ Counted /\ [Next]_vars => Counted'
<1> SUFFICES ASSUME IInv, Counted, [Next]_vars PROVE Counted'
  OBVIOUS
<1>1. ASSUME UNCHANGED history,
             \A c \in Clicks : pc'[c] = "book" => pc[c] = "book" /\ key'[c] = key[c]
      PROVE  Counted'
  BY <1>1 DEF Counted, history
<1>2. ASSUME NEW c \in Clicks, Call(c) \/ CallRefused(c) \/ CallLost(c) \/ Crash(c)
      PROVE  Counted'
  <2>1. key[c] \in Keys /\ key' = key
    BY <1>2 DEF IInv, Known, Busy, Call, CallRefused, CallLost, Crash, Checking, Executing, click
  <2>2. /\ effects \in [Keys -> Nat] /\ doubtful \in [Keys -> Nat] /\ pc \in [Clicks -> {"new", "done"} \cup Busy]
    BY DEF IInv, TypeOK, Busy
  <2>3. \A k \in Keys : k # key[c] => effects'[k] = effects[k] /\ doubtful'[k] = doubtful[k]
    BY <1>2, <2>1, <2>2 DEF Call, CallRefused, CallLost, Crash, Apply, history
  <2>4. /\ doubtful'[key[c]] <= effects'[key[c]]
        /\ pc'[c] = "book" => doubtful'[key[c]] < effects'[key[c]]
    <3>1. doubtful[key[c]] <= effects[key[c]]
      BY <2>1 DEF Counted
    <3> QED
      BY <1>2, <2>1, <2>2, <3>1
      DEF Call, CallRefused, CallLost, Crash, Apply, history, Goto
  <2>5. ASSUME NEW d \in Clicks, d # c, pc'[d] = "book"
        PROVE  doubtful'[key[d]] < effects'[key[d]]
    <3>1. pc[d] = "book"
      BY <1>2, <2>2, <2>5 DEF Call, CallRefused, CallLost, Crash, Goto
    <3>2. key[d] \in Keys /\ doubtful[key[d]] < effects[key[d]]
      BY <3>1 DEF IInv, Known, Busy, Executing, Counted
    <3>3. CASE key[d] # key[c]
      BY <2>3, <3>2, <3>3
    <3>4. CASE key[d] = key[c]
      <4>1. pc[c] \notin Executing
        BY <2>5, <3>1, <3>4 DEF IInv, OneExecutor, Executing
      <4>2. Crash(c) /\ UNCHANGED history
        BY <1>2, <4>1 DEF Call, CallRefused, CallLost, Crash, Executing, history
      <4> QED
        BY <3>2, <4>2 DEF history
    <3> QED
      BY <3>3, <3>4
  <2> QED
    BY <2>1, <2>3, <2>4, <2>5 DEF Counted
<1>3. CASE \A c \in Clicks : ~(Call(c) \/ CallRefused(c) \/ CallLost(c) \/ Crash(c))
  <2>1. UNCHANGED history
    BY <1>3 DEF Next, Press, Consume, Refuse, ConsumeFails, Handle, Check, Execute, CheckActor,
       GuardPass, GuardDeny, GuardUnavailable, LoadFails, CreateReceipt, FindReceipt,
       ReceiptFails, Prelude, Book, Doubt, RecordFails, Drop, Release, ReleaseFails,
       WebAction, Expire, SweepClaim, SweepToken, vars, history
  <2>2. ASSUME NEW c \in Clicks, pc'[c] = "book"
        PROVE  pc[c] = "book" /\ key'[c] = key[c]
    BY <1>3, <2>2 DEF IInv, TypeOK, Next, Press, Consume, Refuse, ConsumeFails, Handle, Check, Execute,
       CheckActor, GuardPass, GuardDeny, GuardUnavailable, LoadFails, CreateReceipt, FindReceipt,
       ReceiptFails, Prelude, Book, Doubt, RecordFails, Drop, Release, ReleaseFails,
       WebAction, Expire, SweepClaim, SweepToken, vars, click, Goto, Finish, GiveBack
  <2> QED
    BY <1>1, <2>1, <2>2
<1> QED
  BY <1>2, <1>3

(* What a step does to what operators were told.                            *)
LEMMA AssuredKept ==
  ASSUME \A d \in Clicks : Assured(d)' <=> Assured(d),
         \A d \in Clicks : Assured(d) => key'[d] = key[d]
  PROVE  assuredNow' = assuredNow
  BY DEF assuredNow

LEMMA AssuredGrows ==
  ASSUME NEW c \in Clicks, Assured(c)', key' = key,
         \A d \in Clicks : d # c => answer'[d] = answer[d]
  PROVE  assuredNow' = assuredNow \cup {key[c]}
<1>1. \A d \in Clicks : Assured(d)' <=> Assured(d) \/ d = c
  <2>1. ASSUME NEW d \in Clicks, d # c PROVE Assured(d)' <=> Assured(d)
    BY <2>1 DEF Assured
  <2>2. CASE Assured(c)
    BY <2>1, <2>2
  <2> QED
    BY <2>1
<1> QED
  BY <1>1 DEF assuredNow

(* A click tells nobody that the action was done.                           *)
LEMMA NobodyAssured ==
  ASSUME IInv, NEW c \in Clicks, pc[c] # "done",
         answer'[c] \notin {"executed", "already_done"},
         \A d \in Clicks : d # c => answer'[d] = answer[d] /\ key'[d] = key[d]
  PROVE  assuredNow' = assuredNow
<1>1. ~Assured(c)
  BY DEF IInv, Proven, Assured
<1>2. \A d \in Clicks : Assured(d)' <=> Assured(d)
  BY <1>1 DEF Assured
<1>3. \A d \in Clicks : Assured(d) => key'[d] = key[d]
  BY <1>1
<1> QED
  BY <1>2, <1>3, AssuredKept

(* The steps that leave receipts and effects alone.                         *)
LEMMA QuietStep ==
  ASSUME IInv, UNCHANGED <<receipt, history>>, assuredNow' = assuredNow
  PROVE  UNCHANGED Action!vars
  BY DEF Action!vars, history

LEMMA QuietClick ==
  ASSUME IInv, NEW c \in Clicks,
         \/ \E t \in Tokens, a \in Actors : Press(c, t, a)
         \/ Check(c) \/ LoadFails(c) \/ Prelude(c) \/ Release(c) \/ ReleaseFails(c)
         \/ RecordFails(c)
         \/ \E k \in WebKeys : WebAction(c, k)
  PROVE  UNCHANGED Action!vars
<1>1. pc \in [Clicks -> {"new", "done"} \cup Busy] /\ answer \in [Clicks -> Answers]
      /\ key \in [Clicks -> Keys \cup {None}]
  BY DEF IInv, TypeOK, Busy
<1>2. UNCHANGED <<receipt, history>> /\ pc[c] # "done"
  BY <1>1 DEF Press, Consume, Refuse, ConsumeFails, Check, CheckActor, GuardPass, GuardDeny,
     GuardUnavailable, LoadFails, Prelude, Release, ReleaseFails, RecordFails, WebAction
<1>3. ~Assured(c)
  BY <1>2 DEF IInv, Proven, Assured
<1>4. /\ answer'[c] \notin {"executed", "already_done"}
      /\ \A d \in Clicks : d # c => answer'[d] = answer[d] /\ key'[d] = key[d]
  BY <1>1, <1>3 DEF Assured, Press, Consume, Refuse, ConsumeFails, Check, CheckActor, GuardPass,
     GuardDeny, GuardUnavailable, LoadFails, Prelude, Release, ReleaseFails, RecordFails,
     WebAction, click, Finish, Tell
<1> QED
  BY <1>2, <1>4, NobodyAssured, QuietStep

LEMMA StepImplementsAction ==
  ASSUME IInv, Counted, [Next]_vars
  PROVE  [Action!Next]_(Action!vars)
<1>0. /\ effects \in [Keys -> Nat] /\ doubtful \in [Keys -> Nat]
      /\ receipt \in [Keys -> ReceiptStates] /\ answer \in [Clicks -> Answers]
  BY DEF IInv, TypeOK
<1>00. \A c \in Clicks : pc[c] \in Busy => key[c] \in Keys
  BY DEF IInv, Known
<1>01. \A k \in Keys : effects[k] \in Nat /\ doubtful[k] \in Nat
  BY <1>0
<1>1. ASSUME NEW c \in Clicks, CreateReceipt(c) \/ FindReceipt(c) \/ ReceiptFails(c)
      PROVE  [Action!Next]_(Action!vars)
  <2>1. key[c] \in Keys /\ pc[c] = "load" /\ key' = key /\ UNCHANGED <<effects, doubtful>>
    BY <1>00, <1>1 DEF CreateReceipt, FindReceipt, ReceiptFails, Busy, Checking, click, history
  <2>2. \A d \in Clicks : d # c => answer'[d] = answer[d]
    BY <1>0, <1>1 DEF CreateReceipt, FindReceipt, ReceiptFails, Finish, Tell
  <2>3. ~Assured(c)
    BY <2>1 DEF IInv, Proven, Assured
  <2>4. CASE receipt[key[c]] = "none" /\ receipt' = [receipt EXCEPT ![key[c]] = "pending"]
    <3>1. answer'[c] \notin {"executed", "already_done"}
      BY <1>0, <1>1, <2>3, <2>4
      DEF CreateReceipt, FindReceipt, ReceiptFails, Finish, Tell, Assured
    <3>2. assuredNow' = assuredNow
      BY <2>1, <2>2, <3>1, NobodyAssured
    <3>3. Action!Begin(key[c])
      BY <2>1, <2>4, <3>2 DEF Action!Begin, Action!Move
    <3> QED
      BY <2>1, <3>3 DEF Action!Next
  <2>5. CASE receipt' = receipt /\ answer'[c] \notin {"executed", "already_done"}
    <3>1. assuredNow' = assuredNow
      BY <2>1, <2>2, <2>5, NobodyAssured
    <3> QED
      BY <2>1, <2>5, <3>1, QuietStep DEF history
  <2>6. CASE receipt' = receipt /\ answer'[c] \in {"executed", "already_done"}
    <3>1. receipt[key[c]] = "succeeded"
      BY <1>0, <1>1, <2>1, <2>3, <2>6
      DEF CreateReceipt, FindReceipt, ReceiptFails, Finish, Tell, Assured, Recorded, ReceiptStates
    <3>2. assuredNow' = assuredNow \cup {key[c]}
      BY <2>1, <2>2, <2>6, AssuredGrows DEF Assured
    <3>3. Action!Assure(key[c])
      BY <2>1, <2>6, <3>1, <3>2 DEF Action!Assure
    <3> QED
      BY <2>1, <3>3 DEF Action!Next
  <2> QED
    BY <1>1, <2>4, <2>5, <2>6 DEF CreateReceipt, FindReceipt, ReceiptFails
<1>2. ASSUME NEW c \in Clicks, Call(c) \/ CallRefused(c) \/ CallLost(c) \/ Crash(c)
      PROVE  [Action!Next]_(Action!vars)
  <2>1. /\ key[c] \in Keys /\ pc[c] # "done" /\ UNCHANGED <<key, answer, receipt>>
    BY <1>00, <1>2 DEF Call, CallRefused, CallLost, Crash, Busy, Checking, Executing, click
  <2>2. assuredNow' = assuredNow
    BY <2>1 DEF assuredNow, Assured
  <2>3. CASE UNCHANGED <<effects, doubtful>>
    BY <2>1, <2>2, <2>3, QuietStep DEF history
  <2>4. CASE Apply(c) /\ pc[c] = "call"
    <3>1. receipt[key[c]] = "pending"
      BY <2>1, <2>4 DEF IInv, OneExecutor, Executing
    <3>2. effects[key[c]] = doubtful[key[c]]
      BY <1>0, <2>1, <2>4 DEF IInv, Unsent, Counted
    <3>3. doubtful' = doubtful \/ doubtful' = [doubtful EXCEPT ![key[c]] = @ + 1]
      BY <1>2 DEF Call, CallRefused, CallLost, Crash, history
    <3>4. Action!Act(key[c]) \/ Action!ActHidden(key[c])
      BY <2>1, <2>2, <2>4, <3>1, <3>2, <3>3 DEF Apply, Action!Act, Action!ActHidden, Action!Unsettled
    <3> QED
      BY <2>1, <3>4 DEF Action!Next
  <2> QED
    BY <1>2, <2>3, <2>4 DEF Call, CallRefused, CallLost, Crash, history
<1>3. ASSUME NEW c \in Clicks, Book(c) \/ Doubt(c) PROVE [Action!Next]_(Action!vars)
  <2>1. /\ key[c] \in Keys /\ pc[c] \in {"book", "doubt"} /\ key' = key
        /\ UNCHANGED <<effects, doubtful>>
        /\ receipt[key[c]] = "pending"
    BY <1>00, <1>3
    DEF Book, Doubt, Busy, Executing, click, history, IInv, OneExecutor
  <2>2. \A d \in Clicks : d # c => answer'[d] = answer[d]
    BY <1>0, <1>3 DEF Book, Doubt, Finish, Tell
  <2>3. CASE Book(c)
    <3>1. receipt' = [receipt EXCEPT ![key[c]] = "succeeded"]
      BY <2>3 DEF Book
    <3>2. assuredNow' = assuredNow \cup {key[c]}
      BY <1>0, <2>1, <2>2, <2>3, AssuredGrows DEF Book, Finish, Tell, Assured
    <3>3. effects[key[c]] # doubtful[key[c]]
      <4>1. doubtful[key[c]] < effects[key[c]]
        BY <2>3 DEF Book, Counted
      <4>2. effects[key[c]] \in Nat /\ doubtful[key[c]] \in Nat
        BY <1>01, <2>1
      <4> QED
        BY <4>1, <4>2
    <3>4. Action!Settle(key[c])
      BY <2>1, <3>1, <3>2, <3>3 DEF Action!Settle, Action!Move, Action!Unsettled
    <3> QED
      BY <2>1, <3>4 DEF Action!Next
  <2>4. CASE Doubt(c)
    <3>1. receipt' = [receipt EXCEPT ![key[c]] = "unknown"]
      BY <2>4 DEF Doubt
    <3>2. assuredNow' = assuredNow
      BY <1>0, <2>1, <2>2, <2>4, NobodyAssured DEF Doubt, Finish, Tell
    <3>3. Action!Doubt(key[c])
      BY <2>1, <3>1, <3>2 DEF Action!Doubt, Action!Move
    <3> QED
      BY <2>1, <3>3 DEF Action!Next
  <2> QED
    BY <1>3, <2>3, <2>4
<1>4. ASSUME NEW c \in Clicks, Drop(c) PROVE [Action!Next]_(Action!vars)
  <2>1. /\ key[c] \in Keys /\ pc[c] = "drop" /\ key' = key /\ UNCHANGED <<effects, doubtful>>
        /\ receipt[key[c]] = "pending"
    BY <1>00, <1>4 DEF Drop, Busy, Executing, click, history, IInv, OneExecutor
  <2>2. assuredNow' = assuredNow
    BY <1>0, <1>4, <2>1, NobodyAssured DEF Drop, Tell
  <2>3. CASE receipt' = receipt
    BY <2>1, <2>2, <2>3, QuietStep DEF history
  <2>4. CASE receipt' = [receipt EXCEPT ![key[c]] = "none"]
    <3>1. effects[key[c]] = doubtful[key[c]]
      <4>1. effects[key[c]] <= doubtful[key[c]] /\ doubtful[key[c]] <= effects[key[c]]
        BY <2>1 DEF IInv, Unsent, Counted
      <4>2. effects[key[c]] \in Nat /\ doubtful[key[c]] \in Nat
        BY <1>01, <2>1
      <4> QED
        BY <4>1, <4>2
    <3>2. Action!GiveUp(key[c])
      BY <2>1, <2>2, <2>4, <3>1 DEF Action!GiveUp, Action!Move, Action!Unsettled
    <3> QED
      BY <2>1, <3>2 DEF Action!Next
  <2> QED
    BY <1>4, <2>3, <2>4 DEF Drop
<1>5. ASSUME UNCHANGED <<receipt, history, answer, key>> PROVE UNCHANGED Action!vars
  BY <1>5, QuietStep DEF assuredNow, Assured
<1>6. ASSUME NEW t \in Tokens, Expire(t) \/ SweepClaim(t) \/ SweepToken(t)
      PROVE  UNCHANGED Action!vars
  BY <1>5, <1>6 DEF Expire, SweepClaim, SweepToken, click
<1>7. CASE UNCHANGED vars
  BY <1>5, <1>7 DEF vars, history
<1> QED
  BY <1>1, <1>2, <1>3, <1>4, <1>6, <1>7, QuietClick DEF Next, Handle, Execute

(* An operator's action implements OperatorAction whatever clicks race and  *)
(* whatever fails: it is attempted again only after having had no effect,   *)
(* or one a server error hid, and who is told it was done can rely on it.   *)
THEOREM ActionsReliable == Spec => ImplementsAction
<1>1. Init => Action!Init
  <2> SUFFICES ASSUME Init PROVE Action!Init
    OBVIOUS
  <2>1. assuredNow = {}
    BY DEF Init, assuredNow, Assured
  <2> QED
    BY <2>1 DEF Init, Action!Init
<1>2. IInv /\ Counted /\ [Next]_vars => [Action!Next]_(Action!vars)
  BY StepImplementsAction
<1>3. Spec => [](IInv /\ Counted)
  <2>1. Init => Counted
    BY CountedInit
  <2>2. IInv /\ Counted /\ [Next]_vars => Counted'
    BY CountedStep
  <2> QED
    BY <2>1, <2>2, Inductive, PTL DEF Spec
<1> QED
  BY <1>1, <1>2, <1>3, PTL DEF Spec, ImplementsAction, Action!Spec

(* What operators may rely on, of the abstract action alone: at most one    *)
(* effect that no server error hid, none of an action not begun or given    *)
(* up, exactly one where operators are told that it is done.                *)
THEOREM ActionIsReliable == Action!Spec => []Action!Dependable
<1> DEFINE Typed == /\ receipt \in [Keys -> ReceiptStates]
                    /\ effects \in [Keys -> Nat] /\ doubtful \in [Keys -> Nat]
           Moves(k) == \/ Action!Begin(k) \/ Action!Act(k) \/ Action!ActHidden(k)
                       \/ Action!Settle(k) \/ Action!Assure(k) \/ Action!Doubt(k)
                       \/ Action!GiveUp(k)
<1>1. Action!Init => Typed /\ Action!Dependable
  BY DEF Action!Init, ReceiptStates, Action!Dependable, Action!Unsettled
<1>2. ASSUME Typed, Action!Dependable, NEW k \in Keys, Moves(k)
      PROVE  Typed' /\ Action!Dependable'
  <2>0. /\ effects[k] \in Nat /\ doubtful[k] \in Nat
        /\ receipt[k] = "none" => effects[k] = doubtful[k]
        /\ effects[k] \in {doubtful[k], doubtful[k] + 1}
        /\ receipt[k] = "succeeded" => effects[k] # doubtful[k]
        /\ k \in assuredNow => receipt[k] = "succeeded"
    BY <1>2 DEF Action!Dependable, Action!Unsettled
  <2>1. Typed'
    <3>0. effects[k] + 1 \in Nat /\ doubtful[k] + 1 \in Nat
      BY <2>0
    <3>1. CASE Action!Act(k) \/ Action!ActHidden(k)
      <4>1. /\ effects' = [effects EXCEPT ![k] = effects[k] + 1]
            /\ receipt' = receipt
            /\ doubtful' = doubtful \/ doubtful' = [doubtful EXCEPT ![k] = doubtful[k] + 1]
        BY <3>1 DEF Action!Act, Action!ActHidden
      <4>2. Typed
        BY <1>2
      <4> QED
        BY <3>0, <4>1, <4>2
    <3> QED
      BY <1>2, <3>1
      DEF ReceiptStates, Action!Move, Action!Begin, Action!Settle, Action!Assure, Action!Doubt, Action!GiveUp
  <2>2. ASSUME NEW j \in Keys, j # k
        PROVE  /\ receipt'[j] = receipt[j]
               /\ effects'[j] = effects[j] /\ doubtful'[j] = doubtful[j]
               /\ j \in assuredNow' => j \in assuredNow
    BY <1>2, <2>2 DEF Action!Begin, Action!Act, Action!ActHidden, Action!Settle,
       Action!Assure, Action!Doubt, Action!GiveUp, Action!Move
  <2>3. /\ effects'[k] \in {doubtful'[k], doubtful'[k] + 1}
        /\ receipt'[k] = "none" => effects'[k] = doubtful'[k]
        /\ receipt'[k] = "succeeded" => effects'[k] # doubtful'[k]
        /\ k \in assuredNow' => receipt'[k] = "succeeded"
    <3>1. CASE Action!Act(k) \/ Action!ActHidden(k)
      <4>1. /\ receipt[k] = "pending" /\ receipt' = receipt /\ assuredNow' = assuredNow
            /\ effects[k] = doubtful[k] /\ effects'[k] = effects[k] + 1
            /\ doubtful'[k] = doubtful[k] \/ doubtful'[k] = doubtful[k] + 1
        BY <1>2, <3>1 DEF Action!Act, Action!ActHidden, Action!Unsettled
      <4> QED
        BY <2>0, <4>1
    <3>2. CASE Action!Assure(k)
      BY <1>2, <2>0, <3>2 DEF Action!Assure
    <3>3. CASE Action!Settle(k)
      BY <1>2, <2>0, <3>3 DEF Action!Settle, Action!Move, Action!Unsettled
    <3>4. CASE Action!Begin(k) \/ Action!Doubt(k) \/ Action!GiveUp(k)
      BY <1>2, <2>0, <3>4 DEF Action!Begin, Action!Doubt, Action!GiveUp, Action!Move, Action!Unsettled
    <3> QED
      BY <1>2, <3>1, <3>2, <3>3, <3>4
  <2> QED
    BY <1>2, <2>1, <2>2, <2>3 DEF Action!Dependable, Action!Unsettled
<1>3. Typed /\ Action!Dependable /\ [Action!Next]_(Action!vars) => Typed' /\ Action!Dependable'
  <2>1. CASE UNCHANGED Action!vars
    BY <2>1 DEF Action!vars, Action!Dependable, Action!Unsettled
  <2> QED
    BY <1>2, <2>1 DEF Action!Next
<1> QED
  BY <1>1, <1>3, PTL DEF Action!Spec
=============================================================================
