----------------------------- MODULE SyncProofs -----------------------------
(***************************************************************************)
(* Proofs about the two synchronisations with GitHub.                      *)
(*                                                                         *)
(* Of the reconciliation of a repository, for any issues, alerts, page     *)
(* sizes, overlaps and bounds: typing, that a round does not undo what the *)
(* user did to the repository, that an alert is withdrawn only if GitHub   *)
(* took it back, and that the cursor passes over no change.                *)
(*                                                                         *)
(* Of the releases of starred repositories, for any repositories, releases,*)
(* page sizes, limits and histories: typing, that a tracker the user has   *)
(* switched off stays off, and that no release is passed over untold.      *)
(***************************************************************************)
EXTENDS Reconcile, Starred, FiniteSetTheorems, SequenceTheorems, WellFoundedInduction, TLAPS

-----------------------------------------------------------------------------
(* A set of naturals that is not empty has a least member.                 *)
LEMMA LeastNatural ==
    ASSUME NEW T, T \subseteq Nat, T # {}
    PROVE  \E x \in T : \A y \in T : x <= y
<1> DEFINE R == OpToRel(<, Nat)
<1>1. IsWellFoundedOn(R, Nat)
  BY NatLessThanWellFounded
<1>2. R = {ss \in Nat \X Nat : ss[1] < ss[2]}
  BY DEF OpToRel
<1> HIDE DEF R
<1>3. \E x \in T : \A y \in T : ~ (<<y, x>> \in R)
  BY <1>1, WFMin
<1>4. PICK x \in T : \A y \in T : ~ (<<y, x>> \in R)
  BY <1>3
<1>5. \A y \in T : ~ (y < x)
  BY <1>2, <1>4
<1> QED
  BY <1>5

(* A finite list in an order: `above' says what stands before each of its  *)
(* entries, and an entry's rank is their number.                           *)
InOrder(list, above) ==
    /\ IsFiniteSet(list)
    /\ above \in [list -> SUBSET list]
    /\ \A x \in list : x \notin above[x]
    /\ \A x, y \in list : x = y \/ x \in above[y] \/ y \in above[x]
    /\ \A x, y \in list : x \in above[y] => above[x] \subseteq above[y]

RankIn(above, x) == Cardinality(above[x])
Foremost(list, above, n) == {x \in list : RankIn(above, x) < n}

LEMMA RankType ==
    ASSUME NEW list, NEW above, InOrder(list, above), NEW x \in list
    PROVE  RankIn(above, x) \in Nat /\ IsFiniteSet(above[x])
<1>1. above[x] \subseteq list
  BY DEF InOrder
<1>2. IsFiniteSet(above[x])
  BY <1>1, FS_Subset DEF InOrder
<1> QED
  BY <1>2, FS_CardinalityType DEF RankIn

(* What stands before an entry has a smaller rank.                         *)
LEMMA RankFalls ==
    ASSUME NEW list, NEW above, InOrder(list, above),
           NEW x \in list, NEW y \in list, x \in above[y]
    PROVE  RankIn(above, x) < RankIn(above, y)
<1>1. above[x] \subseteq above[y] /\ above[x] # above[y]
  BY DEF InOrder
<1> QED
  BY <1>1, RankType, FS_Subset DEF RankIn

LEMMA RankOrders ==
    ASSUME NEW list, NEW above, InOrder(list, above), NEW x \in list, NEW y \in list,
           RankIn(above, x) < RankIn(above, y)
    PROVE  x \in above[y]
<1>1. x # y /\ y \notin above[x]
  BY RankFalls, RankType
<1> QED
  BY <1>1 DEF InOrder

(* As many entries have a rank below n as n says, if the list goes so far. *)
LEMMA FrontAtMost ==
    ASSUME NEW list, NEW above, InOrder(list, above), NEW n \in Nat
    PROVE  Cardinality(Foremost(list, above, n)) <= n
<1> DEFINE front == Foremost(list, above, n)
           T == {n - RankIn(above, x) : x \in front}
<1>1. \A x \in front : x \in list /\ RankIn(above, x) \in Nat /\ RankIn(above, x) < n
  BY RankType DEF Foremost
<1>2. CASE front = {}
  BY <1>2, FS_EmptySet
<1>3. CASE front # {}
  <2>1. T \subseteq Nat /\ T # {}
    BY <1>1, <1>3
  <2>2. PICK t \in T : \A u \in T : t <= u
    <3> HIDE DEF T
    <3> QED
      BY <2>1, LeastNatural
  <2>3. PICK m \in front : t = n - RankIn(above, m)
    BY <2>2
  <2>4. \A x \in front : RankIn(above, x) <= RankIn(above, m)
    <3> SUFFICES ASSUME NEW x \in front PROVE RankIn(above, x) <= RankIn(above, m)
      OBVIOUS
    <3>1. t <= n - RankIn(above, x)
      BY <2>2
    <3> HIDE DEF front, T
    <3> QED
      BY <3>1, <2>3, <1>1
  <2>5. \A x \in front : x = m \/ x \in above[m]
    <3> SUFFICES ASSUME NEW x \in front, x # m PROVE x \in above[m]
      OBVIOUS
    <3>1. m \notin above[x]
      BY <2>4, <1>1, RankFalls
    <3> QED
      BY <3>1, <1>1 DEF InOrder
  <2>6. \A x \in above[m] : x \in front
    <3> SUFFICES ASSUME NEW x \in above[m] PROVE x \in front
      OBVIOUS
    <3>1. x \in list
      BY <1>1 DEF InOrder
    <3>2. RankIn(above, x) < RankIn(above, m)
      BY <1>1, <3>1, RankFalls
    <3> QED
      BY <3>1, <3>2, <1>1, RankType DEF Foremost
  <2>7. front = above[m] \cup {m}
    BY <2>5, <2>6
  <2>8. m \notin above[m] /\ IsFiniteSet(above[m])
    BY <1>1, RankType DEF InOrder
  <2>9. Cardinality(front) = RankIn(above, m) + 1
    <3> HIDE DEF front
    <3> QED
      BY <2>7, <2>8, FS_AddElement DEF RankIn
  <2> QED
    BY <2>9, <1>1
<1> QED
  BY <1>2, <1>3

LEMMA FrontExactly ==
    ASSUME NEW list, NEW above, InOrder(list, above), NEW n \in Nat,
           NEW y \in list, n <= RankIn(above, y)
    PROVE  Cardinality(Foremost(list, above, n)) = n
<1> DEFINE front == Foremost(list, above, n)
           T == {RankIn(above, x) : x \in {w \in list : n <= RankIn(above, w)}}
<1>1. T \subseteq Nat /\ T # {}
  BY RankType
<1>2. PICK t \in T : \A u \in T : t <= u
  <2> HIDE DEF T
  <2> QED
    BY <1>1, LeastNatural
<1>3. PICK z \in list : t = RankIn(above, z) /\ n <= RankIn(above, z)
  BY <1>2
<1>4. \A x \in list : n <= RankIn(above, x) => RankIn(above, z) <= RankIn(above, x)
  BY <1>2, <1>3
<1> HIDE DEF T
<1>5. \A x \in above[z] : x \in front
  <2> SUFFICES ASSUME NEW x \in above[z] PROVE x \in front
    OBVIOUS
  <2>1. x \in list
    BY DEF InOrder
  <2>2. RankIn(above, x) < RankIn(above, z)
    BY <2>1, RankFalls
  <2> QED
    BY <2>1, <2>2, <1>4, RankType DEF Foremost
<1>6. \A x \in front : x \in above[z]
  <2> SUFFICES ASSUME NEW x \in front PROVE x \in above[z]
    OBVIOUS
  <2>1. x \in list /\ RankIn(above, x) < n
    BY DEF Foremost
  <2>2. RankIn(above, x) < RankIn(above, z)
    BY <2>1, <1>3, RankType
  <2> QED
    BY <2>1, <2>2, RankOrders
<1>7. front = above[z]
  <2>1. front \subseteq list /\ above[z] \subseteq list
    BY DEF Foremost, InOrder
  <2> QED
    BY <1>5, <1>6
<1>8. Cardinality(front) = RankIn(above, z)
  BY <1>7 DEF RankIn
<1>9. Cardinality(front) <= n
  BY FrontAtMost
<1> HIDE DEF front
<1> QED
  BY <1>8, <1>9, <1>3, RankType DEF front

(* A page behind which an entry stands is full.                            *)
LEMMA PageFull ==
    ASSUME NEW list, NEW above, InOrder(list, above), NEW from \in Nat, NEW size \in Nat,
           NEW y \in list, from + size <= RankIn(above, y)
    PROVE  Cardinality({x \in list : from <= RankIn(above, x) /\ RankIn(above, x) < from + size})
               = size
<1> DEFINE A == Foremost(list, above, from)
           B == Foremost(list, above, from + size)
           got == {x \in list : from <= RankIn(above, x) /\ RankIn(above, x) < from + size}
<1> SUFFICES Cardinality(got) = size
  OBVIOUS
<1>1. Cardinality(A) = from /\ Cardinality(B) = from + size
  BY RankType, FrontExactly
<1>2. got = B \ A
  BY RankType DEF Foremost
<1>3. A \subseteq B
  BY RankType DEF Foremost
<1>4. IsFiniteSet(A) /\ IsFiniteSet(B)
  BY FS_Subset DEF Foremost, InOrder
<1>5. B \cap A = A
  BY <1>3
<1> HIDE DEF A, B, got
<1>6. Cardinality(B \ A) = Cardinality(B) - Cardinality(B \cap A)
  BY <1>4, FS_Difference
<1>7. Cardinality(got) = Cardinality(B) - Cardinality(A)
  BY <1>2, <1>5, <1>6
<1> QED
  BY <1>1, <1>7

-----------------------------------------------------------------------------
(* What a list, a store and the end of a round leave in their variables.   *)

(* An issue never leaves GitHub's list.                                    *)
IssuesStay == \A x \in Issues : source[x].state # "gone"

RoundsTyped == ReconcileTypeOK /\ IssuesStay

LEMMA ListedType ==
    ASSUME RoundsTyped, NEW got, got \subseteq Subjects, MorePages, Listed(got),
           \A x \in got : source[x].state \in {"open", "fixed"}
    PROVE  /\ left' \subseteq [x : Subjects, at : 0..Horizon, state : {"open", "fixed", "withdrawn"}]
           /\ seen' \subseteq Subjects /\ full' \in BOOLEAN /\ page' \in 0..MaxPages
<1>1. left' \subseteq [x : Subjects, at : 0..Horizon, state : {"open", "fixed", "withdrawn"}]
  BY DEF Listed, Change, RoundsTyped, ReconcileTypeOK
<1>2. page' \in 0..MaxPages
  BY ReconcileAssumption DEF Listed, MorePages, RoundsTyped, ReconcileTypeOK
<1> QED
  BY <1>1, <1>2 DEF Listed, RoundsTyped, ReconcileTypeOK

LEMMA EndRoundType ==
    ASSUME EndRound
    PROVE  /\ pc' = "idle" /\ snapshot' \in SyncStatuses /\ since' \in (-Overlap - 1)..Horizon
           /\ page' \in 0..MaxPages /\ full' \in BOOLEAN /\ soft' \in BOOLEAN
           /\ seen' = {} /\ left' = {}
           /\ save' \in [x : Subjects \cup {0}, new : Stored, known : Stored]
           /\ began' \in 0..Horizon /\ ended' \in 0..Horizon
<1>1. save' \in [x : Subjects \cup {0}, new : Stored, known : Stored]
  BY ReconcileAssumption DEF EndRound, Idle, Nothing, Stored
<1>2. since' \in (-Overlap - 1)..Horizon
  BY ReconcileAssumption DEF EndRound
<1>3. page' \in 0..MaxPages /\ began' \in 0..Horizon /\ ended' \in 0..Horizon
  BY ReconcileAssumption DEF EndRound
<1> QED
  BY <1>1, <1>2, <1>3 DEF EndRound, SyncStatuses

LEMMA IssuesListedType ==
    ASSUME RoundsTyped, ListIssues
    PROVE  RoundsTyped'
<1> DEFINE list == {x \in Issues : source[x].state # "none" /\ source[x].at >= since}
           got == PageOf([x \in list |-> Cardinality({y \in list : LaterUpdate(y, x)})])
<1>1. got \subseteq list
  BY DEF PageOf
<1>2. \A x \in got : x \in Subjects /\ source[x].state \in {"open", "fixed"}
  <2>1. \A x \in Issues : source[x].state \in {"none", "open", "fixed", "gone"}
    BY DEF RoundsTyped, ReconcileTypeOK, Subjects
  <2> QED
    BY <1>1, <2>1 DEF Subjects, RoundsTyped, IssuesStay
<1>3. MorePages /\ Listed(got)
  BY DEF ListIssues
<1> HIDE DEF got
<1>4. /\ left' \subseteq [x : Subjects, at : 0..Horizon, state : {"open", "fixed", "withdrawn"}]
      /\ seen' \subseteq Subjects /\ full' \in BOOLEAN /\ page' \in 0..MaxPages
  BY <1>2, <1>3, ListedType
<1>5. began' \in 0..Horizon
  BY DEF ListIssues, RoundsTyped, ReconcileTypeOK
<1> QED
  BY <1>4, <1>5 DEF ListIssues, RoundsTyped, ReconcileTypeOK, IssuesStay, world, history

LEMMA AlertsListedType ==
    ASSUME RoundsTyped, ListAlerts
    PROVE  RoundsTyped'
<1> DEFINE list == {x \in Alerts : source[x].state \in {"open", "fixed"}}
           got == PageOf([x \in list |-> Cardinality({y \in list : y > x})])
<1>1. \A x \in got : x \in Subjects /\ source[x].state \in {"open", "fixed"}
  BY DEF PageOf, Subjects
<1>2. MorePages /\ Listed(got)
  BY DEF ListAlerts
<1> HIDE DEF got
<1>3. /\ left' \subseteq [x : Subjects, at : 0..Horizon, state : {"open", "fixed", "withdrawn"}]
      /\ seen' \subseteq Subjects /\ full' \in BOOLEAN /\ page' \in 0..MaxPages
  BY <1>1, <1>2, ListedType
<1> QED
  BY <1>3 DEF ListAlerts, RoundsTyped, ReconcileTypeOK, IssuesStay, world, history

(* Every action keeps the variables in their types.                        *)
LEMMA RoundsTypedStep ==
    ASSUME RoundsTyped, [ReconcileNext]_reconcileVars
    PROVE  RoundsTyped'
<1> USE DEF RoundsTyped, ReconcileTypeOK, IssuesStay
<1>1. ASSUME NEW x \in Subjects, NEW s \in {"open", "fixed"}, SourceChanges(x, s)
      PROVE  RoundsTyped'
  <2>1. source' \in [Subjects -> [at : 0..Horizon, state : {"none", "open", "fixed", "gone"}]]
    BY <1>1 DEF SourceChanges
  <2>2. \A y \in Issues : source'[y].state # "gone"
    BY <1>1 DEF SourceChanges, Subjects
  <2>3. inbox' \subseteq [x : Subjects, at : 0..Horizon, state : {"open", "fixed"},
                          action : {"opened", "edited"}]
    BY <1>1 DEF SourceChanges, Message
  <2>4. changes' \in 0..MaxChanges
    BY <1>1, ReconcileAssumption DEF SourceChanges
  <2>5. moved' \subseteq Alerts /\ seen' \subseteq Subjects /\ untold' \subseteq Subjects
    BY <1>1 DEF SourceChanges
  <2> QED
    BY <1>1, <2>1, <2>2, <2>3, <2>4, <2>5 DEF SourceChanges
<1>2. ASSUME NEW x \in Alerts, AlertGone(x) PROVE RoundsTyped'
  <2>1. source' \in [Subjects -> [at : 0..Horizon, state : {"none", "open", "fixed", "gone"}]]
    BY <1>2 DEF AlertGone, Subjects
  <2>2. \A y \in Issues : source'[y].state # "gone"
    BY <1>2, ReconcileAssumption DEF AlertGone, Subjects
  <2>3. changes' \in 0..MaxChanges
    BY <1>2, ReconcileAssumption DEF AlertGone
  <2> QED
    BY <1>2, <2>1, <2>2, <2>3 DEF AlertGone, round
<1>3. ASSUME NEW m \in inbox, Webhook(m) PROVE RoundsTyped'
  <2>1. /\ m.x \in Subjects /\ m.at \in 0..Horizon /\ m.state \in {"open", "fixed"}
        /\ local \in [Subjects -> Stored]
    OBVIOUS
  <2>2. [at |-> m.at, state |-> m.state] \in Stored
    BY <2>1 DEF Stored
  <2>3. local' = local \/ local' = [local EXCEPT ![m.x] = [at |-> m.at, state |-> m.state]]
    BY <1>3 DEF Webhook
  <2>4. local' \in [Subjects -> Stored]
    <3> HIDE DEF RoundsTyped, ReconcileTypeOK, IssuesStay
    <3> QED
      BY <2>1, <2>2, <2>3
  <2> QED
    BY <1>3, <2>4 DEF Webhook, Evaluated, round
<1>4. ASSUME NEW m \in inbox, WebhookLost(m) PROVE RoundsTyped'
  BY <1>4, ReconcileAssumption DEF WebhookLost, Mishap, round, history
<1>5. ASSUME NEW to \in {"archived", "deleted"}, Administered(to) PROVE RoundsTyped'
  BY <1>5, ReconcileAssumption DEF Administered, Mishap, SyncStatuses, world, round
<1>6. CASE TimePasses
  BY <1>6, ReconcileAssumption DEF TimePasses, round, history
<1>7. CASE Begin
  <2>1. since' \in (-Overlap - 1)..Horizon
    BY <1>7, ReconcileAssumption DEF Begin
  <2>2. rounds' \in 0..MaxRounds[enabled]
    BY <1>7, ReconcileAssumption DEF Begin
  <2> QED
    BY <1>7, <2>1, <2>2 DEF Begin, SyncStatuses, world, history
<1>8. CASE ListIssues
  BY <1>8, IssuesListedType
<1>9. CASE IssuesDone
  <2>1. missed' \subseteq Issues
    BY <1>9 DEF IssuesDone
  <2>2. page' \in 0..MaxPages
    BY <1>9, ReconcileAssumption DEF IssuesDone
  <2> QED
    BY <1>9, <2>1, <2>2 DEF IssuesDone, world
<1>10. CASE ListAlerts
  BY <1>10, AlertsListedType
<1>11. CASE AlertsDone
  <2>1. left' \subseteq [x : Subjects, at : 0..Horizon, state : {"open", "fixed", "withdrawn"}]
    BY <1>11 DEF AlertsDone, Doomed, Change, Subjects
  <2> QED
    BY <1>11, <2>1 DEF AlertsDone, world, history
<1>12. CASE AlertsFail
  BY <1>12, ReconcileAssumption DEF AlertsFail, Mishap, world, history
<1>13. ASSUME NEW c \in left, SaveRead(c) PROVE RoundsTyped'
  <2>1. save' \in [x : Subjects \cup {0}, new : Stored, known : Stored]
    BY <1>13 DEF SaveRead, Stored
  <2> QED
    BY <1>13, <2>1 DEF SaveRead, world, history
<1>14. CASE SaveWrite
  <2>1. local' \in [Subjects -> Stored]
    BY <1>14 DEF SaveWrite
  <2>2. untold' \subseteq Subjects
    BY <1>14 DEF SaveWrite, Compensated, Evaluated
  <2>3. save' \in [x : Subjects \cup {0}, new : Stored, known : Stored]
    BY <1>14, ReconcileAssumption DEF SaveWrite, Idle, Nothing, Stored
  <2> QED
    BY <1>14, <2>1, <2>2, <2>3 DEF SaveWrite, world
<1>15. CASE SaveFails
  <2>1. save' \in [x : Subjects \cup {0}, new : Stored, known : Stored]
    BY <1>15, ReconcileAssumption DEF SaveFails, Idle, Nothing, Stored
  <2> QED
    BY <1>15, <2>1, ReconcileAssumption DEF SaveFails, Mishap, world, history
<1>16. CASE Reread
  <2>1. CASE EndRound
    BY <1>16, <2>1, EndRoundType DEF Reread, world, history
  <2>2. CASE ~EndRound
    BY <1>16, <2>2 DEF Reread, Current, SyncStatuses, world, history
  <2> QED
    BY <2>1, <2>2
<1>17. CASE WriteBack
  BY <1>17 DEF WriteBack, world, history
<1>18. CASE MoveCursor
  <2>1. cursor' \in -1..Horizon
    BY <1>18 DEF MoveCursor, CursorAfter
  <2>2. missed' \subseteq Issues
    BY <1>18 DEF MoveCursor
  <2> QED
    BY <1>18, <2>1, <2>2, EndRoundType DEF MoveCursor, world
<1>19. CASE RoundFails
  BY <1>19, EndRoundType, ReconcileAssumption DEF RoundFails, Mishap, SyncStatuses, world, history
<1>20. CASE UNCHANGED reconcileVars
  BY <1>20 DEF reconcileVars, world, round, history
<1> QED
  BY <1>1, <1>2, <1>3, <1>4, <1>5, <1>6, <1>7, <1>8, <1>9, <1>10, <1>11, <1>12, <1>13, <1>14,
     <1>15, <1>16, <1>17, <1>18, <1>19, <1>20 DEF ReconcileNext

LEMMA RoundsTypedInit ==
    ReconcileInit => RoundsTyped
<1> SUFFICES ASSUME ReconcileInit PROVE RoundsTyped
  OBVIOUS
<1>1. \A s \in {"none", "open"} :
        LET f == [x \in Subjects |-> [at |-> 0, state |-> s]]
        IN  /\ f \in [Subjects -> [at : 0..Horizon, state : {"none", "open", "fixed", "gone"}]]
            /\ f \in [Subjects -> Stored]
            /\ \A x \in Subjects : f[x].state # "gone"
  BY ReconcileAssumption DEF Stored
<1>2. save \in [x : Subjects \cup {0}, new : Stored, known : Stored]
  BY ReconcileAssumption DEF ReconcileInit, Idle, Nothing, Stored
<1>3. rounds \in 0..MaxRounds[enabled]
  BY ReconcileAssumption DEF ReconcileInit
<1>4. /\ source \in [Subjects -> [at : 0..Horizon, state : {"none", "open", "fixed", "gone"}]]
      /\ local \in [Subjects -> Stored] /\ IssuesStay
  BY <1>1 DEF ReconcileInit, IssuesStay, Subjects
<1>5. since \in (-Overlap - 1)..Horizon /\ cursor \in -1..Horizon
  BY ReconcileAssumption DEF ReconcileInit
<1>6. /\ now \in 1..Horizon /\ changes \in 0..MaxChanges /\ mishaps \in 0..MaxMishaps
      /\ page \in 0..MaxPages /\ began \in 0..Horizon /\ ended \in 0..Horizon
  BY ReconcileAssumption DEF ReconcileInit
<1> QED
  BY <1>2, <1>3, <1>4, <1>5, <1>6
     DEF ReconcileInit, RoundsTyped, ReconcileTypeOK, SyncStatuses

(* The variables of the reconciliation keep their types, whatever is       *)
(* listed, stored, withdrawn or given up.                                  *)
THEOREM ReconcileTypeCorrect == ReconcileSpec => []ReconcileTypeOK
<1>1. RoundsTyped => ReconcileTypeOK
  BY DEF RoundsTyped
<1> QED
  BY <1>1, RoundsTypedInit, RoundsTypedStep, PTL DEF ReconcileSpec

-----------------------------------------------------------------------------
(* What the user does to the repository.                                   *)

(* A round about to write back a status other than the one the user set is *)
(* one whose second look at the row came before the user.                  *)
LateAccounted ==
    pc = "writeback" /\ sync \in {"archived", "deleted"} /\ snapshot # sync => late

StatusNotUndone ==
    sync \in {"archived", "deleted"} /\ sync' \notin {sync, "unavailable"} => late

(* Most of a round, GitHub and the webhooks leave the status alone.        *)
LEMMA StatusStep ==
    ASSUME LateAccounted, [ReconcileNext]_reconcileVars
    PROVE  LateAccounted' /\ StatusNotUndone
<1> USE DEF LateAccounted, StatusNotUndone
<1>1. CASE UNCHANGED <<sync, pc, snapshot, late>>
  BY <1>1
<1>2. CASE UNCHANGED <<sync, late>> /\ pc' # "writeback"
  BY <1>2
<1>3. ASSUME NEW x \in Subjects, NEW s \in {"open", "fixed"}, SourceChanges(x, s)
      PROVE  UNCHANGED <<sync, pc, snapshot, late>>
  BY <1>3 DEF SourceChanges
<1>4. ASSUME NEW x \in Alerts, AlertGone(x) PROVE UNCHANGED <<sync, pc, snapshot, late>>
  BY <1>4 DEF AlertGone, round
<1>5. ASSUME NEW m \in inbox, Webhook(m) \/ WebhookLost(m)
      PROVE  UNCHANGED <<sync, pc, snapshot, late>>
  BY <1>5 DEF Webhook, WebhookLost, round, history
<1>6. ASSUME NEW to \in {"archived", "deleted"}, Administered(to)
      PROVE  LateAccounted' /\ StatusNotUndone
  BY <1>6 DEF Administered, round
<1>7. CASE TimePasses
  BY <1>7, <1>1 DEF TimePasses, round, history
<1>8. CASE Begin \/ IssuesDone \/ AlertsDone \/ AlertsFail
  BY <1>8, <1>2 DEF Begin, IssuesDone, AlertsDone, AlertsFail, history
<1>9. CASE ListIssues \/ ListAlerts \/ SaveWrite \/ SaveFails
  BY <1>9, <1>1 DEF ListIssues, ListAlerts, SaveWrite, SaveFails, history
<1>10. ASSUME NEW c \in left, SaveRead(c) PROVE UNCHANGED <<sync, pc, snapshot, late>>
  BY <1>10 DEF SaveRead, history
<1>11. CASE Reread
  BY <1>11, <1>2 DEF Reread, Current, EndRound, history
<1>12. CASE WriteBack
  BY <1>12 DEF WriteBack, history
<1>13. CASE MoveCursor
  BY <1>13, <1>2 DEF MoveCursor, EndRound
<1>14. CASE RoundFails
  BY <1>14 DEF RoundFails, EndRound, history
<1>15. CASE UNCHANGED reconcileVars
  BY <1>15, <1>1 DEF reconcileVars, round, history
<1> QED
  BY <1>1, <1>3, <1>4, <1>5, <1>6, <1>7, <1>8, <1>9, <1>10, <1>11, <1>12, <1>13, <1>14, <1>15
     DEF ReconcileNext

(* A round under way when the repository is archived or deleted does not   *)
(* undo it, except between its second look at the row and its write.       *)
THEOREM StatusKeptByRounds == ReconcileSpec => StatusKept
<1>1. ReconcileInit => LateAccounted
  BY DEF ReconcileInit, LateAccounted
<1>2. LateAccounted /\ [ReconcileNext]_reconcileVars => LateAccounted'
  BY StatusStep
<1>3. LateAccounted /\ [ReconcileNext]_reconcileVars =>
          [(sync \in {"archived", "deleted"} /\ sync' \notin {sync, "unavailable"})
               => late]_reconcileVars
  BY StatusStep DEF StatusNotUndone
<1> QED
  BY <1>1, <1>2, <1>3, PTL DEF ReconcileSpec, StatusKept

-----------------------------------------------------------------------------
(* The pages of a list: what they show, and when the last one is full.     *)

LEMMA PageBounds ==
    ASSUME RoundsTyped
    PROVE  /\ page * PageSize \in Nat /\ PageSize \in Nat
           /\ (page + 1) * PageSize = page * PageSize + PageSize
<1>1. page \in Nat /\ PageSize \in Nat
  BY ReconcileAssumption DEF RoundsTyped, ReconcileTypeOK
<1> QED
  BY <1>1

LEMMA PageOfList ==
    ASSUME RoundsTyped, NEW list, NEW above, InOrder(list, above), NEW rank,
           rank = [x \in list |-> RankIn(above, x)]
    PROVE  /\ PageOf(rank) \subseteq list
           /\ \A x \in list : page * PageSize <= rank[x] =>
                  x \in PageOf(rank) \/ (page + 1) * PageSize <= rank[x]
           /\ \A x \in list : (page + 1) * PageSize <= rank[x] =>
                  Cardinality(PageOf(rank)) = PageSize
<1> DEFINE from == page * PageSize
<1>1. from \in Nat /\ PageSize \in Nat /\ (page + 1) * PageSize = from + PageSize
  BY PageBounds
<1>2. PageOf(rank) =
        {x \in list : from <= RankIn(above, x) /\ RankIn(above, x) < from + PageSize}
  BY <1>1 DEF PageOf
<1>3. \A x \in list : rank[x] = RankIn(above, x) /\ RankIn(above, x) \in Nat
  BY RankType
<1> HIDE DEF from
<1>4. ASSUME NEW x \in list, from + PageSize <= RankIn(above, x)
      PROVE  Cardinality(PageOf(rank)) = PageSize
  <2>1. Cardinality({w \in list : from <= RankIn(above, w) /\ RankIn(above, w) < from + PageSize})
            = PageSize
    BY <1>1, <1>4, PageFull
  <2> QED
    BY <1>2, <2>1
<1>5. \A x \in list : from <= rank[x] => x \in PageOf(rank) \/ from + PageSize <= rank[x]
  BY <1>1, <1>2, <1>3
<1> QED
  BY <1>1, <1>2, <1>3, <1>4, <1>5 DEF from

-----------------------------------------------------------------------------
(* The alerts GitHub lists, and how many stand before one of them.         *)

AlertsListed == {x \in Alerts : source[x].state \in {"open", "fixed"}}
AlertRank(x) == Cardinality({y \in AlertsListed : y > x})

LEMMA AlertsInOrder ==
    InOrder(AlertsListed, [x \in AlertsListed |-> {y \in AlertsListed : y > x}])
<1> DEFINE above == [x \in AlertsListed |-> {y \in AlertsListed : y > x}]
<1>1. IsFiniteSet(AlertsListed) /\ AlertsListed \subseteq Nat
  BY ReconcileAssumption, FS_Subset DEF AlertsListed
<1>2. \A x, y \in AlertsListed : x \in above[y] <=> x > y
  OBVIOUS
<1>3. above \in [AlertsListed -> SUBSET AlertsListed]
  OBVIOUS
<1>4. \A x, y \in AlertsListed : x > y => above[x] \subseteq above[y]
  <2> SUFFICES ASSUME NEW x \in AlertsListed, NEW y \in AlertsListed, x > y, NEW z \in above[x]
               PROVE  z \in above[y]
    OBVIOUS
  <2>1. z \in AlertsListed /\ z > x
    OBVIOUS
  <2>2. z > y
    BY <2>1, <1>1
  <2> QED
    BY <2>1, <2>2
<1> HIDE DEF above
<1>5. /\ \A x \in AlertsListed : x \notin above[x]
      /\ \A x, y \in AlertsListed : x = y \/ x \in above[y] \/ y \in above[x]
      /\ \A x, y \in AlertsListed : x \in above[y] => above[x] \subseteq above[y]
  BY <1>1, <1>2, <1>4
<1> QED
  BY <1>1, <1>3, <1>5 DEF InOrder, above

(* Whatever is stored, on its way or to be stored appeared on GitHub.      *)
Appeared ==
    /\ \A x \in Subjects : local[x].state # "none" => source[x].state # "none"
    /\ \A m \in inbox : source[m.x].state # "none"
    /\ \A c \in left : source[c.x].state # "none"
    /\ save # Idle => save.x \in Subjects /\ source[save.x].state # "none"

(* While the alerts are listed, the pages read so far have shown all that  *)
(* stand before them, except those that came or slid meanwhile.            *)
PagesRead ==
    /\ pc = "idle" => page = 0
    /\ pc = "alerts" =>
           \A x \in AlertsListed :
               x \in seen \/ x \in moved \/ page * PageSize <= AlertRank(x)
    /\ pc = "alerts" /\ page > 0 /\ ~full => AlertsListed \subseteq seen \cup moved

(* An alert is withdrawn, or about to be, if GitHub took it back or it was *)
(* missed by a list that moved.                                            *)
MayBeWithdrawn(x) == source[x].state = "gone" \/ x \in moved
WithdrawnJustified ==
    /\ \A x \in Alerts : local[x].state = "withdrawn" => MayBeWithdrawn(x)
    /\ \A c \in left : c.state = "withdrawn" => MayBeWithdrawn(c.x)
    /\ save # Idle /\ save.new.state = "withdrawn" => MayBeWithdrawn(save.x)

LEMMA AppearedStep ==
    ASSUME RoundsTyped, Appeared, [ReconcileNext]_reconcileVars
    PROVE  Appeared'
<1> USE DEF Appeared
<1>1. CASE UNCHANGED <<source, local, inbox, left, save>>
  BY <1>1
<1>2. CASE UNCHANGED <<source, local, inbox>> /\ left' = {} /\ save' = Idle
  BY <1>2
<1>3. ASSUME NEW x \in Subjects, NEW s \in {"open", "fixed"}, SourceChanges(x, s)
      PROVE  Appeared'
  <2>1. \A y \in Subjects : source[y].state # "none" => source'[y].state # "none"
    BY <1>3 DEF SourceChanges, RoundsTyped, ReconcileTypeOK
  <2>2. source'[x].state # "none"
    BY <1>3 DEF SourceChanges, RoundsTyped, ReconcileTypeOK
  <2>3. \A m \in inbox' : m.x = x \/ m \in inbox
    BY <1>3 DEF SourceChanges, Message
  <2>4. (\A m \in inbox : m.x \in Subjects) /\ (\A c \in left : c.x \in Subjects)
    BY DEF RoundsTyped, ReconcileTypeOK
  <2> QED
    BY <1>3, <2>1, <2>2, <2>3, <2>4 DEF SourceChanges
<1>4. ASSUME NEW x \in Alerts, AlertGone(x) PROVE Appeared'
  <2>1. \A y \in Subjects : source[y].state # "none" => source'[y].state # "none"
    BY <1>4 DEF AlertGone, RoundsTyped, ReconcileTypeOK
  <2>2. (\A m \in inbox : m.x \in Subjects) /\ (\A c \in left : c.x \in Subjects)
    BY DEF RoundsTyped, ReconcileTypeOK
  <2> QED
    BY <1>4, <2>1, <2>2 DEF AlertGone, round
<1>5. ASSUME NEW m \in inbox, Webhook(m) \/ WebhookLost(m) PROVE Appeared'
  <2>1. inbox' \subseteq inbox /\ UNCHANGED <<source, left, save>>
    BY <1>5 DEF Webhook, WebhookLost, round
  <2>2. \A y \in Subjects : local'[y].state = local[y].state \/ y = m.x
    BY <1>5 DEF Webhook, WebhookLost, RoundsTyped, ReconcileTypeOK
  <2> QED
    BY <2>1, <2>2
<1>6. ASSUME NEW to \in {"archived", "deleted"}, Administered(to) PROVE Appeared'
  BY <1>6, <1>1 DEF Administered, world, round
<1>7. CASE TimePasses
  BY <1>7, <1>1 DEF TimePasses, round
<1>8. CASE Begin \/ IssuesDone \/ AlertsFail \/ WriteBack
  BY <1>8, <1>1 DEF Begin, IssuesDone, AlertsFail, WriteBack, world
<1>9. CASE ListIssues
  <2> DEFINE list == {x \in Issues : source[x].state # "none" /\ source[x].at >= since}
             got == PageOf([x \in list |-> Cardinality({y \in list : LaterUpdate(y, x)})])
  <2>1. \A x \in got : source[x].state # "none"
    BY DEF PageOf
  <2>2. left' = {Change(x, source[x].at, source[x].state) : x \in got}
    BY <1>9 DEF ListIssues, Listed
  <2> HIDE DEF got
  <2>3. \A c \in left' : source[c.x].state # "none"
    BY <2>1, <2>2 DEF Change
  <2> QED
    BY <1>9, <2>3 DEF ListIssues, world
<1>10. CASE ListAlerts
  <2> DEFINE list == {x \in Alerts : source[x].state \in {"open", "fixed"}}
             got == PageOf([x \in list |-> Cardinality({y \in list : y > x})])
  <2>1. \A x \in got : source[x].state # "none"
    BY DEF PageOf
  <2>2. left' = {Change(x, source[x].at, source[x].state) : x \in got}
    BY <1>10 DEF ListAlerts, Listed
  <2> HIDE DEF got
  <2>3. \A c \in left' : source[c.x].state # "none"
    BY <2>1, <2>2 DEF Change
  <2> QED
    BY <1>10, <2>3 DEF ListAlerts, world
<1>11. CASE AlertsDone
  <2>1. \A c \in left' : source[c.x].state # "none"
    BY <1>11 DEF AlertsDone, Doomed, Change, Subjects
  <2> QED
    BY <1>11, <2>1 DEF AlertsDone, world
<1>12. ASSUME NEW c \in left, SaveRead(c) PROVE Appeared'
  <2>1. save'.x = c.x /\ left' \subseteq left /\ UNCHANGED <<source, local, inbox>>
    BY <1>12 DEF SaveRead, world
  <2>2. c.x \in Subjects
    BY DEF RoundsTyped, ReconcileTypeOK
  <2> QED
    BY <2>1, <2>2
<1>13. CASE SaveWrite
  <2>1. \A y \in Subjects : local'[y].state = local[y].state \/ y = save.x
    BY <1>13 DEF SaveWrite, RoundsTyped, ReconcileTypeOK
  <2>2. UNCHANGED <<source, inbox, left>> /\ save' = Idle /\ save # Idle
    BY <1>13 DEF SaveWrite, world
  <2> QED
    BY <2>1, <2>2
<1>14. CASE SaveFails
  BY <1>14 DEF SaveFails, world
<1>15. CASE Reread
  <2>1. CASE EndRound
    BY <1>15, <2>1, <1>2 DEF Reread, EndRound, world
  <2>2. CASE ~EndRound
    BY <1>15, <2>2, <1>1 DEF Reread, world
  <2> QED
    BY <2>1, <2>2
<1>16. CASE MoveCursor \/ RoundFails
  BY <1>16, <1>2 DEF MoveCursor, RoundFails, EndRound, world
<1>17. CASE UNCHANGED reconcileVars
  BY <1>17, <1>1 DEF reconcileVars, world, round
<1> QED
  BY <1>3, <1>4, <1>5, <1>6, <1>7, <1>8, <1>9, <1>10, <1>11, <1>12, <1>13, <1>14, <1>15, <1>16,
     <1>17 DEF ReconcileNext

(* What a justified withdrawal rests on does not go away.                  *)
LEMMA JustificationStays ==
    ASSUME RoundsTyped, [ReconcileNext]_reconcileVars, NEW y \in Subjects, MayBeWithdrawn(y)
    PROVE  MayBeWithdrawn(y)'
<1> USE DEF MayBeWithdrawn
<1>1. ASSUME NEW x \in Subjects, NEW s \in {"open", "fixed"}, SourceChanges(x, s)
      PROVE  MayBeWithdrawn(y)'
  BY <1>1 DEF SourceChanges, RoundsTyped, ReconcileTypeOK
<1>2. ASSUME NEW x \in Alerts, AlertGone(x) PROVE MayBeWithdrawn(y)'
  BY <1>2 DEF AlertGone, RoundsTyped, ReconcileTypeOK
<1>3. CASE UNCHANGED <<source, moved>>
  BY <1>3
<1>4. ASSUME NEW m \in inbox, Webhook(m) \/ WebhookLost(m) PROVE UNCHANGED <<source, moved>>
  BY <1>4 DEF Webhook, WebhookLost, history
<1>5. ASSUME NEW to \in {"archived", "deleted"}, Administered(to)
      PROVE  UNCHANGED <<source, moved>>
  BY <1>5 DEF Administered, world
<1>6. CASE TimePasses \/ Begin \/ ListIssues \/ IssuesDone \/ ListAlerts \/ AlertsDone
  BY <1>6, <1>3 DEF TimePasses, Begin, ListIssues, IssuesDone, ListAlerts, AlertsDone, world,
                    history
<1>7. ASSUME NEW c \in left, SaveRead(c) PROVE UNCHANGED <<source, moved>>
  BY <1>7 DEF SaveRead, world, history
<1>8. CASE AlertsFail \/ SaveWrite \/ SaveFails \/ Reread \/ WriteBack \/ MoveCursor \/ RoundFails
  BY <1>8, <1>3 DEF AlertsFail, SaveWrite, SaveFails, Reread, WriteBack, MoveCursor, RoundFails,
                    world, history
<1>9. CASE UNCHANGED reconcileVars
  BY <1>9, <1>3 DEF reconcileVars, world, history
<1> QED
  BY <1>1, <1>2, <1>3, <1>4, <1>5, <1>6, <1>7, <1>8, <1>9 DEF ReconcileNext

LEMMA WithdrawnStep ==
    ASSUME RoundsTyped, Appeared, PagesRead, WithdrawnJustified, [ReconcileNext]_reconcileVars
    PROVE  WithdrawnJustified'
<1> USE DEF WithdrawnJustified
<1>0. /\ \A y \in Subjects : MayBeWithdrawn(y) => MayBeWithdrawn(y)'
      /\ Alerts \subseteq Subjects /\ (\A c \in left : c.x \in Subjects)
      /\ save # Idle => save.x \in Subjects
  BY JustificationStays DEF Subjects, RoundsTyped, ReconcileTypeOK, Appeared
<1>1. CASE UNCHANGED local /\ left' \subseteq left /\ (save' = save \/ save' = Idle)
  BY <1>0, <1>1
<1>2. ASSUME NEW x \in Subjects, NEW s \in {"open", "fixed"}, SourceChanges(x, s)
      PROVE  WithdrawnJustified'
  BY <1>2, <1>1 DEF SourceChanges
<1>3. ASSUME NEW x \in Alerts, AlertGone(x) PROVE WithdrawnJustified'
  BY <1>3, <1>1 DEF AlertGone, round
<1>4. ASSUME NEW m \in inbox, Webhook(m) PROVE WithdrawnJustified'
  <2>1. \A y \in Subjects : local'[y].state = local[y].state \/ local'[y].state # "withdrawn"
    BY <1>4 DEF Webhook, RoundsTyped, ReconcileTypeOK
  <2> QED
    BY <1>0, <1>4, <2>1 DEF Webhook, round
<1>5. ASSUME NEW m \in inbox, WebhookLost(m) PROVE WithdrawnJustified'
  BY <1>5, <1>1 DEF WebhookLost, round
<1>6. ASSUME NEW to \in {"archived", "deleted"}, Administered(to) PROVE WithdrawnJustified'
  BY <1>6, <1>1 DEF Administered, round
<1>7. CASE TimePasses \/ Begin \/ IssuesDone \/ AlertsFail \/ SaveFails \/ WriteBack
  BY <1>7, <1>1 DEF TimePasses, Begin, IssuesDone, AlertsFail, SaveFails, WriteBack, round
<1>8. ASSUME NEW got, UNCHANGED <<local, save>>,
             left' = {Change(x, source[x].at, source[x].state) : x \in got},
             \A x \in got : source[x].state # "withdrawn"
      PROVE  WithdrawnJustified'
  <2>1. \A c \in left' : c.state # "withdrawn"
    BY <1>8 DEF Change
  <2> QED
    BY <1>0, <1>8, <2>1
<1>9. CASE ListIssues
  <2> DEFINE list == {x \in Issues : source[x].state # "none" /\ source[x].at >= since}
             got == PageOf([x \in list |-> Cardinality({y \in list : LaterUpdate(y, x)})])
  <2>1. \A x \in got : x \in Subjects
    BY DEF PageOf, Subjects
  <2>2. \A x \in Subjects : source[x].state # "withdrawn"
    BY DEF RoundsTyped, ReconcileTypeOK
  <2>3. /\ UNCHANGED <<local, save>>
        /\ left' = {Change(x, source[x].at, source[x].state) : x \in got}
    BY <1>9 DEF ListIssues, Listed
  <2> HIDE DEF got
  <2> QED
    BY <1>8, <2>1, <2>2, <2>3
<1>10. CASE ListAlerts
  <2> DEFINE list == {x \in Alerts : source[x].state \in {"open", "fixed"}}
             got == PageOf([x \in list |-> Cardinality({y \in list : y > x})])
  <2>1. \A x \in got : source[x].state # "withdrawn"
    BY DEF PageOf
  <2>2. /\ UNCHANGED <<local, save>>
        /\ left' = {Change(x, source[x].at, source[x].state) : x \in got}
    BY <1>10 DEF ListAlerts, Listed
  <2> HIDE DEF got
  <2> QED
    BY <1>8, <2>1, <2>2
<1>11. CASE AlertsDone
  <2>1. ASSUME NEW c \in left' PROVE MayBeWithdrawn(c.x)'
    <3>1. left' = Doomed(~full) /\ UNCHANGED <<source, moved>> /\ pc = "alerts" /\ ~MorePages
      BY <1>11 DEF AlertsDone, world, history
    <3>2. ~full
      BY <3>1 DEF Doomed
    <3>3. PICK y \in Alerts \ seen : local[y].state = "open" /\ c = Change(y, now, "withdrawn")
      BY <3>1, <3>2 DEF Doomed
    <3>4. page > 0
      BY <3>1 DEF MorePages, RoundsTyped, ReconcileTypeOK
    <3>5. AlertsListed \subseteq seen \cup moved
      BY <3>1, <3>2, <3>4 DEF PagesRead
    <3>6. source[y].state \in {"open", "fixed", "gone"}
      BY <3>3 DEF Appeared, RoundsTyped, ReconcileTypeOK, Subjects
    <3>7. MayBeWithdrawn(y)
      BY <3>3, <3>5, <3>6 DEF AlertsListed, MayBeWithdrawn
    <3> QED
      BY <1>0, <3>3, <3>7 DEF Change
  <2>2. UNCHANGED <<local, save>>
    BY <1>11 DEF AlertsDone
  <2> QED
    BY <1>0, <2>1, <2>2
<1>12. ASSUME NEW c \in left, SaveRead(c) PROVE WithdrawnJustified'
  <2>1. save'.x = c.x /\ save'.new.state = c.state /\ left' \subseteq left /\ UNCHANGED local
    BY <1>12 DEF SaveRead
  <2> QED
    BY <1>0, <2>1
<1>13. CASE SaveWrite
  <2>1. \A y \in Subjects : local'[y].state = local[y].state
                            \/ (y = save.x /\ local'[y].state = save.new.state)
    BY <1>13 DEF SaveWrite, RoundsTyped, ReconcileTypeOK
  <2>2. UNCHANGED left /\ save' = Idle /\ save # Idle
    BY <1>13 DEF SaveWrite
  <2> QED
    BY <1>0, <2>1, <2>2
<1>14. CASE Reread \/ MoveCursor \/ RoundFails
  BY <1>14, <1>1 DEF Reread, MoveCursor, RoundFails, EndRound
<1>15. CASE UNCHANGED reconcileVars
  BY <1>15, <1>1 DEF reconcileVars, round
<1> QED
  BY <1>2, <1>3, <1>4, <1>5, <1>6, <1>7, <1>9, <1>10, <1>11, <1>12, <1>13, <1>14, <1>15
     DEF ReconcileNext

(* A list that grows only lowers an entry, one that shrinks raises those   *)
(* behind what it lost.                                                    *)
LEMMA PagesReadAfterChange ==
    ASSUME RoundsTyped, PagesRead,
           NEW x \in Subjects, NEW s \in {"open", "fixed"}, SourceChanges(x, s)
    PROVE  PagesRead'
<1> USE DEF PagesRead
<1>0. UNCHANGED <<pc, page, full>> /\ seen' \cap Alerts = seen \cap Alerts
      /\ moved \subseteq moved' /\ source[x].state # "gone"
  BY ReconcileAssumption DEF SourceChanges
<1>1. \A y \in Subjects : source'[y].state = IF y = x THEN s ELSE source[y].state
  BY DEF SourceChanges, RoundsTyped, ReconcileTypeOK
<1>2. Alerts \subseteq Subjects
  BY DEF Subjects
<1>3. CASE x \in Alerts /\ source[x].state = "none"
  <2>1. AlertsListed' = AlertsListed \cup {x}
    BY <1>1, <1>2, <1>3 DEF AlertsListed
  <2>2. pc = "alerts" => x \in moved'
    BY <1>3 DEF SourceChanges
  <2>3. \A y \in AlertsListed : AlertRank(y) <= AlertRank(y)'
    <3> SUFFICES ASSUME NEW y \in AlertsListed PROVE AlertRank(y) <= AlertRank(y)'
      OBVIOUS
    <3> DEFINE before == {z \in AlertsListed : z > y}
               after == {z \in AlertsListed' : z > y}
    <3>1. before \subseteq after
      BY <2>1
    <3>2. IsFiniteSet(after)
      BY ReconcileAssumption, FS_Subset DEF AlertsListed
    <3>3. Cardinality(before) <= Cardinality(after)
      BY <3>1, <3>2, FS_Subset
    <3> QED
      BY <3>3 DEF AlertRank
  <2>4. \A y \in AlertsListed : AlertRank(y) \in Nat /\ AlertRank(y)' \in Nat
    <3>1. IsFiniteSet(AlertsListed) /\ IsFiniteSet(AlertsListed')
      BY ReconcileAssumption, FS_Subset DEF AlertsListed
    <3> QED
      BY <3>1, FS_Subset, FS_CardinalityType DEF AlertRank
  <2>5. page * PageSize \in Nat
    BY PageBounds
  <2> QED
    BY <1>0, <2>1, <2>2, <2>3, <2>4, <2>5 DEF AlertsListed
<1>4. CASE ~(x \in Alerts /\ source[x].state = "none")
  <2>1. x \in Alerts => source[x].state \in {"open", "fixed"}
    BY <1>0, <1>4 DEF RoundsTyped, ReconcileTypeOK
  <2>2. AlertsListed' = AlertsListed
    BY <1>1, <1>2, <2>1 DEF AlertsListed
  <2>3. \A y : AlertRank(y)' = AlertRank(y)
    BY <2>2 DEF AlertRank
  <2> QED
    BY <1>0, <2>2, <2>3 DEF AlertsListed
<1> QED
  BY <1>3, <1>4

LEMMA PagesReadAfterGone ==
    ASSUME RoundsTyped, PagesRead, NEW x \in Alerts, AlertGone(x)
    PROVE  PagesRead'
<1> USE DEF PagesRead
<1>1. AlertsListed' = AlertsListed \ {x}
  BY DEF AlertGone, AlertsListed, RoundsTyped, ReconcileTypeOK, Subjects
<1>2. UNCHANGED <<pc, page, full, seen>> /\ moved \subseteq moved'
  BY DEF AlertGone, round
<1>3. \A y \in AlertsListed' : y > x => AlertRank(y)' = AlertRank(y)
  <2> SUFFICES ASSUME NEW y \in AlertsListed', y > x PROVE AlertRank(y)' = AlertRank(y)
    OBVIOUS
  <2>1. \A z \in AlertsListed : z > y => z # x
    BY ReconcileAssumption DEF AlertsListed
  <2>2. {z \in AlertsListed' : z > y} = {z \in AlertsListed : z > y}
    BY <1>1, <2>1
  <2> QED
    BY <2>2 DEF AlertRank
<1>4. \A y \in AlertsListed' : pc = "alerts" => y > x \/ y \in moved'
  BY <1>1, ReconcileAssumption DEF AlertGone, AlertsListed
<1> QED
  BY <1>1, <1>2, <1>3, <1>4

LEMMA PagesReadAfterList ==
    ASSUME RoundsTyped, PagesRead, ListAlerts
    PROVE  PagesRead'
<1> DEFINE above == [x \in AlertsListed |-> {y \in AlertsListed : y > x}]
           rank == [x \in AlertsListed |-> Cardinality({y \in AlertsListed : y > x})]
<1>1. InOrder(AlertsListed, above)
  BY AlertsInOrder
<1>2. rank = [x \in AlertsListed |-> RankIn(above, x)]
  BY DEF RankIn
<1>3. \A x \in AlertsListed : rank[x] = AlertRank(x)
  BY DEF AlertRank
<1>4. Listed(PageOf(rank))
  BY DEF ListAlerts, AlertsListed
<1>5. UNCHANGED <<source, moved, pc>> /\ pc = "alerts"
  BY DEF ListAlerts, world, history
<1>6. AlertsListed' = AlertsListed /\ \A x : AlertRank(x)' = AlertRank(x)
  BY <1>5 DEF AlertsListed, AlertRank
<1> HIDE DEF above, rank
<1>7. /\ \A x \in AlertsListed : page * PageSize <= rank[x] =>
             x \in PageOf(rank) \/ (page + 1) * PageSize <= rank[x]
      /\ \A x \in AlertsListed : (page + 1) * PageSize <= rank[x] =>
             Cardinality(PageOf(rank)) = PageSize
  BY <1>1, <1>2, PageOfList
<1>8. seen' = seen \cup PageOf(rank) /\ page' = page + 1
      /\ full' = (Cardinality(PageOf(rank)) = PageSize)
  BY <1>4 DEF Listed
<1>9. \A x \in AlertsListed' : x \in seen' \/ x \in moved' \/ page' * PageSize <= AlertRank(x)'
  BY <1>3, <1>5, <1>6, <1>7, <1>8 DEF PagesRead
<1>10. ~full' => AlertsListed' \subseteq seen' \cup moved'
  BY <1>3, <1>5, <1>6, <1>7, <1>8 DEF PagesRead
<1> QED
  BY <1>5, <1>9, <1>10 DEF PagesRead

LEMMA PagesReadStep ==
    ASSUME RoundsTyped, PagesRead, [ReconcileNext]_reconcileVars
    PROVE  PagesRead'
<1>1. CASE UNCHANGED <<source, pc, page, full, seen, moved>>
  <2>1. AlertsListed' = AlertsListed /\ \A x : AlertRank(x)' = AlertRank(x)
    BY <1>1 DEF AlertsListed, AlertRank
  <2> QED
    BY <1>1, <2>1 DEF PagesRead
<1>2. CASE pc' \notin {"idle", "alerts"}
  BY <1>2 DEF PagesRead
<1>3. CASE page' = 0
  <2>1. \A x \in AlertsListed' : AlertRank(x)' \in Nat
    <3>1. IsFiniteSet(AlertsListed')
      BY ReconcileAssumption, FS_Subset DEF AlertsListed
    <3> QED
      BY <3>1, FS_Subset, FS_CardinalityType DEF AlertRank
  <2>2. page' * PageSize = 0
    BY <1>3, ReconcileAssumption
  <2> QED
    BY <1>3, <2>1, <2>2 DEF PagesRead
<1>4. ASSUME NEW x \in Subjects, NEW s \in {"open", "fixed"}, SourceChanges(x, s)
      PROVE  PagesRead'
  BY <1>4, PagesReadAfterChange
<1>5. ASSUME NEW x \in Alerts, AlertGone(x) PROVE PagesRead'
  BY <1>5, PagesReadAfterGone
<1>6. ASSUME NEW m \in inbox, Webhook(m) \/ WebhookLost(m) PROVE PagesRead'
  BY <1>6, <1>1 DEF Webhook, WebhookLost, round, history
<1>7. ASSUME NEW to \in {"archived", "deleted"}, Administered(to) PROVE PagesRead'
  BY <1>7, <1>1 DEF Administered, world, round
<1>8. CASE TimePasses
  BY <1>8, <1>1 DEF TimePasses, round, history
<1>9. CASE Begin
  BY <1>9, <1>3 DEF Begin, PagesRead
<1>10. CASE IssuesDone
  BY <1>10, <1>3 DEF IssuesDone
<1>11. CASE ListIssues \/ AlertsDone \/ AlertsFail \/ Reread \/ WriteBack
  BY <1>11, <1>2, <1>3 DEF ListIssues, AlertsDone, AlertsFail, Reread, EndRound, WriteBack
<1>12. CASE ListAlerts
  BY <1>12, PagesReadAfterList
<1>13. ASSUME NEW c \in left, SaveRead(c) PROVE PagesRead'
  BY <1>13, <1>1 DEF SaveRead, world, history
<1>14. CASE SaveWrite \/ SaveFails
  BY <1>14, <1>1 DEF SaveWrite, SaveFails, world, history
<1>15. CASE MoveCursor \/ RoundFails
  BY <1>15, <1>3 DEF MoveCursor, RoundFails, EndRound
<1>16. CASE UNCHANGED reconcileVars
  BY <1>16, <1>1 DEF reconcileVars, world, round, history
<1> QED
  BY <1>4, <1>5, <1>6, <1>7, <1>8, <1>9, <1>10, <1>11, <1>12, <1>13, <1>14, <1>15, <1>16
     DEF ReconcileNext

AlertsIInv == RoundsTyped /\ Appeared /\ PagesRead /\ WithdrawnJustified

(* An alert that is open on GitHub is withdrawn here only if it came, or   *)
(* slid up the list, while a round listed the alerts; one that stood still *)
(* is not (retireMissingAlerts in syncx/reconcile.go).                     *)
THEOREM WithdrawalsJustified == ReconcileSpec => []WithdrawnMeansGone
<1>1. ReconcileInit => AlertsIInv
  <2> SUFFICES ASSUME ReconcileInit PROVE Appeared /\ PagesRead /\ WithdrawnJustified
    BY RoundsTypedInit DEF AlertsIInv
  <2>1. local = source /\ left = {} /\ inbox = {} /\ save = Idle /\ pc = "idle" /\ page = 0
    BY DEF ReconcileInit
  <2>2. \A x \in Subjects : local[x].state # "withdrawn"
    BY DEF ReconcileInit
  <2> QED
    BY <2>1, <2>2 DEF Appeared, PagesRead, WithdrawnJustified, Subjects
<1>2. AlertsIInv /\ [ReconcileNext]_reconcileVars => AlertsIInv'
  BY RoundsTypedStep, AppearedStep, PagesReadStep, WithdrawnStep DEF AlertsIInv
<1>3. AlertsIInv => WithdrawnMeansGone
  BY DEF AlertsIInv, WithdrawnJustified, MayBeWithdrawn, WithdrawnMeansGone
<1> QED
  BY <1>1, <1>2, <1>3, PTL DEF ReconcileSpec

-----------------------------------------------------------------------------
(* The changes of issues, and the cursor.                                  *)

(* Nothing is dated later than now.                                        *)
InTime ==
    /\ \A x \in Subjects : source[x].at <= now /\ (source[x].state = "none" => source[x].at = 0)
    /\ cursor <= now /\ began <= now /\ ended <= now

(* Between rounds nothing is in hand, and at its end a round has stored    *)
(* all it had listed.                                                      *)
Tidy ==
    /\ pc = "idle" => page = 0 /\ ~full /\ ~soft /\ seen = {} /\ left = {} /\ save = Idle
    /\ pc \in {"writeback", "cursor"} => left = {} /\ save = Idle

(* What a round asks for, and when it asked first.                         *)
AsksFromCursor ==
    /\ pc # "idle" => since = -1 \/ (cursor # -1 /\ since = cursor - Overlap)
    /\ pc = "issues" /\ page > 0 => cursor <= began

(* A change in hand is the last of its issue, or a later one came after    *)
(* the round had begun to list, and the lists have not shown it again.     *)
NotYounger(x, at) ==
    at <= source[x].at /\ (at < source[x].at => began <= source[x].at /\ x \notin seen)
InHandKnown ==
    /\ \A c \in left : c.x \in Issues => cursor <= began /\ NotYounger(c.x, c.at)
    /\ save # Idle /\ save.x \in Issues =>
           cursor <= began /\ NotYounger(save.x, save.new.at) /\ save.known.at <= local[save.x].at

(* An issue the lists have shown, and that has not changed since, is       *)
(* stored, or in hand; or the round is a soft failure.                     *)
SeenStored ==
    \A x \in seen \cap Issues :
        \/ soft \/ source[x].at <= local[x].at
        \/ \E c \in left : c.x = x /\ c.at = source[x].at
        \/ save # Idle /\ save.x = x /\ save.new.at = source[x].at

(* At any time, not only between rounds, the cursor passes over nothing.   *)
Lags(x) == local[x].at < source[x].at
Covered ==
    cursor # -1 =>
        \A x \in Issues : Lags(x) => cursor - Overlap <= source[x].at \/ x \in missed

(* While the issues are listed, the pages read so far have shown all that  *)
(* stand before them, except those that have changed since they began.     *)
IssuesListed == {x \in Issues : source[x].state # "none" /\ source[x].at >= since}
IssueRank(x) == Cardinality({y \in IssuesListed : LaterUpdate(y, x)})
IssuesRead ==
    pc = "issues" /\ page > 0 =>
        \A x \in IssuesListed :
            \/ x \in seen \/ began <= source[x].at
            \/ full /\ page * PageSize <= IssueRank(x)

(* Once they are listed, an issue that was not shown and that the row lacks*)
(* has changed since, or is on record as missed.                           *)
UnseenAccounted ==
    pc \in {"alerts", "reread", "writeback", "cursor"} /\ "issues" \in enabled =>
        \A x \in Issues \ seen : Lags(x) => began <= source[x].at \/ x \in missed

LEMMA RoundFacts ==
    ASSUME RoundsTyped
    PROVE  /\ \A x \in Subjects : source[x].at \in Nat /\ local[x].at \in Nat
           /\ now \in Nat /\ began \in Nat /\ ended \in Nat /\ cursor \in Int /\ Overlap \in Nat
           /\ since \in Int
           /\ Issues \subseteq Subjects /\ (\A c \in left : c.x \in Subjects)
           /\ \A m \in inbox : m.x \in Subjects /\ m.at \in Nat
           /\ save.x \in Subjects \cup {0} /\ save.new.at \in Nat /\ save.known.at \in Nat
           /\ \A c \in left : c.at \in Nat
<1>1. /\ now \in Nat /\ began \in Nat /\ ended \in Nat /\ cursor \in Int /\ Overlap \in Nat
      /\ since \in Int
  BY ReconcileAssumption DEF RoundsTyped, ReconcileTypeOK
<1> QED
  BY <1>1 DEF RoundsTyped, ReconcileTypeOK, Stored, Subjects

LEMMA InTimeStep ==
    ASSUME RoundsTyped, InTime, [ReconcileNext]_reconcileVars
    PROVE  InTime'
<1> USE RoundFacts DEF InTime
<1>1. CASE UNCHANGED <<source, now, cursor>> /\ began' \in {began, 0, now}
           /\ ended' \in {ended, 0, now}
  BY <1>1
<1>2. ASSUME NEW x \in Subjects, NEW s \in {"open", "fixed"}, SourceChanges(x, s) PROVE InTime'
  <2>1. \A y \in Subjects : source'[y] = IF y = x THEN [at |-> now, state |-> s] ELSE source[y]
    BY <1>2 DEF SourceChanges, RoundsTyped, ReconcileTypeOK
  <2>2. UNCHANGED <<now, cursor, began, ended>>
    BY <1>2 DEF SourceChanges
  <2> QED
    BY <2>1, <2>2
<1>3. ASSUME NEW x \in Alerts, AlertGone(x) PROVE InTime'
  <2>1. \A y \in Subjects : source'[y] = IF y = x THEN [at |-> now, state |-> "gone"] ELSE source[y]
    BY <1>3 DEF AlertGone, RoundsTyped, ReconcileTypeOK
  <2>2. UNCHANGED <<now, cursor, began, ended>>
    BY <1>3 DEF AlertGone, round
  <2> QED
    BY <2>1, <2>2
<1>4. ASSUME NEW m \in inbox, Webhook(m) \/ WebhookLost(m) PROVE InTime'
  BY <1>4, <1>1 DEF Webhook, WebhookLost, round
<1>5. ASSUME NEW to \in {"archived", "deleted"}, Administered(to) PROVE InTime'
  BY <1>5, <1>1 DEF Administered, world, round
<1>6. CASE TimePasses
  BY <1>6 DEF TimePasses, round
<1>7. CASE Begin \/ ListIssues \/ IssuesDone \/ ListAlerts \/ AlertsDone \/ AlertsFail
  BY <1>7, <1>1 DEF Begin, ListIssues, IssuesDone, ListAlerts, AlertsDone, AlertsFail, world
<1>8. ASSUME NEW c \in left, SaveRead(c) PROVE InTime'
  BY <1>8, <1>1 DEF SaveRead, world
<1>9. CASE SaveWrite \/ SaveFails \/ WriteBack
  BY <1>9, <1>1 DEF SaveWrite, SaveFails, WriteBack, world
<1>10. CASE Reread
  BY <1>10, <1>1 DEF Reread, EndRound, world
<1>11. CASE MoveCursor
  <2>1. cursor' \in {cursor, ended}
    BY <1>11 DEF MoveCursor, CursorAfter
  <2> QED
    BY <1>11, <2>1 DEF MoveCursor, EndRound, world
<1>12. CASE RoundFails
  BY <1>12, <1>1 DEF RoundFails, EndRound, world
<1>13. CASE UNCHANGED reconcileVars
  BY <1>13, <1>1 DEF reconcileVars, world, round
<1> QED
  BY <1>2, <1>3, <1>4, <1>5, <1>6, <1>7, <1>8, <1>9, <1>10, <1>11, <1>12, <1>13
     DEF ReconcileNext

LEMMA TidyStep ==
    ASSUME Tidy, [ReconcileNext]_reconcileVars
    PROVE  Tidy'
<1> USE DEF Tidy
<1>1. CASE UNCHANGED <<pc, page, full, soft, seen, left, save>>
  BY <1>1
<1>2. CASE pc' \notin {"idle", "writeback", "cursor"}
  BY <1>2
<1>3. CASE EndRound
  BY <1>3 DEF EndRound
<1>4. ASSUME NEW x \in Subjects, NEW s \in {"open", "fixed"}, SourceChanges(x, s) PROVE Tidy'
  BY <1>4 DEF SourceChanges
<1>5. ASSUME NEW x \in Alerts, AlertGone(x) PROVE Tidy'
  BY <1>5, <1>1 DEF AlertGone, round
<1>6. ASSUME NEW m \in inbox, Webhook(m) \/ WebhookLost(m) PROVE Tidy'
  BY <1>6, <1>1 DEF Webhook, WebhookLost, round
<1>7. ASSUME NEW to \in {"archived", "deleted"}, Administered(to) PROVE Tidy'
  BY <1>7, <1>1 DEF Administered, round
<1>8. CASE TimePasses
  BY <1>8, <1>1 DEF TimePasses, round
<1>9. CASE Begin \/ ListIssues \/ IssuesDone \/ ListAlerts \/ AlertsDone \/ AlertsFail
  BY <1>9, <1>2 DEF Begin, ListIssues, IssuesDone, ListAlerts, AlertsDone, AlertsFail
<1>10. ASSUME NEW c \in left, SaveRead(c) PROVE Tidy'
  BY <1>10 DEF SaveRead
<1>11. CASE SaveWrite \/ SaveFails
  BY <1>11 DEF SaveWrite, SaveFails
<1>12. CASE Reread
  BY <1>12, <1>3 DEF Reread, Calm
<1>13. CASE WriteBack
  BY <1>13 DEF WriteBack
<1>14. CASE MoveCursor \/ RoundFails
  BY <1>14, <1>3 DEF MoveCursor, RoundFails
<1>15. CASE UNCHANGED reconcileVars
  BY <1>15, <1>1 DEF reconcileVars, round
<1> QED
  BY <1>4, <1>5, <1>6, <1>7, <1>8, <1>9, <1>10, <1>11, <1>12, <1>13, <1>14, <1>15
     DEF ReconcileNext

LEMMA AsksFromCursorStep ==
    ASSUME RoundsTyped, InTime, Tidy, AsksFromCursor, [ReconcileNext]_reconcileVars
    PROVE  AsksFromCursor'
<1> USE DEF AsksFromCursor
<1>1. CASE UNCHANGED <<pc, page, since, cursor, began>>
  BY <1>1
<1>2. CASE UNCHANGED <<since, cursor>> /\ pc # "idle" /\ pc' # "issues"
  BY <1>2
<1>3. CASE EndRound
  BY <1>3 DEF EndRound
<1>4. ASSUME NEW x \in Subjects, NEW s \in {"open", "fixed"}, SourceChanges(x, s)
      PROVE  AsksFromCursor'
  BY <1>4, <1>1 DEF SourceChanges
<1>5. ASSUME NEW x \in Alerts, AlertGone(x) PROVE AsksFromCursor'
  BY <1>5, <1>1 DEF AlertGone, round
<1>6. ASSUME NEW m \in inbox, Webhook(m) \/ WebhookLost(m) PROVE AsksFromCursor'
  BY <1>6, <1>1 DEF Webhook, WebhookLost, round
<1>7. ASSUME NEW to \in {"archived", "deleted"}, Administered(to) PROVE AsksFromCursor'
  BY <1>7, <1>1 DEF Administered, round
<1>8. CASE TimePasses
  BY <1>8, <1>1 DEF TimePasses, round
<1>9. CASE Begin
  BY <1>9 DEF Begin, Tidy
<1>10. CASE ListIssues
  <2>1. UNCHANGED <<pc, since, cursor>> /\ pc = "issues" /\ page' = page + 1
        /\ began' = IF page = 0 THEN now ELSE began
    BY <1>10 DEF ListIssues, Listed
  <2>2. page \in Nat
    BY DEF RoundsTyped, ReconcileTypeOK
  <2> QED
    BY <2>1, <2>2 DEF InTime
<1>11. CASE IssuesDone \/ ListAlerts \/ AlertsDone \/ AlertsFail
  BY <1>11, <1>2 DEF IssuesDone, ListAlerts, AlertsDone, AlertsFail
<1>12. ASSUME NEW c \in left, SaveRead(c) PROVE AsksFromCursor'
  BY <1>12, <1>1 DEF SaveRead
<1>13. CASE SaveWrite \/ SaveFails
  BY <1>13, <1>1 DEF SaveWrite, SaveFails
<1>14. CASE Reread
  BY <1>14, <1>2, <1>3 DEF Reread
<1>15. CASE WriteBack
  BY <1>15, <1>2 DEF WriteBack
<1>16. CASE MoveCursor \/ RoundFails
  BY <1>16, <1>3 DEF MoveCursor, RoundFails
<1>17. CASE UNCHANGED reconcileVars
  BY <1>17, <1>1 DEF reconcileVars, round
<1> QED
  BY <1>4, <1>5, <1>6, <1>7, <1>8, <1>9, <1>10, <1>11, <1>12, <1>13, <1>14, <1>15, <1>16,
     <1>17 DEF ReconcileNext

(* What a webhook and a store do to the rows.                              *)
LEMMA WebhookRaises ==
    ASSUME RoundsTyped, NEW m \in inbox, Webhook(m) \/ WebhookLost(m)
    PROVE  /\ \A x \in Subjects : local[x].at <= local'[x].at
           /\ UNCHANGED <<source, now, enabled, cursor, missed, round>>
<1>1. \A x \in Subjects : local'[x] = local[x]
          \/ (x = m.x /\ local'[x].at = m.at /\ Newer(local[m.x], m.at, m.state))
  BY DEF Webhook, WebhookLost, RoundsTyped, ReconcileTypeOK
<1>2. \A x \in Subjects : Newer(local[x], m.at, m.state) => local[x].at <= m.at
  BY RoundFacts DEF Newer
<1>3. UNCHANGED <<source, now, enabled, cursor, missed, round>>
  BY DEF Webhook, WebhookLost, history
<1> QED
  BY <1>1, <1>2, <1>3, RoundFacts

LEMMA SaveWriteDoes ==
    ASSUME RoundsTyped, SaveWrite
    PROVE  /\ \A x \in Subjects : x # save.x => local'[x] = local[x]
           /\ save.x \in Subjects =>
                  \/ local'[save.x].at = save.new.at
                  \/ local'[save.x] = local[save.x] /\ save.new.at <= save.known.at
           /\ save' = Idle /\ save # Idle
<1>1. CASE Newer(save.known, save.new.at, save.new.state)
  <2>1. local' = [local EXCEPT ![save.x] = save.new]
    BY <1>1 DEF SaveWrite
  <2> QED
    BY <2>1 DEF SaveWrite, RoundsTyped, ReconcileTypeOK
<1>2. CASE ~Newer(save.known, save.new.at, save.new.state)
  <2>1. save.new.at <= save.known.at
    BY <1>2, RoundFacts DEF Newer
  <2> QED
    BY <1>2, <2>1 DEF SaveWrite
<1> QED
  BY <1>1, <1>2

(* GitHub's changes, as the issues see them.                               *)
LEMMA SourceAfter ==
    ASSUME RoundsTyped, InTime, NEW x \in Subjects,
           (\E s \in {"open", "fixed"} : SourceChanges(x, s)) \/ (x \in Alerts /\ AlertGone(x))
    PROVE  /\ source'[x].at = now /\ source[x].at < now /\ source'[x].state # "none"
           /\ \A y \in Subjects : y # x => source'[y] = source[y]
           /\ seen' \cap Issues = (seen \cap Issues) \ {x}
           /\ UNCHANGED <<now, enabled, local, cursor, pc, since, page, full, soft, left, save,
                          began, ended, missed>>
<1>1. ASSUME NEW s \in {"open", "fixed"}, SourceChanges(x, s)
      PROVE  /\ source'[x].at = now /\ source[x].at < now /\ source'[x].state # "none"
             /\ \A y \in Subjects : y # x => source'[y] = source[y]
  BY <1>1 DEF SourceChanges, RoundsTyped, ReconcileTypeOK
<1>2. ASSUME x \in Alerts, AlertGone(x)
      PROVE  /\ source'[x].at = now /\ source[x].at < now /\ source'[x].state # "none"
             /\ \A y \in Subjects : y # x => source'[y] = source[y]
  BY <1>2 DEF AlertGone, RoundsTyped, ReconcileTypeOK
<1>3. seen' \cap Issues = (seen \cap Issues) \ {x}
  <2>1. ASSUME NEW s \in {"open", "fixed"}, SourceChanges(x, s)
        PROVE  seen' \cap Issues = (seen \cap Issues) \ {x}
    BY <2>1 DEF SourceChanges
  <2>2. ASSUME x \in Alerts, AlertGone(x) PROVE seen' \cap Issues = (seen \cap Issues) \ {x}
    <3>1. seen' = seen /\ x \notin Issues
      BY <2>2, ReconcileAssumption DEF AlertGone, round
    <3> QED
      BY <3>1
  <2> QED
    BY <2>1, <2>2
<1>4. UNCHANGED <<now, enabled, local, cursor, pc, since, page, full, soft, left, save,
                  began, ended, missed>>
  BY DEF SourceChanges, AlertGone, round
<1> QED
  BY <1>1, <1>2, <1>3, <1>4

LEMMA InHandKnownStep ==
    ASSUME RoundsTyped, InTime, Tidy, AsksFromCursor, InHandKnown,
           [ReconcileNext]_reconcileVars
    PROVE  InHandKnown'
<1> USE RoundFacts DEF InHandKnown, NotYounger
<1>1. CASE UNCHANGED <<source, cursor, local, began, seen>> /\ left' \subseteq left
           /\ (save' = save \/ save' = Idle)
  BY <1>1
<1>2. CASE left' = {} /\ save' = Idle
  BY <1>2
<1>3. ASSUME NEW x \in Subjects,
             (\E s \in {"open", "fixed"} : SourceChanges(x, s)) \/ (x \in Alerts /\ AlertGone(x))
      PROVE  InHandKnown'
  BY <1>3, SourceAfter DEF InTime
<1>4. ASSUME NEW m \in inbox, Webhook(m) \/ WebhookLost(m) PROVE InHandKnown'
  <2>1. /\ \A x \in Subjects : local[x].at <= local'[x].at /\ local'[x].at \in Nat
        /\ UNCHANGED <<source, cursor, left, save, began, seen>>
    <3>1. \A x \in Subjects : local'[x].at \in Nat
      BY RoundsTypedStep DEF ReconcileTypeOK, RoundsTyped, Stored
    <3> QED
      BY <1>4, <3>1, WebhookRaises DEF round
  <2> QED
    BY <2>1
<1>5. ASSUME NEW to \in {"archived", "deleted"}, Administered(to) PROVE InHandKnown'
  BY <1>5, <1>1 DEF Administered, world, round
<1>6. CASE TimePasses \/ Begin \/ IssuesDone \/ AlertsFail \/ SaveFails \/ WriteBack
  BY <1>6, <1>1 DEF TimePasses, Begin, IssuesDone, AlertsFail, SaveFails, WriteBack, world, round
<1>7. CASE ListIssues
  <2> DEFINE list == {x \in Issues : source[x].state # "none" /\ source[x].at >= since}
             got == PageOf([x \in list |-> Cardinality({y \in list : LaterUpdate(y, x)})])
  <2>1. left' = {Change(x, source[x].at, source[x].state) : x \in got}
    BY <1>7 DEF ListIssues, Listed
  <2> HIDE DEF got
  <2>2. \A c \in left' : c.at = source[c.x].at
    BY <2>1 DEF Change
  <2>3. UNCHANGED <<source, cursor>> /\ save = Idle /\ save' = Idle
        /\ began' = (IF page = 0 THEN now ELSE began) /\ pc = "issues"
    BY <1>7 DEF ListIssues, world, Calm
  <2>4. cursor <= began'
    <3>1. page = 0 \/ page > 0
      BY DEF RoundsTyped, ReconcileTypeOK
    <3> QED
      BY <2>3, <3>1 DEF InTime, AsksFromCursor
  <2> QED
    BY <2>2, <2>3, <2>4
<1>8. CASE ListAlerts
  <2> DEFINE list == {x \in Alerts : source[x].state \in {"open", "fixed"}}
             got == PageOf([x \in list |-> Cardinality({y \in list : y > x})])
  <2>1. \A x \in got : x \in Alerts
    BY DEF PageOf
  <2>2. left' = {Change(x, source[x].at, source[x].state) : x \in got} /\ save = Idle /\ save' = Idle
    BY <1>8 DEF ListAlerts, Listed, Calm
  <2> HIDE DEF got
  <2>3. \A c \in left' : c.x \notin Issues
    <3> SUFFICES ASSUME NEW c \in left' PROVE c.x \notin Issues
      OBVIOUS
    <3>1. PICK x \in got : c = Change(x, source[x].at, source[x].state)
      BY <2>2
    <3>2. c.x = x
      BY <3>1 DEF Change
    <3> QED
      BY <2>1, <3>2, ReconcileAssumption
  <2> QED
    BY <2>2, <2>3
<1>9. CASE AlertsDone
  <2>1. \A c \in left' : c.x \notin Issues
    BY <1>9, ReconcileAssumption DEF AlertsDone, Doomed, Change
  <2>2. save = Idle /\ save' = Idle
    BY <1>9 DEF AlertsDone, Calm
  <2> QED
    BY <2>1, <2>2
<1>10. ASSUME NEW c \in left, SaveRead(c) PROVE InHandKnown'
  <2>1. save'.x = c.x /\ save'.new.at = c.at /\ save'.known = local[c.x] /\ left' \subseteq left
        /\ UNCHANGED <<source, cursor, local, began, seen>>
    BY <1>10 DEF SaveRead, world
  <2> QED
    BY <2>1
<1>11. CASE SaveWrite
  <2>1. save' = Idle /\ UNCHANGED <<source, cursor, left, began, seen>>
    BY <1>11 DEF SaveWrite, world
  <2> QED
    BY <2>1
<1>12. CASE Reread
  BY <1>12, <1>1, <1>2 DEF Reread, EndRound, world
<1>13. CASE MoveCursor \/ RoundFails
  BY <1>13, <1>2 DEF MoveCursor, RoundFails, EndRound
<1>14. CASE UNCHANGED reconcileVars
  BY <1>14, <1>1 DEF reconcileVars, world, round
<1> QED
  BY <1>3, <1>4, <1>5, <1>6, <1>7, <1>8, <1>9, <1>10, <1>11, <1>12, <1>13, <1>14
     DEF ReconcileNext, Subjects

LEMMA SeenStoredStep ==
    ASSUME RoundsTyped, InTime, Tidy, InHandKnown, SeenStored, [ReconcileNext]_reconcileVars
    PROVE  SeenStored'
<1> USE RoundFacts DEF SeenStored
<1>1. CASE UNCHANGED <<source, local, seen, soft, left, save>>
  BY <1>1
<1>2. CASE seen' = {} \/ soft'
  BY <1>2
<1>3. ASSUME NEW x \in Subjects,
             (\E s \in {"open", "fixed"} : SourceChanges(x, s)) \/ (x \in Alerts /\ AlertGone(x))
      PROVE  SeenStored'
  BY <1>3, SourceAfter
<1>4. ASSUME NEW m \in inbox, Webhook(m) \/ WebhookLost(m) PROVE SeenStored'
  <2>1. \A x \in Subjects : local'[x].at \in Nat
    BY RoundsTypedStep DEF ReconcileTypeOK, RoundsTyped, Stored
  <2> QED
    BY <1>4, <2>1, WebhookRaises DEF round
<1>5. ASSUME NEW to \in {"archived", "deleted"}, Administered(to) PROVE SeenStored'
  BY <1>5, <1>1 DEF Administered, world, round
<1>6. CASE TimePasses \/ Begin \/ IssuesDone \/ WriteBack
  BY <1>6, <1>1 DEF TimePasses, Begin, IssuesDone, WriteBack, world, round
<1>7. CASE ListIssues
  <2> DEFINE list == {x \in Issues : source[x].state # "none" /\ source[x].at >= since}
             got == PageOf([x \in list |-> Cardinality({y \in list : LaterUpdate(y, x)})])
  <2>1. left' = {Change(x, source[x].at, source[x].state) : x \in got} /\ seen' = seen \cup got
        /\ UNCHANGED <<source, local, soft>> /\ left = {} /\ save = Idle
    BY <1>7 DEF ListIssues, Listed, world, Calm
  <2> HIDE DEF got
  <2>2. ASSUME NEW x \in got PROVE \E c \in left' : c.x = x /\ c.at = source[x].at
    <3>1. Change(x, source[x].at, source[x].state) \in left'
      BY <2>1, <2>2
    <3> QED
      BY <3>1 DEF Change
  <2> QED
    BY <2>1, <2>2
<1>8. CASE ListAlerts
  <2> DEFINE list == {x \in Alerts : source[x].state \in {"open", "fixed"}}
             got == PageOf([x \in list |-> Cardinality({y \in list : y > x})])
  <2>1. \A x \in got : x \in Alerts
    BY DEF PageOf
  <2>2. seen' = seen \cup got /\ UNCHANGED <<source, local, soft>> /\ left = {} /\ save = Idle
    BY <1>8 DEF ListAlerts, Listed, world, Calm
  <2> HIDE DEF got
  <2>3. seen' \cap Issues = seen \cap Issues
    BY <2>1, <2>2, ReconcileAssumption
  <2> QED
    BY <2>2, <2>3
<1>9. CASE AlertsDone
  <2>1. left = {} /\ save = Idle /\ UNCHANGED <<source, local, soft, seen>>
    BY <1>9 DEF AlertsDone, Calm, world
  <2> QED
    BY <2>1
<1>10. CASE AlertsFail
  BY <1>10, <1>2 DEF AlertsFail
<1>11. ASSUME NEW c \in left, SaveRead(c) PROVE SeenStored'
  <2>1. save'.x = c.x /\ save'.new.at = c.at /\ left' = left \ {c} /\ save = Idle
        /\ UNCHANGED <<source, local, seen, soft>>
    BY <1>11 DEF SaveRead, world
  <2>2. c.x \in Issues => save' # Idle
    BY <2>1, ReconcileAssumption DEF Idle
  <2> QED
    BY <2>1, <2>2
<1>12. CASE SaveWrite
  <2> SUFFICES ASSUME NEW x \in seen \cap Issues, ~soft
               PROVE  source[x].at <= local'[x].at \/ \E c \in left : c.x = x /\ c.at = source[x].at
    BY <1>12 DEF SaveWrite, world
  <2>1. CASE x # save.x
    BY <1>12, <2>1, SaveWriteDoes
  <2>2. CASE x = save.x /\ local'[x].at = save.new.at
    <3>1. save.new.at = source[x].at
      BY <1>12, <2>2, SaveWriteDoes DEF InHandKnown, NotYounger
    <3> QED
      BY <2>2, <3>1
  <2>3. CASE x = save.x /\ local'[x] = local[x] /\ save.new.at <= save.known.at
    BY <1>12, <2>3, SaveWriteDoes DEF InHandKnown, NotYounger
  <2> QED
    BY <1>12, <2>1, <2>2, <2>3, SaveWriteDoes
<1>13. CASE SaveFails
  <2>1. UNCHANGED <<source, local, seen, left>> /\ soft' = (soft \/ save.x \in Issues)
    BY <1>13 DEF SaveFails, SoftFails, world
  <2> QED
    BY <2>1
<1>14. CASE Reread
  BY <1>14, <1>1, <1>2 DEF Reread, EndRound, world
<1>15. CASE MoveCursor \/ RoundFails
  BY <1>15, <1>2 DEF MoveCursor, RoundFails, EndRound
<1>16. CASE UNCHANGED reconcileVars
  BY <1>16, <1>1 DEF reconcileVars, world, round
<1> QED
  BY <1>3, <1>4, <1>5, <1>6, <1>7, <1>8, <1>9, <1>10, <1>11, <1>12, <1>13, <1>14, <1>15, <1>16
     DEF ReconcileNext, Subjects

LEMMA IssuesInOrder ==
    ASSUME RoundsTyped
    PROVE  InOrder(IssuesListed, [x \in IssuesListed |-> {y \in IssuesListed : LaterUpdate(y, x)}])
<1> DEFINE above == [x \in IssuesListed |-> {y \in IssuesListed : LaterUpdate(y, x)}]
<1>1. IsFiniteSet(IssuesListed) /\ IssuesListed \subseteq Nat
  BY ReconcileAssumption, FS_Subset DEF IssuesListed
<1>2. \A x, y \in IssuesListed : x \in above[y] <=> LaterUpdate(x, y)
  OBVIOUS
<1>3. above \in [IssuesListed -> SUBSET IssuesListed]
  OBVIOUS
<1>4. \A x \in IssuesListed : source[x].at \in Nat
  BY RoundFacts DEF IssuesListed
<1>5. /\ \A x \in IssuesListed : ~ LaterUpdate(x, x)
      /\ \A x, y \in IssuesListed : x = y \/ LaterUpdate(x, y) \/ LaterUpdate(y, x)
      /\ \A x, y, z \in IssuesListed : LaterUpdate(z, x) /\ LaterUpdate(x, y) => LaterUpdate(z, y)
  BY <1>1, <1>4 DEF LaterUpdate
<1>6. \A x, y \in IssuesListed : x \in above[y] => above[x] \subseteq above[y]
  <2> SUFFICES ASSUME NEW x \in IssuesListed, NEW y \in IssuesListed, x \in above[y],
                      NEW z \in above[x]
               PROVE  z \in above[y]
    OBVIOUS
  <2>1. z \in IssuesListed
    BY <1>3
  <2> HIDE DEF above
  <2> QED
    BY <1>2, <1>5, <2>1
<1> HIDE DEF above
<1> QED
  BY <1>1, <1>2, <1>3, <1>5, <1>6 DEF InOrder, above

(* An issue that changes moves to the front, so that nothing moves ahead.  *)
LEMMA IssuesReadAfterChange ==
    ASSUME RoundsTyped, InTime, IssuesRead, NEW x \in Subjects,
           (\E s \in {"open", "fixed"} : SourceChanges(x, s)) \/ (x \in Alerts /\ AlertGone(x))
    PROVE  IssuesRead'
<1>1. /\ source'[x].at = now /\ source[x].at < now /\ source'[x].state # "none"
      /\ \A y \in Subjects : y # x => source'[y] = source[y]
      /\ seen' \cap Issues = (seen \cap Issues) \ {x}
      /\ UNCHANGED <<now, pc, since, page, full, began>>
  BY SourceAfter
<1>2. IssuesListed \subseteq IssuesListed' /\ \A y \in IssuesListed' : y # x => y \in IssuesListed
  BY <1>1, RoundFacts DEF IssuesListed
<1>3. \A y \in IssuesListed : y # x => IssueRank(y) <= IssueRank(y)'
  <2> SUFFICES ASSUME NEW y \in IssuesListed, y # x PROVE IssueRank(y) <= IssueRank(y)'
    OBVIOUS
  <2> DEFINE before == {z \in IssuesListed : LaterUpdate(z, y)}
             after == {z \in IssuesListed' : LaterUpdate(z, y)'}
  <2>1. \A z \in IssuesListed : LaterUpdate(z, y) => LaterUpdate(z, y)'
    <3> SUFFICES ASSUME NEW z \in IssuesListed, LaterUpdate(z, y) PROVE LaterUpdate(z, y)'
      OBVIOUS
    <3>1. y \in Subjects /\ z \in Subjects
      BY DEF IssuesListed, Subjects
    <3>2. source'[y] = source[y] /\ source[y].at \in Nat /\ source[z].at \in Nat
          /\ source[y].at <= now /\ now \in Nat
      BY <1>1, <3>1, RoundFacts DEF InTime
    <3>3. CASE z = x
      BY <1>1, <3>2, <3>3 DEF LaterUpdate
    <3>4. CASE z # x
      BY <1>1, <3>1, <3>2, <3>4 DEF LaterUpdate
    <3> QED
      BY <3>3, <3>4
  <2>2. before \subseteq after
    BY <1>2, <2>1
  <2>3. IsFiniteSet(after)
    BY ReconcileAssumption, FS_Subset DEF IssuesListed
  <2>4. Cardinality(before) <= Cardinality(after)
    BY <2>2, <2>3, FS_Subset
  <2> QED
    BY <2>4 DEF IssueRank
<1>4. \A y \in IssuesListed : IssueRank(y) \in Nat /\ IssueRank(y)' \in Nat
  <2>1. IsFiniteSet(IssuesListed) /\ IsFiniteSet(IssuesListed')
    BY ReconcileAssumption, FS_Subset DEF IssuesListed
  <2> QED
    BY <2>1, FS_Subset, FS_CardinalityType DEF IssueRank
<1>5. page * PageSize \in Nat /\ began <= now
  BY PageBounds DEF InTime
<1>6. ASSUME NEW y \in IssuesListed', pc = "issues", page > 0
      PROVE  y \in seen' \/ began <= source'[y].at \/ (full /\ page * PageSize <= IssueRank(y)')
  <2>1. CASE y = x
    BY <1>1, <1>5, <2>1
  <2>2. CASE y # x
    <3>1. y \in IssuesListed /\ y \in Issues /\ y \in Subjects
      BY <1>2, <2>2 DEF IssuesListed, Subjects
    <3>2. y \in seen \/ began <= source[y].at \/ (full /\ page * PageSize <= IssueRank(y))
      BY <1>6, <3>1 DEF IssuesRead
    <3> QED
      BY <1>1, <1>3, <1>4, <1>5, <2>2, <3>1, <3>2
  <2> QED
    BY <2>1, <2>2
<1> QED
  BY <1>1, <1>6 DEF IssuesRead

LEMMA IssuesReadAfterList ==
    ASSUME RoundsTyped, InTime, IssuesRead, ListIssues
    PROVE  IssuesRead'
<1> DEFINE above == [x \in IssuesListed |-> {y \in IssuesListed : LaterUpdate(y, x)}]
           rank == [x \in IssuesListed |-> Cardinality({y \in IssuesListed : LaterUpdate(y, x)})]
<1>1. InOrder(IssuesListed, above)
  BY IssuesInOrder
<1>2. rank = [x \in IssuesListed |-> RankIn(above, x)]
  BY DEF RankIn
<1>3. \A x \in IssuesListed : rank[x] = IssueRank(x)
  BY DEF IssueRank
<1>4. Listed(PageOf(rank))
  BY DEF ListIssues, IssuesListed
<1>5. UNCHANGED <<source, since, pc>> /\ pc = "issues" /\ MorePages
      /\ began' = IF page = 0 THEN now ELSE began
  BY DEF ListIssues, world
<1>6. IssuesListed' = IssuesListed /\ \A x : IssueRank(x)' = IssueRank(x)
  BY <1>5 DEF IssuesListed, IssueRank, LaterUpdate
<1>7. \A x \in IssuesListed : rank[x] \in Nat
  <2>1. \A x \in IssuesListed : RankIn(above, x) \in Nat
    <3> HIDE DEF above
    <3> QED
      BY <1>1, RankType
  <2> QED
    BY <1>2, <2>1
<1> HIDE DEF above, rank
<1>8. /\ \A x \in IssuesListed : page * PageSize <= rank[x] =>
             x \in PageOf(rank) \/ (page + 1) * PageSize <= rank[x]
      /\ \A x \in IssuesListed : (page + 1) * PageSize <= rank[x] =>
             Cardinality(PageOf(rank)) = PageSize
  BY <1>1, <1>2, PageOfList
<1>9. seen' = seen \cup PageOf(rank) /\ page' = page + 1
      /\ full' = (Cardinality(PageOf(rank)) = PageSize)
  BY <1>4 DEF Listed
<1>10. ASSUME NEW x \in IssuesListed
       PROVE  x \in seen \/ (page > 0 /\ began <= source[x].at) \/ page * PageSize <= rank[x]
  <2>1. CASE page = 0
    <3>1. page * PageSize = 0
      BY <2>1, ReconcileAssumption
    <3> QED
      BY <1>7, <3>1
  <2>2. CASE page # 0
    <3>1. page > 0
      BY <2>2 DEF RoundsTyped, ReconcileTypeOK
    <3> QED
      BY <1>3, <1>5, <3>1 DEF IssuesRead
  <2> QED
    BY <2>1, <2>2
<1>11. ASSUME NEW x \in IssuesListed
       PROVE  x \in seen' \/ began' <= source'[x].at
              \/ (full' /\ page' * PageSize <= IssueRank(x)')
  <2>1. CASE x \in seen
    BY <1>9, <2>1
  <2>2. CASE page > 0 /\ began <= source[x].at
    <3>1. page # 0
      BY <2>2
    <3> QED
      BY <1>5, <2>2, <3>1
  <2>3. CASE page * PageSize <= rank[x]
    <3>1. x \in PageOf(rank)
          \/ ((page + 1) * PageSize <= rank[x] /\ Cardinality(PageOf(rank)) = PageSize)
      BY <1>8, <2>3
    <3> QED
      BY <1>3, <1>6, <1>9, <3>1
  <2> QED
    BY <1>10, <2>1, <2>2, <2>3
<1> QED
  BY <1>5, <1>6, <1>11 DEF IssuesRead

LEMMA IssuesReadStep ==
    ASSUME RoundsTyped, InTime, Tidy, IssuesRead, [ReconcileNext]_reconcileVars
    PROVE  IssuesRead'
<1>1. CASE UNCHANGED <<source, pc, since, page, full, seen, began>>
  <2>1. IssuesListed' = IssuesListed /\ \A x : IssueRank(x)' = IssueRank(x)
    BY <1>1 DEF IssuesListed, IssueRank, LaterUpdate
  <2> QED
    BY <1>1, <2>1 DEF IssuesRead
<1>2. CASE pc' # "issues"
  BY <1>2 DEF IssuesRead
<1>3. ASSUME NEW x \in Subjects,
             (\E s \in {"open", "fixed"} : SourceChanges(x, s)) \/ (x \in Alerts /\ AlertGone(x))
      PROVE  IssuesRead'
  BY <1>3, IssuesReadAfterChange
<1>4. ASSUME NEW m \in inbox, Webhook(m) \/ WebhookLost(m) PROVE IssuesRead'
  BY <1>4, <1>1 DEF Webhook, WebhookLost, round
<1>5. ASSUME NEW to \in {"archived", "deleted"}, Administered(to) PROVE IssuesRead'
  BY <1>5, <1>1 DEF Administered, world, round
<1>6. CASE TimePasses
  BY <1>6, <1>1 DEF TimePasses, round
<1>7. CASE Begin
  <2>1. page' = 0
    BY <1>7 DEF Begin, Tidy
  <2> QED
    BY <2>1 DEF IssuesRead
<1>8. CASE ListIssues
  BY <1>8, IssuesReadAfterList
<1>9. CASE IssuesDone \/ ListAlerts \/ AlertsDone \/ AlertsFail \/ Reread \/ WriteBack
  BY <1>9, <1>2 DEF IssuesDone, ListAlerts, AlertsDone, AlertsFail, Reread, EndRound, WriteBack
<1>10. ASSUME NEW c \in left, SaveRead(c) PROVE IssuesRead'
  BY <1>10, <1>1 DEF SaveRead, world
<1>11. CASE SaveWrite \/ SaveFails
  BY <1>11, <1>1 DEF SaveWrite, SaveFails, world
<1>12. CASE MoveCursor \/ RoundFails
  BY <1>12, <1>2 DEF MoveCursor, RoundFails, EndRound
<1>13. CASE UNCHANGED reconcileVars
  BY <1>13, <1>1 DEF reconcileVars, world, round
<1> QED
  BY <1>3, <1>4, <1>5, <1>6, <1>7, <1>8, <1>9, <1>10, <1>11, <1>12, <1>13
     DEF ReconcileNext, Subjects

(* An issue the row lacked at the end of the list, unshown.                *)
LEMMA UnseenAtTheEnd ==
    ASSUME RoundsTyped, InTime, AsksFromCursor, Covered, IssuesRead, IssuesDone,
           NEW x \in Issues \ seen, Lags(x)
    PROVE  began <= source[x].at \/ x \in missed'
<1>1. pc = "issues" /\ page > 0 /\ (full => {y \in Issues : local[y] # source[y]} \ seen \subseteq missed')
      /\ missed \subseteq missed'
  BY DEF IssuesDone, MorePages, RoundsTyped, ReconcileTypeOK
<1>2. x \in Subjects /\ local[x] # source[x] /\ source[x].state # "none"
  BY RoundFacts DEF Lags, InTime, Subjects
<1>3. CASE x \in IssuesListed
  <2>1. began <= source[x].at \/ full
    BY <1>1, <1>3 DEF IssuesRead
  <2> QED
    BY <1>1, <1>2, <2>1
<1>4. CASE x \notin IssuesListed
  <2>1. source[x].at < since
    BY <1>2, <1>4, RoundFacts DEF IssuesListed
  <2>2. cursor # -1 /\ since = cursor - Overlap
    BY <1>1, <1>2, <2>1, RoundFacts DEF AsksFromCursor
  <2>3. x \in missed
    BY <1>2, <2>1, <2>2, RoundFacts DEF Covered
  <2> QED
    BY <1>1, <2>3
<1> QED
  BY <1>3, <1>4

LEMMA UnseenAccountedStep ==
    ASSUME RoundsTyped, InTime, AsksFromCursor, InHandKnown, Covered, IssuesRead,
           UnseenAccounted, [ReconcileNext]_reconcileVars
    PROVE  UnseenAccounted'
<1> USE RoundFacts DEF UnseenAccounted, Lags
<1>1. CASE UNCHANGED <<source, local, pc, enabled, seen, began, missed>>
  BY <1>1
<1>2. CASE pc' \in {"idle", "issues"}
  BY <1>2
<1>3. CASE /\ UNCHANGED <<source, local, enabled, began, missed>> /\ seen \subseteq seen'
           /\ pc \in {"alerts", "reread", "writeback"}
  BY <1>3
<1>4. ASSUME NEW x \in Subjects,
             (\E s \in {"open", "fixed"} : SourceChanges(x, s)) \/ (x \in Alerts /\ AlertGone(x))
      PROVE  UnseenAccounted'
  BY <1>4, SourceAfter DEF InTime
<1>5. ASSUME NEW m \in inbox, Webhook(m) \/ WebhookLost(m) PROVE UnseenAccounted'
  <2>1. \A x \in Subjects : local'[x].at \in Nat
    BY RoundsTypedStep DEF ReconcileTypeOK, RoundsTyped, Stored
  <2> QED
    BY <1>5, <2>1, WebhookRaises DEF round
<1>6. ASSUME NEW to \in {"archived", "deleted"}, Administered(to) PROVE UnseenAccounted'
  BY <1>6, <1>1 DEF Administered, world, round
<1>7. CASE TimePasses
  BY <1>7, <1>1 DEF TimePasses, round, history
<1>8. CASE Begin
  <2>1. pc' = "issues" \/ "issues" \notin enabled'
    BY <1>8 DEF Begin, world
  <2> QED
    BY <2>1
<1>9. CASE IssuesDone
  <2>1. \A x \in Issues \ seen : Lags(x) => began <= source[x].at \/ x \in missed'
    BY <1>9, UnseenAtTheEnd
  <2>2. UNCHANGED <<source, local, seen, began>>
    BY <1>9 DEF IssuesDone, world
  <2> QED
    BY <2>1, <2>2
<1>10. CASE ListIssues
  BY <1>10, <1>2 DEF ListIssues
<1>11. CASE ListAlerts \/ AlertsDone \/ AlertsFail \/ WriteBack
  BY <1>11, <1>3 DEF ListAlerts, Listed, AlertsDone, AlertsFail, WriteBack, world, history
<1>12. ASSUME NEW c \in left, SaveRead(c) PROVE UnseenAccounted'
  BY <1>12, <1>1 DEF SaveRead, world, history
<1>13. CASE SaveWrite
  <2>1. UNCHANGED <<source, enabled, pc, seen, began, missed>>
    BY <1>13 DEF SaveWrite, world
  <2>2. ASSUME NEW x \in Issues, x = save.x, local'[x].at < source[x].at
        PROVE  began <= source[x].at \/ Lags(x)
    BY <1>13, <2>2, SaveWriteDoes DEF InHandKnown, NotYounger
  <2>3. \A x \in Issues : x # save.x => local'[x] = local[x]
    BY <1>13, SaveWriteDoes
  <2> QED
    BY <2>1, <2>2, <2>3
<1>14. CASE SaveFails
  BY <1>14, <1>1 DEF SaveFails, world, history
<1>15. CASE Reread
  <2>1. UNCHANGED <<source, local, enabled, missed>> /\ pc = "reread"
    BY <1>15 DEF Reread, world, history
  <2>2. CASE EndRound
    BY <2>2, <1>2 DEF EndRound
  <2>3. CASE ~EndRound
    BY <1>15, <2>1, <2>3, <1>3 DEF Reread
  <2> QED
    BY <2>2, <2>3
<1>16. CASE MoveCursor \/ RoundFails
  BY <1>16, <1>2 DEF MoveCursor, RoundFails, EndRound
<1>17. CASE UNCHANGED reconcileVars
  BY <1>17, <1>1 DEF reconcileVars, world, round, history
<1> QED
  BY <1>4, <1>5, <1>6, <1>7, <1>8, <1>9, <1>10, <1>11, <1>12, <1>13, <1>14, <1>15, <1>16,
     <1>17 DEF ReconcileNext, Subjects

LEMMA CoveredStep ==
    ASSUME RoundsTyped, InTime, Tidy, InHandKnown, SeenStored, UnseenAccounted, Covered,
           [ReconcileNext]_reconcileVars
    PROVE  Covered'
<1> USE RoundFacts DEF Covered, Lags
<1>1. CASE UNCHANGED <<source, local, cursor>> /\ missed \subseteq missed'
  BY <1>1
<1>2. ASSUME NEW x \in Subjects,
             (\E s \in {"open", "fixed"} : SourceChanges(x, s)) \/ (x \in Alerts /\ AlertGone(x))
      PROVE  Covered'
  BY <1>2, SourceAfter DEF InTime
<1>3. ASSUME NEW m \in inbox, Webhook(m) \/ WebhookLost(m) PROVE Covered'
  <2>1. \A x \in Subjects : local'[x].at \in Nat
    BY RoundsTypedStep DEF ReconcileTypeOK, RoundsTyped, Stored
  <2> QED
    BY <1>3, <2>1, WebhookRaises DEF round
<1>4. ASSUME NEW to \in {"archived", "deleted"}, Administered(to) PROVE Covered'
  BY <1>4, <1>1 DEF Administered, world
<1>5. CASE TimePasses \/ Begin \/ ListIssues \/ IssuesDone \/ ListAlerts \/ AlertsDone
  BY <1>5, <1>1 DEF TimePasses, Begin, ListIssues, IssuesDone, ListAlerts, AlertsDone, world,
                    history
<1>6. CASE AlertsFail \/ SaveFails \/ Reread \/ WriteBack \/ RoundFails
  BY <1>6, <1>1 DEF AlertsFail, SaveFails, Reread, WriteBack, RoundFails, world, history
<1>7. ASSUME NEW c \in left, SaveRead(c) PROVE Covered'
  BY <1>7, <1>1 DEF SaveRead, world, history
<1>8. CASE SaveWrite
  <2>1. UNCHANGED <<source, cursor, missed>>
    BY <1>8 DEF SaveWrite, world
  <2>2. ASSUME NEW x \in Issues, x = save.x, local'[x].at < source[x].at
        PROVE  cursor <= source[x].at \/ Lags(x)
    BY <1>8, <2>2, SaveWriteDoes DEF InHandKnown, NotYounger
  <2>3. \A x \in Issues : x # save.x => local'[x] = local[x]
    BY <1>8, SaveWriteDoes
  <2> QED
    BY <2>1, <2>2, <2>3
<1>9. CASE MoveCursor
  <2> SUFFICES ASSUME NEW x \in Issues, cursor' # -1, Lags(x)
               PROVE  cursor' - Overlap <= source[x].at \/ x \in missed'
    BY <1>9 DEF MoveCursor, world
  <2>1. x \in Subjects /\ local[x] # source[x]
    BY DEF Subjects
  <2>2. x \in missed => x \in missed'
    BY <1>9, <2>1 DEF MoveCursor
  <2>3. CASE ~("issues" \in enabled /\ ~soft)
    BY <1>9, <2>2, <2>3 DEF MoveCursor
  <2>4. CASE "issues" \in enabled /\ ~soft
    <3>1. {y \in Issues \ seen : began <= source[y].at} \subseteq missed'
      BY <1>9, <2>4 DEF MoveCursor
    <3>2. x \notin seen
      BY <1>9, <2>1, <2>4 DEF MoveCursor, Tidy, SeenStored
    <3>3. began <= source[x].at \/ x \in missed
      BY <1>9, <2>4, <3>2 DEF MoveCursor, UnseenAccounted
    <3> QED
      BY <2>2, <3>1, <3>2, <3>3
  <2> QED
    BY <2>3, <2>4
<1>10. CASE UNCHANGED reconcileVars
  BY <1>10, <1>1 DEF reconcileVars, world, history
<1> QED
  BY <1>2, <1>3, <1>4, <1>5, <1>6, <1>7, <1>8, <1>9, <1>10 DEF ReconcileNext, Subjects

CursorIInv ==
    /\ RoundsTyped /\ InTime /\ Tidy /\ AsksFromCursor
    /\ InHandKnown /\ SeenStored /\ Covered /\ IssuesRead /\ UnseenAccounted

(* At every time a change of an issue that its row lacks is one the next   *)
(* round lists, or is on record as missed: it came while a list was read   *)
(* and the round outran the overlap, or stood behind the last page.        *)
THEOREM CursorPassesNothing == ReconcileSpec => []CursorCovers
<1>1. ReconcileInit => CursorIInv
  <2> SUFFICES ASSUME ReconcileInit PROVE CursorIInv
    OBVIOUS
  <2>1. \A x \in Subjects : source[x].at = 0
    BY DEF ReconcileInit
  <2>2. RoundsTyped
    BY RoundsTypedInit
  <2>3. InTime
    BY <2>1 DEF ReconcileInit, InTime
  <2> QED
    BY <2>2, <2>3 DEF ReconcileInit, CursorIInv, Tidy, AsksFromCursor, InHandKnown, SeenStored,
                      Covered, IssuesRead, UnseenAccounted
<1>2. CursorIInv /\ [ReconcileNext]_reconcileVars => CursorIInv'
  <2> SUFFICES ASSUME CursorIInv, [ReconcileNext]_reconcileVars PROVE CursorIInv'
    OBVIOUS
  <2>1. RoundsTyped' /\ InTime' /\ Tidy' /\ AsksFromCursor'
    BY RoundsTypedStep, InTimeStep, TidyStep, AsksFromCursorStep DEF CursorIInv
  <2>2. InHandKnown' /\ SeenStored' /\ IssuesRead'
    BY InHandKnownStep, SeenStoredStep, IssuesReadStep DEF CursorIInv
  <2>3. UnseenAccounted' /\ Covered'
    BY UnseenAccountedStep, CoveredStep DEF CursorIInv
  <2> QED
    BY <2>1, <2>2, <2>3 DEF CursorIInv
<1>3. CursorIInv => CursorCovers
  BY RoundFacts DEF CursorIInv, Covered, Lags, CursorCovers
<1> QED
  BY <1>1, <1>2, <1>3, PTL DEF ReconcileSpec

-----------------------------------------------------------------------------
(* Releases of starred repositories.  Lists without repetition, their      *)
(* pages, and what is cut out of them.                                     *)
LEMMA ListFields ==
    ASSUME NEW S, NEW list \in ListsOf(S)
    PROVE  /\ list \in Seq(S) /\ Len(list) \in Nat /\ DOMAIN list = 1 .. Len(list)
           /\ \A i \in DOMAIN list : list[i] \in S
           /\ ToSet(list) \subseteq S
           /\ \A i, j \in DOMAIN list : list[i] = list[j] => i = j
<1>1. list \in Seq(S) /\ IsInjective(list)
  BY DEF ListsOf
<1>2. Len(list) \in Nat /\ DOMAIN list = 1 .. Len(list)
  BY <1>1, LenProperties
<1>3. \A i \in DOMAIN list : list[i] \in S
  BY <1>1, <1>2, ElementOfSeq
<1> QED
  BY <1>1, <1>2, <1>3 DEF IsInjective, ToSet

LEMMA SubList ==
    ASSUME NEW S, NEW list \in ListsOf(S), NEW m \in Nat \ {0}, NEW n \in Nat, n <= Len(list)
    PROVE  /\ SubSeq(list, m, n) \in ListsOf(S)
           /\ Len(SubSeq(list, m, n)) = IF m <= n THEN n - m + 1 ELSE 0
           /\ \A i \in 1 .. n - m + 1 : SubSeq(list, m, n)[i] = list[m + i - 1]
           /\ ToSet(SubSeq(list, m, n)) \subseteq ToSet(list)
<1> DEFINE sub == SubSeq(list, m, n)
<1>1. /\ Len(list) \in Nat /\ DOMAIN list = 1 .. Len(list)
      /\ \A i \in DOMAIN list : list[i] \in S
      /\ \A i, j \in DOMAIN list : list[i] = list[j] => i = j
  BY ListFields
<1>2. \A i \in m .. n : list[i] \in S
  BY <1>1
<1>3. /\ sub \in Seq(S)
      /\ Len(sub) = IF m <= n THEN n - m + 1 ELSE 0
      /\ \A i \in 1 .. n - m + 1 : sub[i] = list[m + i - 1]
  BY <1>2, SubSeqProperties
<1> HIDE DEF sub
<1>4. DOMAIN sub = 1 .. Len(sub)
  BY <1>3, LenProperties
<1>5. ASSUME NEW i \in DOMAIN sub
      PROVE  i \in 1 .. n - m + 1 /\ m + i - 1 \in DOMAIN list /\ sub[i] = list[m + i - 1]
  BY <1>1, <1>3, <1>4
<1>6. IsInjective(sub)
  BY <1>1, <1>3, <1>4, <1>5, SMTT(30) DEF IsInjective
<1>7. ToSet(sub) \subseteq ToSet(list)
  BY <1>5 DEF ToSet
<1> QED
  BY <1>3, <1>6, <1>7 DEF ListsOf, sub

(* A page of a list: after its first `start' entries, so many as it takes. *)
OnePage(list, cut, start, size) ==
    /\ ToSet(cut) \subseteq ToSet(list)
    /\ Len(cut) \in Nat /\ DOMAIN cut = 1 .. Len(cut) /\ Len(cut) <= size
    /\ \A i \in DOMAIN cut : start + i \in DOMAIN list /\ cut[i] = list[start + i]
    /\ \A j \in DOMAIN list : start < j /\ j <= start + size =>
          j - start \in DOMAIN cut /\ cut[j - start] = list[j]
    /\ Len(cut) < size => Len(list) < start + size

LEMMA WindowFields ==
    ASSUME NEW S, NEW list \in ListsOf(S), NEW start \in Nat, NEW size \in Nat \ {0}, NEW cut,
           cut = SubSeq(list, start + 1, IF start + size < Len(list) THEN start + size ELSE Len(list))
    PROVE  cut \in ListsOf(S) /\ OnePage(list, cut, start, size)
<1>1. Len(list) \in Nat
  BY ListFields
<1>2. PICK n \in Nat : n = IF start + size < Len(list) THEN start + size ELSE Len(list)
  BY <1>1
<1>3. n <= Len(list) /\ n <= start + size /\ (n < start + size => n = Len(list))
  BY <1>1, <1>2
<1>4. cut = SubSeq(list, start + 1, n)
  BY <1>2
<1>5. /\ cut \in ListsOf(S) /\ ToSet(cut) \subseteq ToSet(list)
      /\ Len(cut) = IF start + 1 <= n THEN n - (start + 1) + 1 ELSE 0
      /\ \A i \in 1 .. n - (start + 1) + 1 : cut[i] = list[start + 1 + i - 1]
  <2>1. PICK m \in Nat \ {0} : m = start + 1
    OBVIOUS
  <2>2. /\ SubSeq(list, m, n) \in ListsOf(S)
        /\ Len(SubSeq(list, m, n)) = IF m <= n THEN n - m + 1 ELSE 0
        /\ \A i \in 1 .. n - m + 1 : SubSeq(list, m, n)[i] = list[m + i - 1]
        /\ ToSet(SubSeq(list, m, n)) \subseteq ToSet(list)
    BY <1>3, SubList
  <2> QED
    BY <1>4, <2>1, <2>2
<1>6. Len(cut) \in Nat /\ Len(cut) = IF start < n THEN n - start ELSE 0
  BY <1>5
<1>7. ASSUME NEW i \in 1 .. n - start PROVE cut[i] = list[start + i]
  <2>1. i \in 1 .. n - (start + 1) + 1 /\ start + 1 + i - 1 = start + i
    OBVIOUS
  <2> QED
    BY <1>5, <2>1
<1>8. DOMAIN cut = 1 .. Len(cut) /\ DOMAIN list = 1 .. Len(list)
  BY <1>5, ListFields
<1>9. Len(cut) <= size /\ (Len(cut) < size => Len(list) < start + size)
  BY <1>1, <1>3, <1>6
<1>10. ASSUME NEW i \in 1 .. Len(cut)
       PROVE  start + i \in 1 .. Len(list) /\ i \in 1 .. n - start
  BY <1>1, <1>3, <1>6
<1>11. ASSUME NEW j \in 1 .. Len(list), start < j, j <= start + size
       PROVE  j - start \in 1 .. Len(cut) /\ j - start \in 1 .. n - start /\ start + (j - start) = j
  BY <1>1, <1>3, <1>6, <1>11
<1>12. ASSUME NEW i \in DOMAIN cut PROVE start + i \in DOMAIN list /\ cut[i] = list[start + i]
  BY <1>7, <1>8, <1>10
<1>13. ASSUME NEW j \in DOMAIN list, start < j, j <= start + size
       PROVE  j - start \in DOMAIN cut /\ cut[j - start] = list[j]
  BY <1>7, <1>8, <1>11, <1>13
<1> QED
  BY <1>5, <1>6, <1>8, <1>9, <1>12, <1>13 DEF OnePage

LEMMA CutFields ==
    ASSUME NEW S, NEW list \in ListsOf(S), NEW nth, NEW size \in Nat \ {0},
           NEW start \in Nat, nth * size = start + size
    PROVE  Cut(list, nth, size) \in ListsOf(S) /\ OnePage(list, Cut(list, nth, size), start, size)
<1> DEFINE cut == SubSeq(list, start + 1, IF start + size < Len(list) THEN start + size ELSE Len(list))
<1>1. Cut(list, nth, size) = cut
  <2>1. start + size - size + 1 = start + 1
    OBVIOUS
  <2> QED
    BY <2>1 DEF Cut
<1>2. cut \in ListsOf(S) /\ OnePage(list, cut, start, size)
  BY WindowFields
<1> QED
  BY <1>1, <1>2

LEMMA PageStart ==
    ASSUME NEW nth \in Nat, NEW size \in Nat
    PROVE  nth * size \in Nat /\ (nth + 1) * size = nth * size + size
  OBVIOUS

(* A list without its i-th entry.                                          *)
LEMMA WithoutOne ==
    ASSUME NEW S, NEW list \in ListsOf(S), NEW i \in DOMAIN list
    PROVE  LET rest == RemoveAt(list, i)
           IN  /\ rest \in ListsOf(S) /\ DOMAIN rest = 1 .. Len(list) - 1
               /\ \A j \in DOMAIN rest : rest[j] = IF j < i THEN list[j] ELSE list[j + 1]
               /\ ToSet(rest) = ToSet(list) \ {list[i]}
<1> DEFINE front == SubSeq(list, 1, i - 1)
           back == SubSeq(list, i + 1, Len(list))
           rest == front \o back
<1>1. /\ list \in Seq(S) /\ Len(list) \in Nat /\ DOMAIN list = 1 .. Len(list) /\ i \in 1 .. Len(list)
      /\ \A k, j \in DOMAIN list : list[k] = list[j] => k = j
      /\ \A k \in DOMAIN list : list[k] \in S
  BY ListFields
<1>2. /\ front \in Seq(S) /\ Len(front) = i - 1 /\ \A j \in 1 .. i - 1 : front[j] = list[j]
  BY <1>1, SubSeqProperties
<1>3. /\ back \in Seq(S) /\ Len(back) = Len(list) - i
      /\ \A j \in 1 .. Len(list) - i : back[j] = list[i + j]
  <2>1. PICK n \in Nat : n = Len(list)
    BY <1>1
  <2>2. PICK m \in Nat : m = i + 1 /\ m \in 1 .. n + 1 /\ n \in m - 1 .. n
    BY <1>1, <2>1
  <2>3. back = SubSeq(list, m, n)
    BY <2>1, <2>2
  <2>4. /\ SubSeq(list, m, n) \in Seq(S)
        /\ Len(SubSeq(list, m, n)) = IF m <= n THEN n - m + 1 ELSE 0
        /\ \A j \in 1 .. n - m + 1 : SubSeq(list, m, n)[j] = list[m + j - 1]
    <3>1. \A j \in m .. n : list[j] \in S
      BY <1>1, <2>1, <2>2
    <3> QED
      BY <3>1, SubSeqProperties
  <2> HIDE DEF back
  <2>5. n - m + 1 = Len(list) - i /\ \A j \in 1 .. Len(list) - i : m + j - 1 = i + j
    BY <1>1, <2>1, <2>2
  <2> QED
    BY <2>3, <2>4, <2>5
<1> HIDE DEF front, back
<1>4. /\ rest \in Seq(S) /\ Len(rest) = Len(list) - 1
      /\ \A j \in 1 .. Len(list) - 1 : rest[j] = IF j <= i - 1 THEN front[j] ELSE back[j - (i - 1)]
  <2>1. /\ rest \in Seq(S) /\ Len(rest) = Len(front) + Len(back)
        /\ \A j \in 1 .. Len(front) + Len(back) :
              rest[j] = IF j <= Len(front) THEN front[j] ELSE back[j - Len(front)]
    BY <1>2, <1>3, ConcatProperties
  <2>2. Len(front) + Len(back) = Len(list) - 1
    BY <1>1, <1>2, <1>3
  <2> HIDE DEF rest
  <2> QED
    BY <1>2, <2>1, <2>2
<1> HIDE DEF rest
<1>5. DOMAIN rest = 1 .. Len(list) - 1
  BY <1>4, LenProperties
<1>6. ASSUME NEW j \in DOMAIN rest PROVE rest[j] = IF j < i THEN list[j] ELSE list[j + 1]
  <2>1. CASE j < i
    BY <1>1, <1>2, <1>4, <1>5, <2>1
  <2>2. CASE ~(j < i)
    <3>1. j - (i - 1) \in 1 .. Len(list) - i /\ i + (j - (i - 1)) = j + 1 /\ ~(j <= i - 1)
      BY <1>1, <1>5, <2>2
    <3> QED
      BY <1>3, <1>4, <1>5, <2>2, <3>1
  <2> QED
    BY <2>1, <2>2
<1>7. IsInjective(rest)
  <2> SUFFICES ASSUME NEW j \in DOMAIN rest, NEW k \in DOMAIN rest, rest[j] = rest[k] PROVE j = k
    BY DEF IsInjective
  <2> DEFINE at(l) == IF l < i THEN l ELSE l + 1
  <2>1. at(j) \in DOMAIN list /\ at(k) \in DOMAIN list /\ rest[j] = list[at(j)] /\ rest[k] = list[at(k)]
    BY <1>1, <1>5, <1>6
  <2>2. at(j) = at(k)
    BY <1>1, <2>1
  <2> QED
    BY <1>1, <1>5, <2>2
<1>8. ASSUME NEW x \in ToSet(rest) PROVE x \in ToSet(list) \ {list[i]}
  <2>1. PICK j \in DOMAIN rest : x = rest[j]
    BY <1>8 DEF ToSet
  <2>2. PICK k \in DOMAIN list : x = list[k] /\ k # i
    BY <1>1, <1>5, <1>6, <2>1
  <2> QED
    BY <1>1, <2>2 DEF ToSet
<1>9. ASSUME NEW x \in ToSet(list) \ {list[i]} PROVE x \in ToSet(rest)
  <2>1. PICK k \in DOMAIN list : x = list[k] /\ k # i
    BY <1>9 DEF ToSet
  <2>2. \E j \in DOMAIN rest : x = rest[j]
    <3>1. CASE k < i
      BY <1>1, <1>5, <1>6, <2>1, <3>1
    <3>2. CASE k > i
      <4>1. k - 1 \in DOMAIN rest /\ ~(k - 1 < i) /\ (k - 1) + 1 = k
        BY <1>1, <1>5, <2>1, <3>2
      <4> QED
        BY <1>6, <2>1, <4>1
    <3> QED
      BY <1>1, <2>1, <3>1, <3>2
  <2> QED
    BY <2>2 DEF ToSet
<1>10. ToSet(rest) = ToSet(list) \ {list[i]}
  BY <1>8, <1>9
<1> QED
  BY <1>4, <1>5, <1>6, <1>7, <1>10 DEF ListsOf, RemoveAt, rest, front, back

(* A list with a new entry in front.                                       *)
LEMMA WithOneInFront ==
    ASSUME NEW S, NEW list \in ListsOf(S), NEW x \in S, x \notin ToSet(list)
    PROVE  LET long == <<x>> \o list
           IN  /\ long \in ListsOf(S) /\ DOMAIN long = 1 .. Len(list) + 1
               /\ long[1] = x /\ \A j \in DOMAIN list : long[j + 1] = list[j]
               /\ \A j \in DOMAIN long : j # 1 => j - 1 \in DOMAIN list /\ long[j] = list[j - 1]
               /\ ToSet(long) = ToSet(list) \cup {x}
<1> DEFINE long == <<x>> \o list
<1>1. /\ list \in Seq(S) /\ Len(list) \in Nat /\ DOMAIN list = 1 .. Len(list)
      /\ \A k, j \in DOMAIN list : list[k] = list[j] => k = j
      /\ \A k \in DOMAIN list : list[k] \in S
  BY ListFields
<1>2. <<x>> \in Seq(S) /\ Len(<<x>>) = 1 /\ <<x>>[1] = x
  OBVIOUS
<1>3. /\ long \in Seq(S) /\ Len(long) = 1 + Len(list)
      /\ \A i \in 1 .. 1 + Len(list) : long[i] = IF i <= 1 THEN <<x>>[i] ELSE list[i - 1]
  BY <1>1, <1>2, ConcatProperties
<1> HIDE DEF long
<1>4. DOMAIN long = 1 .. Len(list) + 1
  BY <1>1, <1>3, LenProperties
<1>5. long[1] = x
  BY <1>1, <1>2, <1>3
<1>6. \A j \in DOMAIN list : long[j + 1] = list[j]
  BY <1>1, <1>3
<1>7. \A j \in DOMAIN long : j # 1 => j - 1 \in DOMAIN list /\ long[j] = list[j - 1]
  BY <1>1, <1>3, <1>4
<1>8. \A j \in DOMAIN list : list[j] # x
  BY DEF ToSet
<1>9. IsInjective(long)
  <2> SUFFICES ASSUME NEW j \in DOMAIN long, NEW k \in DOMAIN long, long[j] = long[k] PROVE j = k
    BY DEF IsInjective
  <2>1. CASE j = 1 \/ k = 1
    BY <1>5, <1>7, <1>8, <2>1
  <2>2. CASE j # 1 /\ k # 1
    <3>1. j - 1 = k - 1
      BY <1>1, <1>7, <2>2
    <3> QED
      BY <1>4, <3>1
  <2> QED
    BY <2>1, <2>2
<1>10. ToSet(long) = ToSet(list) \cup {x}
  <2>1. ASSUME NEW y \in ToSet(long) PROVE y \in ToSet(list) \cup {x}
    BY <1>5, <1>7, <2>1 DEF ToSet
  <2>2. ASSUME NEW y \in ToSet(list) PROVE y \in ToSet(long)
    <3>1. PICK j \in DOMAIN list : y = list[j]
      BY <2>2 DEF ToSet
    <3>2. j + 1 \in DOMAIN long
      BY <1>1, <1>4
    <3> QED
      BY <1>6, <3>1, <3>2 DEF ToSet
  <2>3. x \in ToSet(long)
    BY <1>1, <1>4, <1>5 DEF ToSet
  <2> QED
    BY <2>1, <2>2, <2>3
<1> QED
  BY <1>3, <1>4, <1>5, <1>6, <1>7, <1>9, <1>10 DEF ListsOf, long

(* What a page has that is newer than the cursor.                          *)
LEMMA NewerThanCursor ==
    ASSUME NEW list \in ListsOf(ReleaseIds), NEW passed \in Nat
    PROVE  LET new == NewIn(list, passed)
           IN  /\ new \in ListsOf(ReleaseIds) /\ Len(new) <= Len(list)
               /\ \A i \in DOMAIN list : (\A k \in 1 .. i : list[k] > passed) =>
                     i \in DOMAIN new /\ new[i] = list[i]
<1> DEFINE past == {i \in 1 .. Len(list) : list[i] <= passed}
<1>1. /\ list \in Seq(ReleaseIds) /\ Len(list) \in Nat /\ DOMAIN list = 1 .. Len(list)
      /\ \A i \in DOMAIN list : list[i] \in Nat
  BY ListFields, StarredAssumption
<1>2. CASE past = {}
  <2>1. NewIn(list, passed) = list
    BY <1>2 DEF NewIn, SelectInSeq
  <2> QED
    BY <1>1, <2>1
<1>3. CASE past # {}
  <2> DEFINE f == Min(past)
             new == SubSeq(list, 1, f - 1)
  <2>1. f \in past
    <3>1. past \subseteq Nat
      BY <1>1
    <3>2. \E i \in past : \A j \in past : i <= j
      BY <1>3, <3>1, LeastNatural
    <3> QED
      BY <3>2 DEF Min
  <2>2. NewIn(list, passed) = new
    <3>1. f # 0
      BY <2>1
    <3> QED
      BY <1>3, <3>1 DEF NewIn, SelectInSeq
  <2> HIDE DEF f
  <2>3. f \in 1 .. Len(list) /\ list[f] <= passed
    BY <2>1
  <2>4. /\ new \in ListsOf(ReleaseIds) /\ Len(new) = f - 1
        /\ \A i \in 1 .. f - 1 : new[i] = list[i]
    <3>1. f - 1 \in Nat /\ f - 1 <= Len(list) /\ (f - 1) - 1 + 1 = f - 1
      BY <1>1, <2>3
    <3>2. /\ new \in ListsOf(ReleaseIds) /\ Len(new) = IF 1 <= f - 1 THEN (f - 1) - 1 + 1 ELSE 0
          /\ \A i \in 1 .. (f - 1) - 1 + 1 : new[i] = list[1 + i - 1]
      BY <3>1, SubList
    <3> QED
      BY <2>3, <3>1, <3>2
  <2> HIDE DEF new
  <2>5. DOMAIN new = 1 .. f - 1
    BY <2>4, ListFields
  <2>6. ASSUME NEW i \in DOMAIN list, \A k \in 1 .. i : list[k] > passed PROVE i < f
    BY <1>1, <2>3, <2>6
  <2> QED
    BY <1>1, <2>2, <2>3, <2>4, <2>5, <2>6
<1> QED
  BY <1>2, <1>3

-----------------------------------------------------------------------------
(* What a poller holds at each of its steps.                               *)
Reading == {"scan", "evaluate", "list"}
Holding == {"probe", "gone", "empty", "cursor", "revive"} \cup Reading

Sound(a, at) ==
    /\ at \in Locals
    /\ at.pc = "idle" => at = AtRest
    /\ at.pc # "idle" => at.job # "none"
    /\ at.job = "poll" => a = Leader
    /\ at.pc \in {"poll"} \cup Reading => at.job = "poll"
    /\ at.pc \in {"stars", "register", "probe", "remove", "revive"} => at.job = "sync"
    /\ at.pc \in Holding <=> at.repo # NoRepo
    /\ at.pc \in Reading \cup {"cursor"} => at.newest # 0
    /\ at.pc \in {"stars", "register", "probe", "remove", "poll"} => at.newest = 0
    /\ at.pc \in Reading => at.told < MaxBackfill
    /\ at.pc \notin {"scan", "evaluate"} => at.items = <<>>
    /\ at.pc = "evaluate" => at.items # <<>>
    /\ at.newest # 0 => at.mark # <<>> /\ Head(at.mark) = at.newest

StarredInv == StarredTypeOK /\ \A a \in Pollers : Sound(a, poller[a])

LEMMA EmptyPage ==
    /\ <<>> \in PagesOf(ReleaseIds) /\ <<>> \in Tags /\ NoTag \in Tags
    /\ NoRow \in Trackers
    /\ \A S : <<>> \in ListsOf(S)
<1>1. \A S : <<>> \in ListsOf(S)
  BY EmptySeq DEF ListsOf, IsInjective
<1>2. Len(<<>>) = 0
  OBVIOUS
<1>3. <<>> \in PagesOf(ReleaseIds)
  BY <1>1, <1>2, StarredAssumption DEF PagesOf
<1>4. NoTag \in Tags /\ <<>> \in Tags
  BY <1>3 DEF Tags
<1> QED
  BY <1>1, <1>3, <1>4 DEF NoRow, Trackers

LEMMA RestFields ==
    /\ AtRest.pc = "idle" /\ AtRest.job = "none" /\ AtRest.repo = NoRepo
    /\ AtRest.known = [r \in Repos |-> NoRow] /\ AtRest.newest = 0 /\ AtRest.items = <<>>
    /\ AtRest.left = {} /\ AtRest.seen = {} /\ AtRest.page = 0
    /\ \A a : Sound(a, AtRest)
<1>1. AtRest \in Locals
  <2>1. [r \in Repos |-> NoRow] \in [Repos -> Trackers]
    BY EmptyPage
  <2>2. 0 \in 0 .. MaxBackfill
    BY StarredAssumption
  <2> QED
    BY <2>1, <2>2, EmptyPage DEF AtRest, Locals
<1> QED
  BY <1>1 DEF AtRest, Sound, Reading, Holding

(* One poller moves.                                                       *)
LEMMA OneMoves ==
    ASSUME StarredInv, NEW a \in Pollers, NEW to, Goes(a, to), Sound(a, to)
    PROVE  /\ poller' \in [Pollers -> Locals] /\ \A b \in Pollers : Sound(b, poller'[b])
           /\ poller'[a] = to /\ \A b \in Pollers \ {a} : poller'[b] = poller[b]
  BY DEF StarredInv, StarredTypeOK, Goes, Sound

LEMMA DoneSound ==
    ASSUME StarredInv, NEW a \in Pollers, poller[a].pc # "idle"
    PROVE  /\ Sound(a, Done(a)) /\ Done(a).repo = NoRepo /\ Done(a).newest = 0
           /\ Done(a).pc = IF poller[a].job = "sync" THEN "register" ELSE "poll"
           /\ Done(a).job = poller[a].job /\ Done(a).known = poller[a].known
           /\ Done(a).left = poller[a].left /\ Done(a).told = poller[a].told
           /\ Done(a).seen = poller[a].seen /\ Done(a).absent = poller[a].absent
           /\ Done(a).page = poller[a].page /\ Done(a).more = poller[a].more
<1>1. poller[a] \in Locals /\ Sound(a, poller[a])
  BY DEF StarredInv, StarredTypeOK
<1> DEFINE to == Done(a)
<1>2. /\ to.pc = IF poller[a].job = "sync" THEN "register" ELSE "poll"
      /\ to.repo = NoRepo /\ to.items = <<>> /\ to.newest = 0 /\ to.mark = NoTag
      /\ to.job = poller[a].job /\ to.known = poller[a].known /\ to.left = poller[a].left
      /\ to.told = poller[a].told /\ to.seen = poller[a].seen /\ to.absent = poller[a].absent
      /\ to.page = poller[a].page /\ to.more = poller[a].more
  BY <1>1 DEF Done, Locals
<1>3. to \in Locals
  BY <1>1, EmptyPage, ZenonT(30) DEF Done, Locals
<1> HIDE DEF to
<1>4. poller[a].job \in {"sync", "poll"}
  BY <1>1 DEF Sound, Locals
<1>5. Sound(a, to)
  BY <1>1, <1>2, <1>3, <1>4 DEF Sound, Reading, Holding
<1> QED
  BY <1>2, <1>5 DEF to

-----------------------------------------------------------------------------
(* Pages of a repository's releases, and what they have for a poll.        *)
LEMMA ReleasesPage ==
    ASSUME StarredInv, NEW r \in Repos, NEW nth \in Nat
    PROVE  /\ Cut(releases[r], nth + 1, ReleasePage) \in PagesOf(ReleaseIds)
           /\ OnePage(releases[r], Cut(releases[r], nth + 1, ReleasePage),
                      nth * ReleasePage, ReleasePage)
<1>1. releases[r] \in ListsOf(ReleaseIds) /\ ReleasePage \in Nat \ {0}
  BY StarredAssumption DEF StarredInv, StarredTypeOK
<1>2. PICK start \in Nat : start = nth * ReleasePage /\ (nth + 1) * ReleasePage = start + ReleasePage
  BY <1>1, PageStart
<1>3. PICK next : next = nth + 1
  OBVIOUS
<1>4. /\ Cut(releases[r], next, ReleasePage) \in ListsOf(ReleaseIds)
      /\ OnePage(releases[r], Cut(releases[r], next, ReleasePage), start, ReleasePage)
  <2>1. next * ReleasePage = start + ReleasePage
    BY <1>2, <1>3
  <2> QED
    BY <1>1, <2>1, CutFields
<1> QED
  BY <1>2, <1>3, <1>4 DEF PagesOf, OnePage

LEMMA FrontPage ==
    ASSUME NEW list \in ListsOf(ReleaseIds)
    PROVE  LET page1 == Cut(list, 1, ReleasePage)
           IN  /\ page1 \in PagesOf(ReleaseIds) /\ page1 \in Tags
               /\ OnePage(list, page1, 0, ReleasePage)
               /\ page1 # <<>> <=> list # <<>>
               /\ list # <<>> =>
                     /\ Head(page1) = Head(list) /\ Head(list) = list[1]
                     /\ 1 \in DOMAIN list /\ Head(list) \in ReleaseIds
<1> DEFINE page1 == Cut(list, 1, ReleasePage)
<1>1. page1 \in ListsOf(ReleaseIds) /\ OnePage(list, page1, 0, ReleasePage)
  <2>1. ReleasePage \in Nat \ {0} /\ 1 * ReleasePage = 0 + ReleasePage
    BY StarredAssumption
  <2> QED
    BY <2>1, CutFields
<1> HIDE DEF page1
<1>2. page1 \in PagesOf(ReleaseIds)
  BY <1>1 DEF PagesOf, OnePage
<1>3. /\ list \in Seq(ReleaseIds) /\ Len(list) \in Nat /\ DOMAIN list = 1 .. Len(list)
      /\ \A i \in DOMAIN list : list[i] \in ReleaseIds
  BY ListFields
<1>4. page1 \in Seq(ReleaseIds) /\ Len(page1) \in Nat /\ DOMAIN page1 = 1 .. Len(page1)
  BY <1>1, ListFields
<1>5. CASE list = <<>>
  <2>1. Len(list) = 0 /\ DOMAIN list = {}
    BY <1>3, <1>5
  <2>2. DOMAIN page1 = {}
    BY <1>1, <2>1 DEF OnePage
  <2>3. page1 = <<>>
    BY <1>4, <2>2, EmptySeq
  <2> QED
    BY <1>1, <1>2, <1>5, <2>3 DEF Tags, page1
<1>6. CASE list # <<>>
  <2>1. 1 \in DOMAIN list
    BY <1>3, <1>6, EmptySeq
  <2>2. 0 < 1 /\ 1 <= 0 + ReleasePage /\ 1 - 0 = 1
    BY StarredAssumption
  <2>3. 1 \in DOMAIN page1 /\ page1[1] = list[1]
    BY <1>1, <2>1, <2>2 DEF OnePage
  <2>4. page1 # <<>> /\ Head(page1) = page1[1] /\ Head(list) = list[1]
    BY <1>4, <2>3, EmptySeq
  <2> QED
    BY <1>1, <1>2, <1>3, <1>6, <2>1, <2>3, <2>4 DEF Tags, page1
<1> QED
  BY <1>5, <1>6

LEMMA FirstPageFields ==
    ASSUME StarredInv, NEW r \in Repos
    PROVE  /\ FirstPage(r) \in PagesOf(ReleaseIds) /\ FirstPage(r) \in Tags
           /\ OnePage(releases[r], FirstPage(r), 0, ReleasePage)
           /\ FirstPage(r) # <<>> <=> releases[r] # <<>>
           /\ releases[r] # <<>> =>
                 /\ Head(FirstPage(r)) = Head(releases[r]) /\ Head(releases[r]) = releases[r][1]
                 /\ 1 \in DOMAIN releases[r] /\ Head(releases[r]) \in ReleaseIds
<1>1. PICK list \in ListsOf(ReleaseIds) : list = releases[r]
  BY DEF StarredInv, StarredTypeOK
<1> QED
  BY <1>1, FrontPage DEF FirstPage

LEMMA HeadTail ==
    ASSUME NEW list \in PagesOf(ReleaseIds), list # <<>>
    PROVE  /\ Head(list) \in ReleaseIds /\ Head(list) = list[1] /\ 1 \in DOMAIN list
           /\ Tail(list) \in PagesOf(ReleaseIds)
           /\ \A i \in DOMAIN list : i # 1 => list[i] \in ToSet(Tail(list))
           /\ Last(list) \in ReleaseIds
<1>1. list \in ListsOf(ReleaseIds) /\ Len(list) <= ReleasePage
  BY DEF PagesOf
<1>2. /\ list \in Seq(ReleaseIds) /\ Len(list) \in Nat /\ DOMAIN list = 1 .. Len(list)
      /\ \A i \in DOMAIN list : list[i] \in ReleaseIds
  BY <1>1, ListFields
<1>3. Len(list) # 0
  BY <1>2, EmptySeq
<1>4. Head(list) = list[1] /\ 1 \in DOMAIN list /\ Len(list) \in DOMAIN list
  BY <1>2, <1>3
<1>5. Last(list) \in ReleaseIds
  BY <1>2, <1>4 DEF Last
<1>6. Tail(list) = SubSeq(list, 2, Len(list))
  BY <1>2, <1>3
<1> DEFINE rest == SubSeq(list, 2, Len(list))
<1>7. /\ rest \in ListsOf(ReleaseIds)
      /\ Len(rest) = IF 2 <= Len(list) THEN Len(list) - 2 + 1 ELSE 0
      /\ \A i \in 1 .. Len(list) - 2 + 1 : rest[i] = list[2 + i - 1]
  BY <1>1, <1>2, SubList
<1> HIDE DEF rest
<1>8. DOMAIN rest = 1 .. Len(rest) /\ Len(rest) <= ReleasePage /\ Len(rest) = Len(list) - 1
  <2>1. Len(list) \in Nat \ {0} /\ Len(list) <= ReleasePage /\ ReleasePage \in Nat
    BY <1>1, <1>2, <1>3, StarredAssumption
  <2>2. Len(rest) = Len(list) - 1
    <3>1. PICK m \in Nat \ {0} : m = Len(list)
      BY <2>1
    <3>2. Len(rest) = IF 2 <= m THEN m - 2 + 1 ELSE 0
      BY <1>7, <3>1
    <3>3. Len(rest) = m - 1
      BY <3>1, <3>2
    <3> QED
      BY <3>1, <3>3
  <2>3. DOMAIN rest = 1 .. Len(rest)
    BY <1>7, ListFields
  <2> QED
    BY <2>1, <2>2, <2>3
<1>9. ASSUME NEW i \in DOMAIN list, i # 1 PROVE list[i] \in ToSet(rest)
  <2>1. i - 1 \in 1 .. Len(list) - 2 + 1 /\ 2 + (i - 1) - 1 = i /\ i - 1 \in DOMAIN rest
    BY <1>2, <1>8, <1>9
  <2>2. rest[i - 1] = list[i]
    BY <1>7, <2>1
  <2> QED
    BY <2>1, <2>2 DEF ToSet
<1>10. rest \in PagesOf(ReleaseIds)
  BY <1>7, <1>8 DEF PagesOf
<1> QED
  BY <1>2, <1>4, <1>5, <1>6, <1>9, <1>10 DEF rest

(* The items left from the i-th on.                                        *)
LEMMA ItemsFrom ==
    ASSUME NEW list \in PagesOf(ReleaseIds), NEW i \in DOMAIN list
    PROVE  LET rest == SubSeq(list, i, Len(list))
           IN  /\ rest \in PagesOf(ReleaseIds) /\ rest # <<>> /\ Head(rest) = list[i]
               /\ \A j \in DOMAIN list : i <= j => list[j] \in ToSet(rest)
<1> DEFINE rest == SubSeq(list, i, Len(list))
<1>1. list \in ListsOf(ReleaseIds) /\ Len(list) <= ReleasePage
  BY DEF PagesOf
<1>2. list \in Seq(ReleaseIds) /\ Len(list) \in Nat /\ DOMAIN list = 1 .. Len(list)
  BY <1>1, ListFields
<1>3. i \in Nat \ {0} /\ i <= Len(list)
  BY <1>2
<1>4. /\ rest \in ListsOf(ReleaseIds)
      /\ Len(rest) = IF i <= Len(list) THEN Len(list) - i + 1 ELSE 0
      /\ \A j \in 1 .. Len(list) - i + 1 : rest[j] = list[i + j - 1]
  <2>1. Len(list) \in Nat /\ Len(list) <= Len(list)
    BY <1>2
  <2> QED
    BY <1>1, <1>3, <2>1, SubList
<1> HIDE DEF rest
<1>5. /\ Len(rest) = Len(list) - i + 1 /\ DOMAIN rest = 1 .. Len(rest) /\ rest \in Seq(ReleaseIds)
      /\ Len(rest) <= ReleasePage /\ Len(rest) # 0
  <2>1. Len(list) \in Nat /\ Len(list) <= ReleasePage /\ ReleasePage \in Nat
    BY <1>1, <1>2, StarredAssumption
  <2>2. Len(rest) = Len(list) - i + 1
    BY <1>3, <1>4, <2>1
  <2>3. DOMAIN rest = 1 .. Len(rest) /\ rest \in Seq(ReleaseIds)
    BY <1>4, ListFields
  <2> QED
    BY <1>3, <2>1, <2>2, <2>3
<1>6. rest # <<>> /\ Head(rest) = rest[1]
  BY <1>5
<1>7. rest[1] = list[i]
  <2>1. 1 \in 1 .. Len(list) - i + 1 /\ i + 1 - 1 = i
    BY <1>2, <1>3
  <2> QED
    BY <1>4, <2>1
<1>8. ASSUME NEW j \in DOMAIN list, i <= j PROVE list[j] \in ToSet(rest)
  <2>1. j - i + 1 \in 1 .. Len(list) - i + 1 /\ i + (j - i + 1) - 1 = j /\ j - i + 1 \in DOMAIN rest
    BY <1>2, <1>3, <1>5, <1>8
  <2>2. rest[j - i + 1] = list[j]
    BY <1>4, <2>1
  <2> QED
    BY <2>1, <2>2 DEF ToSet
<1> QED
  BY <1>4, <1>5, <1>6, <1>7, <1>8 DEF PagesOf, rest

(* A row written to.                                                       *)
LEMMA RowWritten ==
    ASSUME StarredInv, NEW r \in Repos, NEW row \in Trackers,
           trackerOf' = [trackerOf EXCEPT ![r] = row]
    PROVE  /\ trackerOf' \in [Repos -> Trackers] /\ trackerOf'[r] = row
           /\ \A q \in Repos \ {r} : trackerOf'[q] = trackerOf[q]
  BY DEF StarredInv, StarredTypeOK

LEMMA StateWritten ==
    ASSUME StarredInv, NEW r \in Repos,
           NEW s \in {"tracking", "inactive", "unavailable", "disabled"},
           trackerOf' = [trackerOf EXCEPT ![r].state = s]
    PROVE  /\ trackerOf' \in [Repos -> Trackers]
           /\ trackerOf'[r].state = s /\ trackerOf'[r].cursor = trackerOf[r].cursor
           /\ trackerOf'[r].etag = trackerOf[r].etag
           /\ \A q \in Repos \ {r} : trackerOf'[q] = trackerOf[q]
<1>1. trackerOf \in [Repos -> Trackers] /\ trackerOf[r] \in Trackers
  BY DEF StarredInv, StarredTypeOK
<1> DEFINE row == [trackerOf[r] EXCEPT !.state = s]
<1>2. row \in Trackers /\ row.state = s /\ row.cursor = trackerOf[r].cursor /\ row.etag = trackerOf[r].etag
  BY <1>1 DEF Trackers
<1>3. trackerOf' = [trackerOf EXCEPT ![r] = row]
  OBVIOUS
<1> HIDE DEF row
<1> QED
  BY <1>2, <1>3, RowWritten

LEMMA CursorWritten ==
    ASSUME StarredInv, NEW r \in Repos, NEW c \in ReleaseIds \cup {0}, NEW tag \in Tags,
           trackerOf' = [trackerOf EXCEPT ![r].cursor = c, ![r].etag = tag]
    PROVE  /\ trackerOf' \in [Repos -> Trackers]
           /\ trackerOf'[r].state = trackerOf[r].state
           /\ trackerOf'[r].cursor = c /\ trackerOf'[r].etag = tag
           /\ \A q \in Repos \ {r} : trackerOf'[q] = trackerOf[q]
<1>1. trackerOf \in [Repos -> Trackers] /\ trackerOf[r] \in Trackers
  BY DEF StarredInv, StarredTypeOK
<1> DEFINE row == [trackerOf[r] EXCEPT !.cursor = c, !.etag = tag]
<1>2. row \in Trackers /\ row.state = trackerOf[r].state /\ row.cursor = c /\ row.etag = tag
  BY <1>1 DEF Trackers
<1>3. trackerOf' = [trackerOf EXCEPT ![r] = row]
  BY <1>1
<1> HIDE DEF row
<1> QED
  BY <1>2, <1>3, RowWritten

LEMMA SpendTyped ==
    ASSUME StarredInv, NEW what \in Happenings, Spend(what)
    PROVE  budget' \in [Happenings -> Nat]
<1>1. budget \in [Happenings -> Nat] /\ budget[what] \in Nat /\ budget[what] > 0
  BY DEF StarredInv, StarredTypeOK, Spend
<1>2. budget[what] - 1 \in Nat
  BY <1>1
<1> QED
  BY <1>1, <1>2 DEF Spend

LEMMA UntoldTyped ==
    ASSUME NEW r \in Repos, NEW ids, ids \subseteq ReleaseIds
    PROVE  Untold(r, ids) \subseteq Repos \X ReleaseIds
  BY DEF Untold

LEMMA BehindTyped ==
    ASSUME NEW list, NEW x
    PROVE  Behind(list, x) \subseteq ToSet(list)
  BY DEF Behind, ToSet

LEMMA ReleasesFields ==
    ASSUME StarredInv, NEW r \in Repos
    PROVE  /\ releases[r] \in ListsOf(ReleaseIds) /\ ToSet(releases[r]) \subseteq ReleaseIds
           /\ releases[r] \in Seq(ReleaseIds) /\ Len(releases[r]) \in Nat
           /\ DOMAIN releases[r] = 1 .. Len(releases[r])
           /\ \A i \in DOMAIN releases[r] : releases[r][i] \in ReleaseIds
           /\ \A i, j \in DOMAIN releases[r] : releases[r][i] = releases[r][j] => i = j
<1>1. releases[r] \in ListsOf(ReleaseIds)
  BY DEF StarredInv, StarredTypeOK
<1> QED
  BY <1>1, ListFields

(* GitHub and the user keep the types; no poller moves but for what an     *)
(* unstar notes with it.                                                   *)
LEMMA GitHubTyped ==
    ASSUME StarredInv, NEW r \in Repos, NEW x, NEW s \in {"disabled", "tracking"},
           \/ x \in ReleaseIds /\ (Publish(r, x) \/ Withdraw(r, x))
           \/ Vanish(r) \/ Reappear(r) \/ Star(r) \/ SetState(r, s)
    PROVE  StarredInv' /\ poller' = poller
<1> USE DEF StarredInv, StarredTypeOK, github, decided
<1> DEFINE Others == poller' = poller /\ \A a \in Pollers : Sound(a, poller'[a])
<1>0. poller' = poller
  BY DEF Publish, Withdraw, Vanish, Reappear, Star, SetState
<1>1. \A a \in Pollers : Sound(a, poller[a])'
  BY <1>0 DEF Sound
<1>2. CASE x \in ReleaseIds /\ Publish(r, x)
  <2>1. budget' \in [Happenings -> Nat]
    BY <1>2, SpendTyped DEF Publish, Happenings
  <2>2. <<x>> \o releases[r] \in ListsOf(ReleaseIds)
    BY <1>2, ReleasesFields, WithOneInFront DEF Publish
  <2>3. releases' \in [Repos -> ListsOf(ReleaseIds)]
    BY <1>2, <2>2 DEF Publish
  <2>4. excused' \subseteq Repos \X ReleaseIds
    <3>1. Untold(r, ToSet(releases[r]) \cup {x}) \subseteq Repos \X ReleaseIds
      BY <1>2, ReleasesFields, UntoldTyped
    <3>2. excused' \in {excused, excused \cup Untold(r, ToSet(releases[r]) \cup {x})}
      BY <1>2 DEF Publish
    <3> QED
      BY <3>1, <3>2
  <2> QED
    BY <1>0, <1>1, <1>2, <2>1, <2>3, <2>4 DEF Publish
<1>3. CASE x \in ReleaseIds /\ Withdraw(r, x)
  <2>1. budget' \in [Happenings -> Nat]
    BY <1>3, SpendTyped DEF Withdraw, Happenings
  <2>2. PICK i \in DOMAIN releases[r] : releases' = [releases EXCEPT ![r] = RemoveAt(@, i)]
    BY <1>3 DEF Withdraw
  <2>3. releases' \in [Repos -> ListsOf(ReleaseIds)]
    BY <2>2, WithoutOne
  <2>4. excused' \subseteq Repos \X ReleaseIds
    <3>1. \A ids : ids \subseteq ReleaseIds => Untold(r, ids) \subseteq Repos \X ReleaseIds
      BY UntoldTyped
    <3>2. Behind(releases[r], x) \subseteq ReleaseIds
      BY BehindTyped, ReleasesFields
    <3>3. \A a : Untold(r, Behind(releases[r], x) \ ToSet(poller[a].items)) \subseteq Repos \X ReleaseIds
      BY <3>1, <3>2
    <3> DEFINE hidden(a) == Untold(r, Behind(releases[r], x) \ ToSet(poller[a].items))
    <3>4. excused' = excused \cup UNION {hidden(a) : a \in InHand(r)}
      BY <1>3 DEF Withdraw
    <3>5. excused \subseteq Repos \X ReleaseIds /\ \A a : hidden(a) \subseteq Repos \X ReleaseIds
      BY <3>3
    <3> HIDE DEF hidden, StarredInv, StarredTypeOK
    <3>6. UNION {hidden(a) : a \in InHand(r)} \subseteq Repos \X ReleaseIds
      BY <3>5
    <3> QED
      BY <3>4, <3>5, <3>6
  <2> QED
    BY <1>0, <1>1, <1>3, <2>1, <2>3, <2>4 DEF Withdraw
<1>4. CASE Vanish(r)
  <2>1. budget' \in [Happenings -> Nat]
    BY <1>4, SpendTyped DEF Vanish, Happenings
  <2>2. Untold(r, ToSet(releases[r])) \subseteq Repos \X ReleaseIds
    BY ReleasesFields, UntoldTyped
  <2>3. excused' \in {excused, excused \cup Untold(r, ToSet(releases[r]))}
    BY <1>4 DEF Vanish
  <2>4. excused' \subseteq Repos \X ReleaseIds
    BY <2>2, <2>3
  <2> QED
    BY <1>0, <1>1, <1>4, <2>1, <2>4 DEF Vanish
<1>5. CASE Reappear(r)
  BY <1>0, <1>1, <1>5 DEF Reappear
<1>6. CASE Star(r)
  <2>1. budget' \in [Happenings -> Nat]
    BY <1>6, SpendTyped DEF Star, Happenings
  <2>2. <<r>> \o stars \in ListsOf(Repos)
    BY <1>6, WithOneInFront DEF Star
  <2> QED
    BY <1>0, <1>1, <1>6, <2>1, <2>2 DEF Star
<1>7. CASE SetState(r, s)
  <2>1. budget' \in [Happenings -> Nat]
    BY <1>7, SpendTyped DEF SetState, Happenings
  <2>2. trackerOf' \in [Repos -> Trackers]
    <3>1. trackerOf' = [trackerOf EXCEPT ![r].state = s]
      BY <1>7 DEF SetState
    <3>2. s \in {"tracking", "inactive", "unavailable", "disabled"}
      OBVIOUS
    <3> QED
      BY <3>1, <3>2, StateWritten
  <2>3. choice' \in [Repos -> {"on", "off"}] /\ raced' \subseteq Repos
    BY <1>7 DEF SetState
  <2> QED
    BY <1>0, <1>1, <1>7, <2>1, <2>2, <2>3 DEF SetState
<1> QED
  BY <1>0, <1>2, <1>3, <1>4, <1>5, <1>6, <1>7

LEMMA UnstarTyped ==
    ASSUME StarredInv, NEW r \in Repos, Unstar(r)
    PROVE  /\ StarredInv'
           /\ \A a \in Pollers :
                 /\ poller[a].job # "sync" => poller'[a] = poller[a]
                 /\ poller'[a].pc = poller[a].pc /\ poller'[a].job = poller[a].job
                 /\ poller'[a].known = poller[a].known /\ poller'[a].left = poller[a].left
                 /\ poller'[a].page = poller[a].page /\ poller'[a].more = poller[a].more
                 /\ poller'[a].seen = poller[a].seen /\ poller'[a].repo = poller[a].repo
                 /\ poller'[a].items = poller[a].items /\ poller'[a].newest = poller[a].newest
                 /\ poller'[a].mark = poller[a].mark
                 /\ poller[a].job = "sync" =>
                       poller'[a].absent = poller[a].absent \cup {r}
                                              \cup (Behind(stars, r) \ poller[a].seen)
<1>1. budget' \in [Happenings -> Nat]
  BY SpendTyped DEF Unstar, Happenings
<1>2. stars \in ListsOf(Repos)
  BY DEF StarredInv, StarredTypeOK
<1>3. stars' \in ListsOf(Repos)
  BY <1>2, WithoutOne DEF Unstar
<1>4. Behind(stars, r) \subseteq Repos
  BY <1>2, BehindTyped, ListFields
<1>5. ASSUME NEW a \in Pollers
      PROVE  /\ Sound(a, poller'[a]) /\ poller'[a] \in Locals
             /\ poller[a].job # "sync" => poller'[a] = poller[a]
             /\ poller'[a].pc = poller[a].pc /\ poller'[a].job = poller[a].job
             /\ poller'[a].known = poller[a].known /\ poller'[a].left = poller[a].left
             /\ poller'[a].page = poller[a].page /\ poller'[a].more = poller[a].more
             /\ poller'[a].seen = poller[a].seen /\ poller'[a].repo = poller[a].repo
             /\ poller'[a].items = poller[a].items /\ poller'[a].newest = poller[a].newest
             /\ poller'[a].mark = poller[a].mark
             /\ poller[a].job = "sync" =>
                   poller'[a].absent = poller[a].absent \cup {r}
                                          \cup (Behind(stars, r) \ poller[a].seen)
  <2>1. poller[a] \in Locals /\ Sound(a, poller[a])
    BY DEF StarredInv, StarredTypeOK
  <2>2. CASE poller[a].job # "sync"
    <3>1. poller'[a] = poller[a]
      BY <2>2 DEF Unstar
    <3> QED
      BY <2>1, <2>2, <3>1
  <2>3. CASE poller[a].job = "sync"
    <3> DEFINE gone == poller[a].absent \cup {r} \cup (Behind(stars, r) \ poller[a].seen)
               to == [poller[a] EXCEPT !.absent = gone]
    <3>1. poller'[a] = to
      BY <2>3 DEF Unstar
    <3>2. gone \subseteq Repos
      BY <1>4, <2>1 DEF Locals
    <3> HIDE DEF gone
    <3>3. /\ to \in Locals /\ to.absent = gone
          /\ to.pc = poller[a].pc /\ to.job = poller[a].job /\ to.known = poller[a].known
          /\ to.left = poller[a].left /\ to.page = poller[a].page /\ to.more = poller[a].more
          /\ to.seen = poller[a].seen /\ to.repo = poller[a].repo /\ to.items = poller[a].items
          /\ to.newest = poller[a].newest /\ to.mark = poller[a].mark /\ to.told = poller[a].told
      BY <2>1, <3>2 DEF Locals
    <3> HIDE DEF to
    <3>4. poller[a].pc # "idle"
      BY <2>1, <2>3 DEF Sound, AtRest
    <3>5. Sound(a, to)
      BY <2>1, <3>3, <3>4 DEF Sound
    <3> QED
      BY <2>3, <3>1, <3>3, <3>5 DEF gone
  <2> QED
    BY <2>2, <2>3
<1>6. poller' \in [Pollers -> Locals]
  BY <1>5 DEF Unstar
<1>7. UNCHANGED <<releases, vanished, trackerOf, news, decided, excused>>
  BY DEF Unstar
<1>8. StarredInv'
  BY <1>1, <1>3, <1>5, <1>6, <1>7 DEF StarredInv, StarredTypeOK, Sound, decided
<1> QED
  BY <1>5, <1>8

LEMMA MoveTyped ==
    ASSUME StarredInv, NEW a \in Pollers, NEW to, Goes(a, to), Sound(a, to), UNCHANGED Aside,
           trackerOf' \in [Repos -> Trackers], news' \in [Repos -> [ReleaseIds -> {"none", "recorded", "told"}]],
           budget' \in [Happenings -> Nat], excused' \subseteq Repos \X ReleaseIds
    PROVE  StarredInv'
<1>1. poller' \in [Pollers -> Locals] /\ \A b \in Pollers : Sound(b, poller'[b])
  BY OneMoves
<1>2. UNCHANGED <<stars, releases, vanished, choice, raced>>
  BY DEF Aside, github, decided
<1> QED
  BY <1>1, <1>2 DEF StarredInv, StarredTypeOK, Sound

LEMMA PollerFields ==
    ASSUME StarredInv, NEW a \in Pollers
    PROVE  /\ poller[a] \in Locals /\ Sound(a, poller[a])
           /\ poller[a].repo # NoRepo => poller[a].repo \in Repos
           /\ poller[a].pc # "idle" => poller[a].job \in {"sync", "poll"}
           /\ poller[a].items \in ListsOf(ReleaseIds)
           /\ poller[a].newest # 0 => poller[a].newest \in ReleaseIds
<1>1. poller[a] \in Locals /\ Sound(a, poller[a])
  BY DEF StarredInv, StarredTypeOK
<1> QED
  BY <1>1 DEF Locals, Sound, PagesOf

LEMMA OtherTyped ==
    ASSUME StarredInv
    PROVE  /\ UNCHANGED trackerOf => trackerOf' \in [Repos -> Trackers]
           /\ UNCHANGED news => news' \in [Repos -> [ReleaseIds -> {"none", "recorded", "told"}]]
           /\ UNCHANGED budget => budget' \in [Happenings -> Nat]
           /\ UNCHANGED excused => excused' \subseteq Repos \X ReleaseIds
           /\ \A what \in Happenings : Spend(what) => budget' \in [Happenings -> Nat]
           /\ excused \subseteq Repos \X ReleaseIds
  BY SpendTyped DEF StarredInv, StarredTypeOK

(* A poller goes on with the repository it holds.                          *)
LEMMA AtSound ==
    ASSUME StarredInv, NEW a \in Pollers, NEW stage \in {"gone", "empty", "cursor", "revive"},
           poller[a].pc \in {"probe", "gone", "cursor"},
           stage = "cursor" => poller[a].newest # 0,
           stage = "revive" => poller[a].job = "sync"
    PROVE  /\ Sound(a, At(a, stage)) /\ At(a, stage).pc = stage /\ At(a, stage).repo = poller[a].repo
           /\ At(a, stage).newest = poller[a].newest /\ At(a, stage).mark = poller[a].mark
           /\ At(a, stage).job = poller[a].job /\ At(a, stage).known = poller[a].known
           /\ At(a, stage).left = poller[a].left /\ At(a, stage).seen = poller[a].seen
           /\ At(a, stage).absent = poller[a].absent /\ At(a, stage).page = poller[a].page
           /\ At(a, stage).more = poller[a].more
<1>1. poller[a] \in Locals /\ Sound(a, poller[a])
  BY PollerFields
<1> DEFINE to == At(a, stage)
<1>2. /\ to.pc = stage /\ to.repo = poller[a].repo /\ to.newest = poller[a].newest
      /\ to.mark = poller[a].mark /\ to.job = poller[a].job /\ to.known = poller[a].known
      /\ to.left = poller[a].left /\ to.seen = poller[a].seen /\ to.absent = poller[a].absent
      /\ to.page = poller[a].page /\ to.more = poller[a].more /\ to.items = poller[a].items
      /\ to.told = poller[a].told /\ to \in Locals
  BY <1>1 DEF At, Locals
<1> HIDE DEF to
<1>3. Sound(a, to)
  BY <1>1, <1>2 DEF Sound, Reading, Holding
<1> QED
  BY <1>2, <1>3 DEF to

LEMMA AfterGoneSound ==
    ASSUME StarredInv, NEW a \in Pollers, poller[a].pc = "gone"
    PROVE  /\ Sound(a, AfterGone(a))
           /\ AfterGone(a) = IF poller[a].newest = 0 THEN Done(a) ELSE At(a, "cursor")
  BY AtSound, DoneSound DEF AfterGone

LEMMA WritesTyped ==
    ASSUME StarredInv, NEW a \in Pollers,
           MarkGone(a) \/ MarkEmpty(a) \/ SetCursor(a) \/ Revive(a) \/ WriteFails(a) \/ RoundEnds(a)
    PROVE  StarredInv'
<1>1. poller[a] \in Locals /\ Sound(a, poller[a])
  BY PollerFields
<1>2. CASE MarkGone(a)
  <2>1. poller[a].repo \in Repos /\ Sound(a, AfterGone(a))
    BY <1>1, <1>2, PollerFields, AfterGoneSound DEF MarkGone, Sound, Holding
  <2>2. trackerOf' \in [Repos -> Trackers]
    BY <1>2, <2>1, StateWritten DEF MarkGone
  <2> QED
    BY <1>2, <2>1, <2>2, OtherTyped, MoveTyped DEF MarkGone
<1>3. CASE MarkEmpty(a)
  <2>1. poller[a].repo \in Repos /\ Sound(a, Done(a))
    BY <1>1, <1>3, PollerFields, DoneSound DEF MarkEmpty, Sound, Holding
  <2>2. trackerOf' \in [Repos -> Trackers]
    BY <1>3, <2>1, StateWritten DEF MarkEmpty
  <2> QED
    BY <1>3, <2>1, <2>2, OtherTyped, MoveTyped DEF MarkEmpty
<1>4. CASE SetCursor(a)
  <2>1. poller[a].repo \in Repos /\ Sound(a, Done(a))
    BY <1>1, <1>4, PollerFields, DoneSound DEF SetCursor, Sound, Holding
  <2>2. trackerOf' \in [Repos -> Trackers]
    <3>1. poller[a].newest \in ReleaseIds \cup {0} /\ poller[a].mark \in Tags
      BY <1>1 DEF Locals
    <3> QED
      BY <1>4, <2>1, <3>1, CursorWritten DEF SetCursor
  <2>3. poller[a].job = "sync" => Sound(a, At(a, "revive"))
    BY <1>4, AtSound DEF SetCursor
  <2>4. \E to : Goes(a, to) /\ Sound(a, to)
    BY <1>4, <2>1, <2>3 DEF SetCursor
  <2> QED
    BY <1>4, <2>2, <2>4, OtherTyped, MoveTyped DEF SetCursor
<1>5. CASE Revive(a)
  <2>1. poller[a].repo \in Repos /\ Sound(a, Done(a))
    BY <1>1, <1>5, PollerFields, DoneSound DEF Revive, Sound, Holding
  <2>2. trackerOf' \in [Repos -> Trackers]
    BY <1>5, <2>1, StateWritten DEF Revive
  <2> QED
    BY <1>5, <2>1, <2>2, OtherTyped, MoveTyped DEF Revive
<1>6. CASE WriteFails(a)
  <2>1. Sound(a, Done(a)) /\ (poller[a].pc = "gone" => Sound(a, AfterGone(a)))
    BY <1>6, DoneSound, AfterGoneSound DEF WriteFails
  <2>2. \E to : Goes(a, to) /\ Sound(a, to)
    BY <1>6, <2>1 DEF WriteFails
  <2>3. "mishap" \in Happenings
    BY DEF Happenings
  <2> QED
    BY <1>6, <2>2, <2>3, OtherTyped, MoveTyped DEF WriteFails
<1>7. CASE RoundEnds(a)
  <2>1. poller[a].pc = "evaluate" => <<poller[a].repo, Head(poller[a].items)>> \in Repos \X ReleaseIds
    <3>1. poller[a].pc = "evaluate" =>
             poller[a].repo \in Repos /\ poller[a].items # <<>> /\ poller[a].items \in PagesOf(ReleaseIds)
      BY <1>1, PollerFields DEF Sound, Holding, Reading, Locals
    <3> QED
      BY <3>1, HeadTail
  <2>2. excused' \subseteq Repos \X ReleaseIds
    BY <1>7, <2>1, OtherTyped DEF RoundEnds
  <2>3. Sound(a, AtRest)
    BY RestFields
  <2>4. "mishap" \in Happenings
    BY DEF Happenings
  <2> QED
    BY <1>7, <2>2, <2>3, <2>4, OtherTyped, MoveTyped DEF RoundEnds
<1> QED
  BY <1>2, <1>3, <1>4, <1>5, <1>6, <1>7

LEMMA RoomTyped ==
    Counted \in Nat /\ Cardinality(Repos) \in Nat
<1>1. IsFiniteSet(Repos)
  BY StarredAssumption
<1>2. IsFiniteSet({r \in Repos : trackerOf[r].state \notin {"none", "disabled"}})
  BY <1>1, FS_Subset
<1> QED
  BY <1>1, <1>2, FS_CardinalityType DEF Counted

LEMMA SyncBeginTyped ==
    ASSUME StarredInv, NEW a \in Pollers, NEW counted \in BOOLEAN, NEW token \in BOOLEAN,
           SyncBegin(a, counted, token)
    PROVE  /\ StarredInv'
           /\ poller'[a].pc = "stars" /\ poller'[a].job = "sync" /\ poller'[a].known = trackerOf
           /\ poller'[a].absent = Repos \ ToSet(stars) /\ poller'[a].seen = {}
           /\ poller'[a].page = 0 /\ poller'[a].repo = NoRepo /\ poller'[a].newest = 0
           /\ \A b \in Pollers \ {a} : poller'[b] = poller[b]
<1>1. PICK room \in Nat :
         Goes(a, [AtRest EXCEPT !.pc = "stars", !.job = "sync", !.known = trackerOf,
                      !.token = token, !.absent = Repos \ ToSet(stars), !.room = room])
  <2>1. /\ Cardinality(Repos) \in Nat
        /\ (IF ~counted THEN Cardinality(Repos)
            ELSE IF Counted < MaxTrackers THEN MaxTrackers - Counted ELSE 0) \in Nat
    BY RoomTyped, StarredAssumption
  <2> QED
    BY <2>1 DEF SyncBegin, Loaded
<1> DEFINE to == [AtRest EXCEPT !.pc = "stars", !.job = "sync", !.known = trackerOf,
                      !.token = token, !.absent = Repos \ ToSet(stars), !.room = room]
<1>2. trackerOf \in [Repos -> Trackers]
  BY DEF StarredInv, StarredTypeOK
<1>3. AtRest \in Locals
  BY RestFields DEF Sound
<1>4. to \in Locals
  BY <1>2, <1>3 DEF Locals
<1>5. /\ to.pc = "stars" /\ to.job = "sync" /\ to.known = trackerOf
      /\ to.absent = Repos \ ToSet(stars) /\ to.seen = {} /\ to.page = 0
      /\ to.repo = NoRepo /\ to.newest = 0 /\ to.items = <<>>
  BY DEF AtRest
<1> HIDE DEF to
<1>6. Sound(a, to)
  BY <1>4, <1>5 DEF Sound, Reading, Holding
<1>7. Goes(a, to)
  BY <1>1 DEF to
<1>8. budget' \in [Happenings -> Nat]
  <2>1. /\ budget \in [Happenings -> Nat] /\ budget["sync"] > 0
        /\ ~(counted /\ token) => budget["mishap"] > 0
    BY DEF SyncBegin, StarredInv, StarredTypeOK
  <2>2. {"sync", "mishap"} \subseteq Happenings
    BY DEF Happenings
  <2>3. budget["sync"] - 1 \in Nat /\ (~(counted /\ token) => budget["mishap"] - 1 \in Nat)
    BY <2>1, <2>2
  <2> QED
    BY <2>1, <2>2, <2>3 DEF SyncBegin
<1>9. StarredInv'
  BY <1>6, <1>7, <1>8, OtherTyped, MoveTyped DEF SyncBegin, Aside
<1> QED
  BY <1>5, <1>6, <1>7, <1>9, OneMoves

LEMMA ListStarsTyped ==
    ASSUME StarredInv, NEW a \in Pollers, ListStars(a)
    PROVE  /\ StarredInv'
           /\ \A b \in Pollers \ {a} : poller'[b] = poller[b]
           /\ \/ poller'[a] = AtRest
              \/ LET got == ToSet(Cut(stars, poller[a].page + 1, StarPage))
                 IN  /\ poller'[a].pc = "register" /\ poller'[a].job = "sync"
                     /\ poller'[a].known = poller[a].known
                     /\ poller'[a].page = poller[a].page + 1 /\ poller'[a].left = got
                     /\ poller'[a].seen = poller[a].seen \cup got
                     /\ poller'[a].absent = poller[a].absent
                     /\ poller'[a].more = (Len(stars) > (poller[a].page + 1) * StarPage)
                     /\ poller'[a].repo = NoRepo /\ poller'[a].newest = 0
<1> DEFINE got == ToSet(Cut(stars, poller[a].page + 1, StarPage))
           to == [poller[a] EXCEPT !.pc = "register", !.page = poller[a].page + 1, !.left = got,
                      !.seen = @ \cup got, !.more = Len(stars) > (poller[a].page + 1) * StarPage]
<1>1. poller[a] \in Locals /\ Sound(a, poller[a]) /\ poller[a].pc = "stars"
  BY PollerFields DEF ListStars
<1>2. got \subseteq Repos
  <2>1. stars \in ListsOf(Repos) /\ poller[a].page \in Nat
    BY <1>1 DEF StarredInv, StarredTypeOK, Locals
  <2>2. PICK start \in Nat : start = poller[a].page * StarPage
                             /\ (poller[a].page + 1) * StarPage = start + StarPage
    BY <2>1, StarredAssumption, PageStart
  <2>3. Cut(stars, poller[a].page + 1, StarPage) \in ListsOf(Repos)
    <3>1. PICK nth : nth = poller[a].page + 1
      OBVIOUS
    <3> QED
      BY <2>1, <2>2, <3>1, StarredAssumption, CutFields
  <2> QED
    BY <2>3, ListFields
<1> HIDE DEF got
<1>3. PICK longer \in BOOLEAN : longer = (Len(stars) > (poller[a].page + 1) * StarPage)
  <2>1. CASE Len(stars) > (poller[a].page + 1) * StarPage
    <3>1. TRUE = (Len(stars) > (poller[a].page + 1) * StarPage)
      BY <2>1
    <3> QED
      BY <3>1
  <2>2. CASE ~(Len(stars) > (poller[a].page + 1) * StarPage)
    <3>1. FALSE = (Len(stars) > (poller[a].page + 1) * StarPage)
      BY <2>2
    <3> QED
      BY <3>1
  <2> QED
    BY <2>1, <2>2
<1>4. /\ to \in Locals
      /\ to.pc = "register" /\ to.job = poller[a].job /\ to.known = poller[a].known
      /\ to.page = poller[a].page + 1 /\ to.left = got /\ to.seen = poller[a].seen \cup got
      /\ to.absent = poller[a].absent /\ to.more = longer
      /\ to.repo = poller[a].repo /\ to.newest = poller[a].newest /\ to.items = poller[a].items
      /\ to.mark = poller[a].mark
  <2>1. poller[a].page + 1 \in Nat
    BY <1>1 DEF Locals
  <2> QED
    BY <1>1, <1>2, <1>3, <2>1 DEF Locals
<1> HIDE DEF to
<1>5. Sound(a, to)
  BY <1>1, <1>4 DEF Sound, Reading, Holding
<1>6. to.job = "sync" /\ to.repo = NoRepo /\ to.newest = 0
  BY <1>1, <1>4 DEF Sound, Holding, Reading
<1>7. Sound(a, AtRest)
  BY RestFields
<1>8. Goes(a, AtRest) \/ Goes(a, to)
  BY DEF ListStars, to, got
<1>9. StarredInv'
  BY <1>5, <1>7, <1>8, OtherTyped, MoveTyped DEF ListStars
<1>10. poller'[a] \in {AtRest, to} /\ \A b \in Pollers \ {a} : poller'[b] = poller[b]
  BY <1>5, <1>7, <1>8, OneMoves
<1>11. \/ poller'[a] = AtRest
       \/ /\ poller'[a].pc = "register" /\ poller'[a].job = "sync"
          /\ poller'[a].known = poller[a].known
          /\ poller'[a].page = poller[a].page + 1 /\ poller'[a].left = got
          /\ poller'[a].seen = poller[a].seen \cup got
          /\ poller'[a].absent = poller[a].absent
          /\ poller'[a].more = longer
          /\ poller'[a].repo = NoRepo /\ poller'[a].newest = 0
  BY <1>4, <1>6, <1>10
<1>12. \A b \in Pollers \ {a} : poller'[b] = poller[b]
  BY <1>10
<1> QED
  BY <1>3, <1>9, <1>11, <1>12, Zenon DEF got

(* Of the repositories a page listed, one less is left.                    *)
LEMMA OneLess ==
    ASSUME StarredInv, NEW a \in Pollers, NEW r \in Repos,
           poller[a].pc \in {"register", "remove", "poll"}
    PROVE  LET to == [poller[a] EXCEPT !.left = @ \ {r}]
           IN  /\ Sound(a, to) /\ to.pc = poller[a].pc /\ to.left = poller[a].left \ {r}
               /\ to.job = poller[a].job /\ to.known = poller[a].known
               /\ to.seen = poller[a].seen /\ to.absent = poller[a].absent
               /\ to.page = poller[a].page /\ to.more = poller[a].more
               /\ to.repo = poller[a].repo /\ to.newest = poller[a].newest
               /\ to.repo = NoRepo /\ to.newest = 0
<1> DEFINE to == [poller[a] EXCEPT !.left = @ \ {r}]
<1>1. poller[a] \in Locals /\ Sound(a, poller[a])
  BY PollerFields
<1>2. /\ to \in Locals /\ to.pc = poller[a].pc /\ to.left = poller[a].left \ {r}
      /\ to.job = poller[a].job /\ to.known = poller[a].known
      /\ to.seen = poller[a].seen /\ to.absent = poller[a].absent
      /\ to.page = poller[a].page /\ to.more = poller[a].more
      /\ to.repo = poller[a].repo /\ to.newest = poller[a].newest
      /\ to.items = poller[a].items /\ to.mark = poller[a].mark /\ to.told = poller[a].told
  BY <1>1 DEF Locals
<1> HIDE DEF to
<1>3. Sound(a, to) /\ to.repo = NoRepo /\ to.newest = 0
  BY <1>1, <1>2 DEF Sound, Holding, Reading
<1> QED
  BY <1>2, <1>3 DEF to

NewRow == [NoRow EXCEPT !.state = "tracking"]

LEMMA NewRowFields ==
    NewRow \in Trackers /\ NewRow.state = "tracking" /\ NewRow.cursor = 0 /\ NewRow.etag = NoTag
  BY EmptyPage DEF NewRow, NoRow, Trackers

LEMMA RegisterTyped ==
    ASSUME StarredInv, NEW a \in Pollers, NEW r \in Repos, Register(a, r)
    PROVE  /\ StarredInv'
           /\ \A b \in Pollers \ {a} : poller'[b] = poller[b]
           /\ trackerOf' = [trackerOf EXCEPT ![r] = NewRow]
           /\ poller'[a].known = [poller[a].known EXCEPT ![r] = NewRow]
           /\ poller'[a].job = "sync" /\ poller'[a].pc \in {"probe", "register"}
           /\ poller'[a].left = poller[a].left \ {r} /\ poller'[a].seen = poller[a].seen
           /\ poller'[a].absent = poller[a].absent /\ poller'[a].page = poller[a].page
           /\ poller'[a].more = poller[a].more /\ poller'[a].newest = 0
           /\ poller'[a].repo = IF poller'[a].pc = "probe" THEN r ELSE NoRepo
<1>1. poller[a] \in Locals /\ Sound(a, poller[a]) /\ poller[a].pc = "register" /\ poller[a].room > 0
  BY PollerFields DEF Register
<1> DEFINE to(stage, repo) == [poller[a] EXCEPT !.left = @ \ {r}, !.room = @ - 1,
                                !.known = [@ EXCEPT ![r] = NewRow], !.pc = stage, !.repo = repo]
<1>2. PICK stage \in {"probe", "register"} : Goes(a, to(stage, IF stage = "probe" THEN r ELSE NoRepo))
  <2>1. CASE poller[a].token /\ trackerOf[r].state = "none"
    BY <2>1 DEF Register, NewRow
  <2>2. CASE ~(poller[a].token /\ trackerOf[r].state = "none")
    BY <2>2 DEF Register, NewRow
  <2> QED
    BY <2>1, <2>2
<1>3. PICK repo \in Repos \cup {NoRepo} : repo = IF stage = "probe" THEN r ELSE NoRepo
  OBVIOUS
<1> DEFINE next == to(stage, repo)
<1>4. poller[a].room - 1 \in Nat
  BY <1>1 DEF Locals
<1>5. [poller[a].known EXCEPT ![r] = NewRow] \in [Repos -> Trackers]
  BY <1>1, NewRowFields DEF Locals
<1>6. /\ next \in Locals
      /\ next.known = [poller[a].known EXCEPT ![r] = NewRow]
      /\ next.left = poller[a].left \ {r} /\ next.pc = stage /\ next.repo = repo
      /\ next.job = poller[a].job /\ next.seen = poller[a].seen
      /\ next.absent = poller[a].absent /\ next.page = poller[a].page
      /\ next.more = poller[a].more /\ next.newest = poller[a].newest
      /\ next.items = poller[a].items /\ next.mark = poller[a].mark
  BY <1>1, <1>3, <1>4, <1>5 DEF Locals
<1>7. Goes(a, next)
  BY <1>2, <1>3
<1> HIDE DEF next
<1>8. repo = NoRepo <=> stage # "probe"
  BY <1>3, StarredAssumption
<1>9. poller[a].job = "sync" /\ poller[a].newest = 0
  BY <1>1 DEF Sound
<1>10. Sound(a, next)
  BY <1>1, <1>6, <1>8, <1>9 DEF Sound, Reading, Holding
<1>11. trackerOf' = [trackerOf EXCEPT ![r] = NewRow]
  BY DEF Register, NewRow
<1>12. trackerOf' \in [Repos -> Trackers]
  BY <1>11, NewRowFields, RowWritten
<1>13. StarredInv'
  BY <1>7, <1>10, <1>12, OtherTyped, MoveTyped DEF Register
<1>14. poller'[a] = next /\ \A b \in Pollers \ {a} : poller'[b] = poller[b]
  BY <1>7, <1>10, OneMoves
<1> QED
  BY <1>3, <1>6, <1>9, <1>11, <1>13, <1>14

LEMMA RecheckTyped ==
    ASSUME StarredInv, NEW a \in Pollers, NEW r \in Repos, Recheck(a, r)
    PROVE  /\ StarredInv'
           /\ \A b \in Pollers \ {a} : poller'[b] = poller[b]
           /\ poller'[a].known = poller[a].known
           /\ poller'[a].job = "sync" /\ poller'[a].pc = "probe"
           /\ poller'[a].left = poller[a].left \ {r} /\ poller'[a].seen = poller[a].seen
           /\ poller'[a].absent = poller[a].absent /\ poller'[a].page = poller[a].page
           /\ poller'[a].more = poller[a].more /\ poller'[a].newest = 0
           /\ poller'[a].repo = r
<1>1. poller[a] \in Locals /\ Sound(a, poller[a]) /\ poller[a].pc = "register"
  BY PollerFields DEF Recheck
<1> DEFINE next == [poller[a] EXCEPT !.left = @ \ {r}, !.pc = "probe", !.repo = r]
<1>2. /\ next \in Locals /\ next.known = poller[a].known
      /\ next.left = poller[a].left \ {r} /\ next.pc = "probe" /\ next.repo = r
      /\ next.job = poller[a].job /\ next.seen = poller[a].seen
      /\ next.absent = poller[a].absent /\ next.page = poller[a].page
      /\ next.more = poller[a].more /\ next.newest = poller[a].newest
      /\ next.items = poller[a].items /\ next.mark = poller[a].mark
  BY <1>1 DEF Locals
<1>3. Goes(a, next)
  BY DEF Recheck
<1> HIDE DEF next
<1>4. poller[a].job = "sync" /\ poller[a].newest = 0 /\ r # NoRepo
  BY <1>1, StarredAssumption DEF Sound
<1>5. Sound(a, next)
  BY <1>1, <1>2, <1>4 DEF Sound, Reading, Holding
<1>6. StarredInv'
  BY <1>3, <1>5, OtherTyped, MoveTyped DEF Recheck
<1>7. poller'[a] = next /\ \A b \in Pollers \ {a} : poller'[b] = poller[b]
  BY <1>3, <1>5, OneMoves
<1> QED
  BY <1>2, <1>4, <1>6, <1>7

LEMMA ProbeTyped ==
    ASSUME StarredInv, NEW a \in Pollers, Probe(a)
    PROVE  /\ StarredInv'
           /\ poller[a].repo \in Repos
           /\ \A b \in Pollers \ {a} : poller'[b] = poller[b]
           /\ poller'[a].known = poller[a].known /\ poller'[a].job = "sync"
           /\ poller'[a].left = poller[a].left /\ poller'[a].seen = poller[a].seen
           /\ poller'[a].absent = poller[a].absent /\ poller'[a].page = poller[a].page
           /\ poller'[a].more = poller[a].more /\ poller'[a].repo = poller[a].repo
           /\ \/ poller'[a].pc \in {"gone", "empty"} /\ poller'[a].newest = 0 /\ UNCHANGED excused
              \/ LET r == poller[a].repo
                 IN  /\ poller'[a].pc = "cursor" /\ releases[r] # <<>>
                     /\ poller'[a].newest = Head(releases[r])
                     /\ poller'[a].mark = FirstPage(r)
                     /\ excused' = excused \cup Untold(r, ToSet(releases[r]))
<1> DEFINE r == poller[a].repo
<1>1. /\ poller[a] \in Locals /\ Sound(a, poller[a]) /\ poller[a].pc = "probe"
      /\ r \in Repos /\ poller[a].job = "sync" /\ poller[a].newest = 0 /\ r # NoRepo
  BY PollerFields DEF Probe, Sound, Holding
<1> HIDE DEF r
<1>2. CASE \/ r \in vanished /\ Goes(a, At(a, "gone")) /\ UNCHANGED excused
           \/ r \notin vanished /\ releases[r] = <<>> /\ Goes(a, At(a, "empty")) /\ UNCHANGED excused
  <2>1. \E stage \in {"gone", "empty"} : Goes(a, At(a, stage))
    BY <1>2
  <2>2. PICK stage \in {"gone", "empty"} : Goes(a, At(a, stage))
    BY <2>1
  <2>3. /\ Sound(a, At(a, stage)) /\ At(a, stage).pc = stage /\ At(a, stage).repo = poller[a].repo
        /\ At(a, stage).newest = 0 /\ At(a, stage).job = poller[a].job
        /\ At(a, stage).known = poller[a].known
        /\ At(a, stage).left = poller[a].left /\ At(a, stage).seen = poller[a].seen
        /\ At(a, stage).absent = poller[a].absent /\ At(a, stage).page = poller[a].page
        /\ At(a, stage).more = poller[a].more
    BY <1>1, AtSound
  <2>4. UNCHANGED excused
    BY <1>2
  <2>5. StarredInv'
    BY <2>2, <2>3, <2>4, OtherTyped, MoveTyped DEF Probe
  <2>6. poller'[a] = At(a, stage) /\ \A b \in Pollers \ {a} : poller'[b] = poller[b]
    BY <2>2, <2>3, OneMoves
  <2> QED
    BY <1>1, <2>3, <2>4, <2>5, <2>6 DEF r
<1>3. CASE r \notin vanished /\ releases[r] # <<>> /\ Baseline(a, r)
  <2> DEFINE next == [poller[a] EXCEPT !.pc = "cursor", !.repo = r, !.newest = Head(releases[r]),
                          !.mark = FirstPage(r)]
  <2>1. /\ FirstPage(r) \in Tags /\ FirstPage(r) # <<>> /\ Head(FirstPage(r)) = Head(releases[r])
        /\ Head(releases[r]) \in ReleaseIds /\ Head(releases[r]) # 0
    BY <1>1, <1>3, FirstPageFields, StarredAssumption
  <2>2. /\ next \in Locals /\ next.known = poller[a].known
        /\ next.left = poller[a].left /\ next.pc = "cursor" /\ next.repo = r
        /\ next.job = poller[a].job /\ next.seen = poller[a].seen
        /\ next.absent = poller[a].absent /\ next.page = poller[a].page
        /\ next.more = poller[a].more /\ next.newest = Head(releases[r])
        /\ next.items = poller[a].items /\ next.mark = FirstPage(r)
    BY <1>1, <2>1 DEF Locals
  <2>3. Goes(a, next)
    BY <1>3 DEF Baseline
  <2> HIDE DEF next
  <2>4. Sound(a, next)
    BY <1>1, <2>1, <2>2 DEF Sound, Reading, Holding
  <2>5. excused' = excused \cup Untold(r, ToSet(releases[r]))
    BY <1>3 DEF Baseline
  <2>6. excused' \subseteq Repos \X ReleaseIds
    BY <1>1, <2>5, OtherTyped, ReleasesFields, UntoldTyped
  <2>7. StarredInv'
    BY <2>3, <2>4, <2>6, OtherTyped, MoveTyped DEF Probe
  <2>8. poller'[a] = next /\ \A b \in Pollers \ {a} : poller'[b] = poller[b]
    BY <2>3, <2>4, OneMoves
  <2> QED
    BY <1>1, <1>3, <2>2, <2>5, <2>7, <2>8 DEF r
<1> QED
  BY <1>2, <1>3 DEF Probe, r

(* Steps after which the poller is done with what it holds.                *)
LEMMA DoneTyped ==
    ASSUME StarredInv, NEW a \in Pollers, ProbeFails(a)
    PROVE  StarredInv' /\ poller'[a] = Done(a) /\ \A b \in Pollers \ {a} : poller'[b] = poller[b]
<1>1. Sound(a, Done(a)) /\ Goes(a, Done(a)) /\ "mishap" \in Happenings
  BY DoneSound DEF ProbeFails, Happenings
<1>2. StarredInv'
  BY <1>1, OtherTyped, MoveTyped DEF ProbeFails
<1> QED
  BY <1>1, <1>2, OneMoves

LEMMA PageDoneTyped ==
    ASSUME StarredInv, NEW a \in Pollers, PageDone(a)
    PROVE  /\ StarredInv'
           /\ \A b \in Pollers \ {a} : poller'[b] = poller[b]
           /\ poller'[a].known = poller[a].known /\ poller'[a].job = "sync"
           /\ poller'[a].seen = poller[a].seen
           /\ poller'[a].absent = poller[a].absent /\ poller'[a].page = poller[a].page
           /\ poller'[a].more = poller[a].more
           /\ poller'[a].repo = NoRepo /\ poller'[a].newest = 0
           /\ IF poller[a].more THEN poller'[a].pc = "stars"
              ELSE poller'[a].pc = "remove" /\ poller'[a].left = Candidates \ poller[a].seen
<1>1. /\ poller[a] \in Locals /\ Sound(a, poller[a]) /\ poller[a].pc = "register"
      /\ poller[a].job = "sync" /\ poller[a].newest = 0 /\ poller[a].repo = NoRepo
  BY PollerFields DEF PageDone, Sound, Holding, Reading
<1>2. CASE poller[a].more
  <2> DEFINE next == At(a, "stars")
  <2>1. /\ next \in Locals /\ next.known = poller[a].known
        /\ next.left = poller[a].left /\ next.pc = "stars" /\ next.repo = poller[a].repo
        /\ next.job = poller[a].job /\ next.seen = poller[a].seen
        /\ next.absent = poller[a].absent /\ next.page = poller[a].page
        /\ next.more = poller[a].more /\ next.newest = poller[a].newest
        /\ next.items = poller[a].items /\ next.mark = poller[a].mark
    BY <1>1 DEF Locals, At
  <2>2. Goes(a, next)
    BY <1>2 DEF PageDone
  <2> HIDE DEF next
  <2>3. Sound(a, next)
    BY <1>1, <2>1 DEF Sound, Reading, Holding
  <2>4. StarredInv'
    BY <2>2, <2>3, OtherTyped, MoveTyped DEF PageDone
  <2>5. poller'[a] = next /\ \A b \in Pollers \ {a} : poller'[b] = poller[b]
    BY <2>2, <2>3, OneMoves
  <2> QED
    BY <1>1, <1>2, <2>1, <2>4, <2>5
<1>3. CASE ~poller[a].more
  <2> DEFINE next == [poller[a] EXCEPT !.pc = "remove", !.left = Candidates \ poller[a].seen]
  <2>1. /\ next \in Locals /\ next.known = poller[a].known
        /\ next.left = Candidates \ poller[a].seen /\ next.pc = "remove" /\ next.repo = poller[a].repo
        /\ next.job = poller[a].job /\ next.seen = poller[a].seen
        /\ next.absent = poller[a].absent /\ next.page = poller[a].page
        /\ next.more = poller[a].more /\ next.newest = poller[a].newest
        /\ next.items = poller[a].items /\ next.mark = poller[a].mark
    BY <1>1, ZenonT(30) DEF Locals, Candidates
  <2>2. Goes(a, next)
    BY <1>3 DEF PageDone
  <2> HIDE DEF next
  <2>3. Sound(a, next)
    BY <1>1, <2>1 DEF Sound, Reading, Holding
  <2>4. StarredInv'
    BY <2>2, <2>3, OtherTyped, MoveTyped DEF PageDone
  <2>5. poller'[a] = next /\ \A b \in Pollers \ {a} : poller'[b] = poller[b]
    BY <2>2, <2>3, OneMoves
  <2> QED
    BY <1>1, <1>3, <2>1, <2>4, <2>5
<1> QED
  BY <1>2, <1>3

LEMMA PassOverTyped ==
    ASSUME StarredInv, NEW a \in Pollers, NEW r \in Repos, PassOver(a, r) \/ Disable(a, r)
    PROVE  /\ StarredInv' /\ poller'[a] = [poller[a] EXCEPT !.left = @ \ {r}]
           /\ \A b \in Pollers \ {a} : poller'[b] = poller[b]
<1> DEFINE to == [poller[a] EXCEPT !.left = @ \ {r}]
<1>1. Sound(a, to) /\ Goes(a, to)
  BY OneLess DEF PassOver, Disable
<1> HIDE DEF to
<1>2. budget' \in [Happenings -> Nat]
  <2>1. "mishap" \in Happenings
    BY DEF Happenings
  <2>2. UNCHANGED budget \/ Spend("mishap")
    BY DEF PassOver, Disable
  <2> QED
    BY <2>1, <2>2, OtherTyped
<1>3. trackerOf' \in [Repos -> Trackers]
  <2>1. UNCHANGED trackerOf \/ trackerOf' = [trackerOf EXCEPT ![r].state = "disabled"]
    BY DEF PassOver, Disable
  <2> QED
    BY <2>1, OtherTyped, StateWritten
<1>4. StarredInv'
  BY <1>1, <1>2, <1>3, OtherTyped, MoveTyped DEF PassOver, Disable
<1> QED
  BY <1>1, <1>4, OneMoves DEF to

LEMMA SyncDoneTyped ==
    ASSUME StarredInv, NEW a \in Pollers, SyncDone(a)
    PROVE  StarredInv' /\ poller'[a] = AtRest /\ \A b \in Pollers \ {a} : poller'[b] = poller[b]
<1>1. Sound(a, AtRest) /\ Goes(a, AtRest)
  BY RestFields DEF SyncDone
<1>2. StarredInv'
  BY <1>1, OtherTyped, MoveTyped DEF SyncDone
<1> QED
  BY <1>1, <1>2, OneMoves

-----------------------------------------------------------------------------
(* A row's ETag is that of a page which has the cursor in front.           *)
RowPair(row) == row.etag # <<>> /\ Head(row.etag) = row.cursor
Paired ==
    /\ \A r \in Repos : RowPair(trackerOf[r])
    /\ \A a \in Pollers : \A r \in Repos : RowPair(poller[a].known[r])

LEMMA LeadFields ==
    Leader \in Pollers /\ (StarredInv => Lead \in Locals /\ Sound(Leader, Lead))
<1>1. Leader \in Pollers
  BY DEF Pollers
<1> QED
  BY <1>1, PollerFields DEF Lead

LEMMA PollBeginTyped ==
    ASSUME StarredInv, PollBegin
    PROVE  /\ StarredInv' /\ \A b \in Pollers \ {Leader} : poller'[b] = poller[b]
           /\ Lead'.pc = "poll" /\ Lead'.job = "poll" /\ Lead'.known = trackerOf
           /\ Lead'.left = Candidates /\ Lead'.repo = NoRepo /\ Lead'.newest = 0
<1> DEFINE next == [AtRest EXCEPT !.pc = "poll", !.job = "poll", !.known = trackerOf, !.left = Candidates]
<1>1. trackerOf \in [Repos -> Trackers] /\ Candidates \subseteq Repos
  BY DEF StarredInv, StarredTypeOK, Candidates
<1>2. AtRest \in Locals
  BY RestFields DEF Sound
<1>3. next \in Locals
  BY <1>1, <1>2 DEF Locals
<1>4. /\ next.pc = "poll" /\ next.job = "poll" /\ next.known = trackerOf /\ next.left = Candidates
      /\ next.repo = NoRepo /\ next.newest = 0 /\ next.items = <<>>
  BY DEF AtRest
<1>5. Goes(Leader, next) /\ Leader \in Pollers
  BY LeadFields DEF PollBegin
<1> HIDE DEF next
<1>6. Sound(Leader, next)
  BY <1>3, <1>4 DEF Sound, Reading, Holding
<1>7. StarredInv'
  BY <1>5, <1>6, OtherTyped, MoveTyped DEF PollBegin
<1> QED
  BY <1>4, <1>5, <1>6, <1>7, OneMoves DEF Lead

LEMMA ScanningFields ==
    ASSUME NEW r \in Repos, NEW list \in PagesOf(ReleaseIds), NEW at \in Locals
    PROVE  LET to == Scanning(r, list, at)
           IN  /\ to \in Locals /\ to.pc = "scan" /\ to.items = NewIn(list, at.known[r].cursor)
               /\ to.more = NotLast(list, at.known[r].cursor)
               /\ to.job = at.job /\ to.known = at.known /\ to.left = at.left
               /\ to.page = at.page /\ to.repo = at.repo /\ to.newest = at.newest
               /\ to.mark = at.mark /\ to.told = at.told
<1> DEFINE c == at.known[r].cursor
           to == Scanning(r, list, at)
<1>1. c \in Nat
  <2>1. at.known[r] \in Trackers
    BY DEF Locals
  <2>2. PICK row \in Trackers : row = at.known[r]
    BY <2>1
  <2>3. row.cursor \in ReleaseIds \cup {0}
    BY DEF Trackers
  <2>4. ReleaseIds \subseteq Nat
    BY StarredAssumption
  <2> QED
    <3>1. \A n \in ReleaseIds \cup {0} : n \in Nat
      BY <2>4
    <3>2. row.cursor \in Nat
      BY <2>3, <3>1
    <3> QED
      BY <2>2, <3>2
<1> HIDE DEF c
<1>2. NewIn(list, c) \in PagesOf(ReleaseIds)
  <2>1. list \in ListsOf(ReleaseIds) /\ Len(list) <= ReleasePage /\ ReleasePage \in Nat
    BY StarredAssumption DEF PagesOf
  <2>2. NewIn(list, c) \in ListsOf(ReleaseIds) /\ Len(NewIn(list, c)) <= Len(list)
    BY <1>1, <2>1, NewerThanCursor
  <2>3. Len(NewIn(list, c)) \in Nat /\ Len(list) \in Nat
    BY <2>1, <2>2, ListFields
  <2>4. Len(NewIn(list, c)) <= ReleasePage
    BY <2>1, <2>2, <2>3
  <2> QED
    BY <2>2, <2>4 DEF PagesOf
<1>3. NotLast(list, c) \in BOOLEAN
  <2>1. CASE NotLast(list, c)
    <3>1. NotLast(list, c) = TRUE
      BY <2>1 DEF NotLast
    <3> QED
      BY <3>1
  <2>2. CASE ~NotLast(list, c)
    <3>1. NotLast(list, c) = FALSE
      BY <2>2 DEF NotLast
    <3> QED
      BY <3>1
  <2> QED
    BY <2>1, <2>2
<1>4. PICK items \in PagesOf(ReleaseIds), more \in BOOLEAN :
         items = NewIn(list, c) /\ more = NotLast(list, c)
  BY <1>2, <1>3
<1>5. to = [at EXCEPT !.pc = "scan", !.items = items, !.more = more]
  BY <1>4 DEF Scanning, c
<1>6. /\ to \in Locals /\ to.pc = "scan" /\ to.items = items /\ to.more = more
      /\ to.job = at.job /\ to.known = at.known /\ to.left = at.left
      /\ to.page = at.page /\ to.repo = at.repo /\ to.newest = at.newest
      /\ to.mark = at.mark /\ to.told = at.told
  BY <1>5, ZenonT(30) DEF Locals
<1> QED
  BY <1>4, <1>6 DEF c

LEMMA PollTyped ==
    ASSUME StarredInv, Paired, NEW r \in Repos, Poll(r)
    PROVE  LET list == FirstPage(r)
               row == Lead.known[r]
           IN  /\ StarredInv' /\ \A b \in Pollers \ {Leader} : poller'[b] = poller[b]
               /\ Lead.job = "poll" /\ Lead.repo = NoRepo
               /\ Lead'.job = "poll" /\ Lead'.known = Lead.known /\ Lead'.left = Lead.left \ {r}
               /\ Lead'.page = 1 /\ Lead'.repo = r /\ Lead'.mark = list
               /\ \/ Lead'.pc \in {"gone", "empty"} /\ Lead'.newest = 0 /\ UNCHANGED excused
                  \/ /\ Lead'.pc = "cursor" /\ row.etag = list /\ Lead'.newest = row.cursor
                     /\ UNCHANGED excused
                  \/ /\ Lead'.pc = "cursor" /\ Lead'.newest = Head(releases[r])
                     /\ excused' = excused \cup Untold(r, ToSet(releases[r]))
                  \/ /\ Lead'.pc = "scan" /\ releases[r] # <<>> /\ Lead'.newest = Head(releases[r])
                     /\ Lead'.items = NewIn(list, row.cursor) /\ Lead'.more = NotLast(list, row.cursor)
                     /\ r \notin vanished /\ UNCHANGED excused
<1> DEFINE list == FirstPage(r)
           row == Lead.known[r]
           To(stage, newest) == [Lead EXCEPT !.left = @ \ {r}, !.page = 1, !.repo = r,
                                  !.pc = stage, !.newest = newest, !.mark = list]
<1>1. /\ Leader \in Pollers /\ Lead \in Locals /\ Sound(Leader, Lead) /\ Lead.pc = "poll"
      /\ Lead.told < MaxBackfill /\ Lead.job = "poll" /\ Lead.repo = NoRepo /\ Lead.items = <<>>
      /\ r # NoRepo /\ row \in Trackers
  BY LeadFields, StarredAssumption DEF Poll, Sound, Holding, Reading, Locals
<1>2. /\ list \in Tags /\ list \in PagesOf(ReleaseIds)
      /\ (releases[r] # <<>> <=> list # <<>>)
      /\ list # <<>> => /\ Head(list) = Head(releases[r]) /\ Head(list) \in ReleaseIds
                        /\ Head(list) # 0
  BY FirstPageFields, StarredAssumption
<1> HIDE DEF list, row
<1>3. ASSUME NEW stage \in {"gone", "empty", "cursor", "scan"}, NEW newest \in ReleaseIds \cup {0}
      PROVE  /\ To(stage, newest) \in Locals /\ To(stage, newest).pc = stage
             /\ To(stage, newest).newest = newest /\ To(stage, newest).left = Lead.left \ {r}
             /\ To(stage, newest).page = 1 /\ To(stage, newest).repo = r /\ To(stage, newest).mark = list
             /\ To(stage, newest).job = Lead.job /\ To(stage, newest).known = Lead.known
             /\ To(stage, newest).items = Lead.items /\ To(stage, newest).told = Lead.told
  BY <1>1, <1>2, ZenonT(30) DEF Locals
<1> HIDE DEF To
<1>4. ASSUME NEW stage \in {"gone", "empty", "cursor"}, NEW newest \in ReleaseIds \cup {0},
             Goes(Leader, To(stage, newest)), excused' \subseteq Repos \X ReleaseIds,
             newest # 0 => list # <<>> /\ Head(list) = newest,
             stage = "cursor" <=> newest # 0
      PROVE  /\ StarredInv' /\ \A b \in Pollers \ {Leader} : poller'[b] = poller[b]
             /\ Lead'.job = "poll" /\ Lead'.known = Lead.known /\ Lead'.left = Lead.left \ {r}
             /\ Lead'.page = 1 /\ Lead'.repo = r /\ Lead'.mark = list
             /\ Lead'.pc = stage /\ Lead'.newest = newest
  <2>1. Sound(Leader, To(stage, newest))
    BY <1>1, <1>3, <1>4 DEF Sound, Reading, Holding
  <2>2. StarredInv'
    BY <1>1, <1>4, <2>1, OtherTyped, MoveTyped DEF Poll
  <2>3. Lead' = To(stage, newest) /\ \A b \in Pollers \ {Leader} : poller'[b] = poller[b]
    BY <1>1, <1>4, <2>1, OneMoves DEF Lead
  <2> QED
    BY <1>1, <1>3, <2>2, <2>3
<1>5. CASE \/ r \in vanished /\ Goes(Leader, To("gone", 0)) /\ UNCHANGED excused
           \/ /\ r \notin vanished /\ row.etag # list
              /\ list = <<>> /\ Goes(Leader, To("empty", 0)) /\ UNCHANGED excused
  <2>1. \E stage \in {"gone", "empty"} : Goes(Leader, To(stage, 0))
    BY <1>5
  <2>2. PICK stage \in {"gone", "empty"} : Goes(Leader, To(stage, 0))
    BY <2>1
  <2>3. UNCHANGED excused /\ excused' \subseteq Repos \X ReleaseIds
    BY <1>5, OtherTyped
  <2>4. /\ StarredInv' /\ \A b \in Pollers \ {Leader} : poller'[b] = poller[b]
        /\ Lead'.job = "poll" /\ Lead'.known = Lead.known /\ Lead'.left = Lead.left \ {r}
        /\ Lead'.page = 1 /\ Lead'.repo = r /\ Lead'.mark = list
        /\ Lead'.pc = stage /\ Lead'.newest = 0
    BY <1>4, <2>2, <2>3
  <2> QED
    BY <1>1, <2>3, <2>4 DEF list
<1>6. CASE r \notin vanished /\ row.etag = list /\ Goes(Leader, To("cursor", row.cursor)) /\ UNCHANGED excused
  <2>1. RowPair(row)
    BY <1>1 DEF Paired, Lead, row
  <2>2. list # <<>> /\ Head(list) = row.cursor /\ row.cursor # 0 /\ row.cursor \in ReleaseIds
    BY <1>2, <1>6, <2>1 DEF RowPair
  <2>3. excused' \subseteq Repos \X ReleaseIds
    BY <1>6, OtherTyped
  <2>4. /\ StarredInv' /\ \A b \in Pollers \ {Leader} : poller'[b] = poller[b]
        /\ Lead'.job = "poll" /\ Lead'.known = Lead.known /\ Lead'.left = Lead.left \ {r}
        /\ Lead'.page = 1 /\ Lead'.repo = r /\ Lead'.mark = list
        /\ Lead'.pc = "cursor" /\ Lead'.newest = row.cursor
    BY <1>4, <1>6, <2>2, <2>3
  <2> QED
    BY <1>1, <1>6, <2>4 DEF list, row
<1>7. CASE /\ list # <<>> /\ Goes(Leader, To("cursor", Head(list)))
           /\ excused' = excused \cup Untold(r, ToSet(releases[r]))
  <2>1. excused' \subseteq Repos \X ReleaseIds
    BY <1>7, OtherTyped, ReleasesFields, UntoldTyped
  <2>2. /\ StarredInv' /\ \A b \in Pollers \ {Leader} : poller'[b] = poller[b]
        /\ Lead'.job = "poll" /\ Lead'.known = Lead.known /\ Lead'.left = Lead.left \ {r}
        /\ Lead'.page = 1 /\ Lead'.repo = r /\ Lead'.mark = list
        /\ Lead'.pc = "cursor" /\ Lead'.newest = Head(list)
    BY <1>2, <1>4, <1>7, <2>1
  <2> QED
    BY <1>1, <1>2, <1>7, <2>2 DEF list
<1>8. CASE /\ r \notin vanished /\ list # <<>> /\ UNCHANGED excused
           /\ Goes(Leader, Scanning(r, list, To("scan", Head(list))))
  <2>1. PICK at : at = To("scan", Head(list))
    OBVIOUS
  <2>2. /\ at \in Locals /\ at.pc = "scan" /\ at.newest = Head(list) /\ at.left = Lead.left \ {r}
        /\ at.page = 1 /\ at.repo = r /\ at.mark = list /\ at.job = Lead.job
        /\ at.known = Lead.known /\ at.told = Lead.told
    BY <1>2, <1>3, <1>8, <2>1
  <2>3. PICK to : to = Scanning(r, list, at)
    OBVIOUS
  <2>4. /\ to \in Locals /\ to.pc = "scan" /\ to.items = NewIn(list, row.cursor)
        /\ to.more = NotLast(list, row.cursor)
        /\ to.job = Lead.job /\ to.known = Lead.known /\ to.left = Lead.left \ {r}
        /\ to.page = 1 /\ to.repo = r /\ to.newest = Head(list)
        /\ to.mark = list /\ to.told = Lead.told
    BY <1>2, <2>2, <2>3, ScanningFields DEF row
  <2>5. Sound(Leader, to)
    BY <1>1, <1>2, <1>8, <2>4 DEF Sound, Reading, Holding
  <2>6. Goes(Leader, to)
    BY <1>8, <2>1, <2>3
  <2>7. StarredInv'
    BY <1>1, <1>8, <2>5, <2>6, OtherTyped, MoveTyped DEF Poll
  <2>8. Lead' = to /\ \A b \in Pollers \ {Leader} : poller'[b] = poller[b]
    BY <1>1, <2>5, <2>6, OneMoves DEF Lead
  <2> QED
    BY <1>1, <1>2, <1>8, <2>4, <2>7, <2>8 DEF list, row
<1> QED
  BY <1>5, <1>6, <1>7, <1>8 DEF Poll, To, list, row

LEMMA PollMoreTyped ==
    ASSUME StarredInv, PollMore
    PROVE  LET r == Lead.repo
               list == Cut(releases[r], Lead.page + 1, ReleasePage)
               c == Lead.known[r].cursor
           IN  /\ StarredInv' /\ \A b \in Pollers \ {Leader} : poller'[b] = poller[b]
               /\ r \in Repos /\ Lead.job = "poll" /\ Lead.page \in Nat
               /\ Lead'.job = "poll" /\ Lead'.known = Lead.known /\ Lead'.left = Lead.left
               /\ Lead'.page = Lead.page + 1 /\ Lead'.repo = r /\ Lead'.mark = Lead.mark
               /\ Lead'.newest = Lead.newest /\ Lead.newest # 0
               /\ \/ Lead'.pc = "gone" /\ r \in vanished
                  \/ Lead'.pc = "cursor" /\ r \notin vanished /\ list = <<>>
                  \/ /\ Lead'.pc = "scan" /\ r \notin vanished
                     /\ Lead'.items = NewIn(list, c) /\ Lead'.more = NotLast(list, c)
<1> DEFINE r == Lead.repo
           at == [Lead EXCEPT !.page = @ + 1]
           list == Cut(releases[r], Lead.page + 1, ReleasePage)
           c == Lead.known[r].cursor
<1>1. /\ Leader \in Pollers /\ Lead \in Locals /\ Sound(Leader, Lead) /\ Lead.pc = "list"
      /\ Lead.job = "poll" /\ r \in Repos /\ r # NoRepo /\ Lead.told < MaxBackfill
  BY LeadFields, StarredAssumption DEF PollMore, Sound, Holding, Reading, Locals
<1>2. Lead.page \in Nat /\ Lead.page + 1 \in Nat /\ Lead.newest # 0
  BY <1>1 DEF Locals, Sound, Reading
<1>3. list \in PagesOf(ReleaseIds)
  BY <1>1, <1>2, ReleasesPage
<1>4. /\ at \in Locals /\ at.pc = "list" /\ at.page = Lead.page + 1 /\ at.repo = r
      /\ at.job = Lead.job /\ at.known = Lead.known /\ at.left = Lead.left
      /\ at.newest = Lead.newest /\ at.mark = Lead.mark /\ at.told = Lead.told
      /\ at.items = Lead.items
  BY <1>1, <1>2 DEF Locals
<1>5. Goes(Leader, IF r \in vanished THEN [at EXCEPT !.pc = "gone"]
                   ELSE IF list = <<>> THEN [at EXCEPT !.pc = "cursor"]
                   ELSE Scanning(r, list, at))
  BY <1>4 DEF PollMore
<1> HIDE DEF r, at, list
<1> DEFINE Held(to) ==
             /\ to \in Locals /\ to.page = Lead.page + 1 /\ to.repo = r
             /\ to.job = Lead.job /\ to.known = Lead.known /\ to.left = Lead.left
             /\ to.newest = Lead.newest /\ to.mark = Lead.mark /\ to.told = Lead.told
<1>6. ASSUME NEW to, Goes(Leader, to), Sound(Leader, to)
      PROVE  /\ StarredInv' /\ Lead' = to /\ \A b \in Pollers \ {Leader} : poller'[b] = poller[b]
  <2>1. StarredInv'
    BY <1>1, <1>6, OtherTyped, MoveTyped DEF PollMore
  <2> QED
    BY <1>1, <1>6, <2>1, OneMoves DEF Lead
<1>7. CASE r \in vanished \/ (r \notin vanished /\ list = <<>>)
  <2>1. PICK stage \in {"gone", "cursor"} :
          /\ Goes(Leader, [at EXCEPT !.pc = stage])
          /\ \/ stage = "gone" /\ r \in vanished
             \/ stage = "cursor" /\ r \notin vanished /\ list = <<>>
    <3>1. CASE r \in vanished
      BY <1>5, <3>1
    <3>2. CASE r \notin vanished /\ list = <<>>
      BY <1>5, <3>2
    <3> QED
      BY <1>7, <3>1, <3>2
  <2> DEFINE to == [at EXCEPT !.pc = stage]
  <2>2. Held(to) /\ to.pc = stage /\ to.items = at.items
    BY <1>4 DEF Locals
  <2>3. at.items = <<>>
    <3>1. Lead.items = <<>>
      BY <1>1 DEF Sound, Reading
    <3> QED
      BY <1>4, <3>1
  <2>4. Goes(Leader, to)
    BY <2>1
  <2> HIDE DEF to
  <2>5. Sound(Leader, to)
    BY <1>1, <1>2, <2>1, <2>2, <2>3 DEF Sound, Reading, Holding
  <2>6. /\ StarredInv' /\ Lead' = to /\ \A b \in Pollers \ {Leader} : poller'[b] = poller[b]
    BY <1>6, <2>4, <2>5
  <2> QED
    BY <1>1, <1>2, <2>1, <2>2, <2>6 DEF r, list
<1>8. CASE r \notin vanished /\ list # <<>>
  <2>1. PICK to : to = Scanning(r, list, at)
    OBVIOUS
  <2>2. Held(to) /\ to.pc = "scan" /\ to.items = NewIn(list, c) /\ to.more = NotLast(list, c)
    BY <1>1, <1>3, <1>4, <2>1, ScanningFields DEF r
  <2>3. Goes(Leader, to)
    BY <1>5, <1>8, <2>1
  <2>4. Sound(Leader, to)
    BY <1>1, <1>2, <2>2 DEF Sound, Reading, Holding
  <2>5. /\ StarredInv' /\ Lead' = to /\ \A b \in Pollers \ {Leader} : poller'[b] = poller[b]
    BY <1>6, <2>3, <2>4
  <2> QED
    BY <1>1, <1>2, <1>8, <2>2, <2>5 DEF r, list
<1> QED
  BY <1>7, <1>8

(* Steps after which the round is done with the repository in hand.        *)
LEMMA FailsTyped ==
    ASSUME StarredInv, NEW r \in Repos, PollFails(r) \/ RecordReleaseFails
    PROVE  /\ StarredInv' /\ \A b \in Pollers \ {Leader} : poller'[b] = poller[b]
           /\ Lead.job = "poll"
           /\ \/ Lead' = Done(Leader) /\ Lead.pc \in Reading
              \/ Lead' = [Lead EXCEPT !.left = @ \ {r}] /\ Lead.pc = "poll"
<1>1. Leader \in Pollers /\ Sound(Leader, Lead) /\ "mishap" \in Happenings
  BY LeadFields DEF Happenings
<1>2. PICK to : /\ Goes(Leader, to) /\ Sound(Leader, to)
                /\ \/ to = Done(Leader) /\ Lead.pc \in Reading
                   \/ to = [Lead EXCEPT !.left = @ \ {r}] /\ Lead.pc = "poll"
  <2>1. Lead.pc \in Reading => Sound(Leader, Done(Leader))
    BY <1>1, DoneSound DEF Lead, Reading
  <2>2. Lead.pc = "poll" => Sound(Leader, [Lead EXCEPT !.left = @ \ {r}])
    BY <1>1, OneLess DEF Lead
  <2>3. CASE PollFails(r)
    BY <2>1, <2>2, <2>3 DEF PollFails, Reading
  <2>4. CASE RecordReleaseFails
    BY <2>1, <2>4 DEF RecordReleaseFails, Reading
  <2> QED
    BY <2>3, <2>4
<1>3. Lead.job = "poll"
  BY <1>1, <1>2 DEF Sound
<1>4. StarredInv'
  BY <1>1, <1>2, OtherTyped, MoveTyped DEF PollFails, RecordReleaseFails
<1>5. Lead' = to /\ \A b \in Pollers \ {Leader} : poller'[b] = poller[b]
  BY <1>1, <1>2, OneMoves DEF Lead
<1> QED
  BY <1>2, <1>3, <1>4, <1>5

LEMMA RecordTyped ==
    ASSUME StarredInv, RecordRelease
    PROVE  LET r == Lead.repo
           IN  /\ StarredInv' /\ \A b \in Pollers \ {Leader} : poller'[b] = poller[b]
               /\ r \in Repos /\ Lead.job = "poll" /\ Lead.pc = "scan"
               /\ Lead'.job = "poll" /\ Lead'.known = Lead.known /\ Lead'.left = Lead.left
               /\ Lead'.page = Lead.page /\ Lead'.repo = r /\ Lead'.newest = Lead.newest
               /\ Lead'.more = Lead.more /\ Lead'.pc = "evaluate"
               /\ \E i \in DOMAIN Lead.items :
                     /\ IsNext(i) /\ Head(Lead'.items) = Lead.items[i]
                     /\ Lead.items[i] \in ReleaseIds
                     /\ news' = [news EXCEPT ![r][Lead.items[i]] = "recorded"]
                     /\ \A j \in DOMAIN Lead.items : i <= j => Lead.items[j] \in ToSet(Lead'.items)
<1>1. /\ Leader \in Pollers /\ Lead \in Locals /\ Sound(Leader, Lead) /\ Lead.pc = "scan"
      /\ Lead.job = "poll" /\ Lead.repo \in Repos /\ Lead.told < MaxBackfill /\ Lead.newest # 0
  BY LeadFields, StarredAssumption DEF RecordRelease, Sound, Holding, Reading, Locals
<1>2. PICK i \in DOMAIN Lead.items :
         /\ IsNext(i) /\ news' = [news EXCEPT ![Lead.repo][Lead.items[i]] = "recorded"]
         /\ Goes(Leader, [Lead EXCEPT !.pc = "evaluate", !.items = SubSeq(@, i, Len(@))])
  BY DEF RecordRelease
<1> DEFINE rest == SubSeq(Lead.items, i, Len(Lead.items))
<1>3. Lead.items \in PagesOf(ReleaseIds)
  BY <1>1 DEF Locals
<1>4. /\ rest \in PagesOf(ReleaseIds) /\ rest # <<>> /\ Head(rest) = Lead.items[i]
      /\ \A j \in DOMAIN Lead.items : i <= j => Lead.items[j] \in ToSet(rest)
  BY <1>3, ItemsFrom
<1>5. Lead.items[i] \in ReleaseIds
  BY <1>4, HeadTail
<1> HIDE DEF rest
<1> DEFINE to == [Lead EXCEPT !.pc = "evaluate", !.items = rest]
<1>6. /\ to \in Locals /\ to.pc = "evaluate" /\ to.items = rest /\ to.page = Lead.page
      /\ to.repo = Lead.repo /\ to.job = Lead.job /\ to.known = Lead.known /\ to.left = Lead.left
      /\ to.newest = Lead.newest /\ to.mark = Lead.mark /\ to.told = Lead.told /\ to.more = Lead.more
  BY <1>1, <1>4 DEF Locals
<1>7. Goes(Leader, to)
  BY <1>2 DEF rest
<1> HIDE DEF to
<1>8. Sound(Leader, to)
  BY <1>1, <1>4, <1>6 DEF Sound, Reading, Holding
<1>9. news' \in [Repos -> [ReleaseIds -> {"none", "recorded", "told"}]]
  BY <1>1, <1>2, <1>5 DEF StarredInv, StarredTypeOK
<1>10. StarredInv'
  BY <1>1, <1>7, <1>8, <1>9, OtherTyped, MoveTyped DEF RecordRelease
<1>11. Lead' = to /\ \A b \in Pollers \ {Leader} : poller'[b] = poller[b]
  BY <1>1, <1>7, <1>8, OneMoves DEF Lead
<1> QED
  BY <1>1, <1>2, <1>4, <1>5, <1>6, <1>10, <1>11

LEMMA EvaluateTyped ==
    ASSUME StarredInv, EvaluateRelease
    PROVE  LET r == Lead.repo
               x == Head(Lead.items)
           IN  /\ StarredInv' /\ \A b \in Pollers \ {Leader} : poller'[b] = poller[b]
               /\ r \in Repos /\ Lead.job = "poll" /\ Lead.items # <<>> /\ x \in ReleaseIds
               /\ Lead.pc = "evaluate"
               /\ Lead'.job = "poll" /\ Lead'.known = Lead.known /\ Lead'.left = Lead.left
               /\ Lead'.page = Lead.page /\ Lead'.more = Lead.more
               /\ \/ Lead'.pc = "poll" /\ Lead'.repo = NoRepo
                  \/ /\ Lead'.pc = "scan" /\ Lead'.repo = r /\ Lead'.newest = Lead.newest
                     /\ \A i \in DOMAIN Lead.items : i # 1 => Lead.items[i] \in ToSet(Lead'.items)
                     /\ Lead.items[1] = x
               /\ \/ news' = [news EXCEPT ![r][x] = "told"] /\ UNCHANGED excused
                  \/ excused' = excused \cup {<<r, x>>} /\ UNCHANGED news
<1> DEFINE r == Lead.repo
           x == Head(Lead.items)
           n == Lead.told + 1
<1>1. /\ Leader \in Pollers /\ Lead \in Locals /\ Sound(Leader, Lead) /\ Lead.pc = "evaluate"
      /\ Lead.job = "poll" /\ r \in Repos /\ Lead.told < MaxBackfill /\ Lead.newest # 0
      /\ Lead.items # <<>>
  BY LeadFields, StarredAssumption DEF EvaluateRelease, Sound, Holding, Reading, Locals
<1>2. Lead.items \in PagesOf(ReleaseIds)
  BY <1>1 DEF Locals
<1>3. /\ x \in ReleaseIds /\ x = Lead.items[1] /\ Tail(Lead.items) \in PagesOf(ReleaseIds)
      /\ \A i \in DOMAIN Lead.items : i # 1 => Lead.items[i] \in ToSet(Tail(Lead.items))
  BY <1>1, <1>2, HeadTail
<1>4. n \in 0 .. MaxBackfill
  BY <1>1, StarredAssumption DEF Locals
<1>5. Goes(Leader, Told(Leader))
  BY DEF EvaluateRelease
<1> HIDE DEF n
<1>6. PICK to : /\ Goes(Leader, to) /\ Sound(Leader, to)
                /\ to.job = "poll" /\ to.known = Lead.known /\ to.left = Lead.left
                /\ to.page = Lead.page /\ to.more = Lead.more
                /\ \/ to.pc = "poll" /\ to.repo = NoRepo
                   \/ /\ to.pc = "scan" /\ to.repo = r /\ to.newest = Lead.newest
                      /\ to.items = Tail(Lead.items)
  <2>1. CASE n = MaxBackfill
    <3> DEFINE to == [Done(Leader) EXCEPT !.told = n]
    <3>1. Goes(Leader, to)
      BY <1>5, <2>1 DEF Told, AtTheLimit, Lead, n
    <3>2. /\ Sound(Leader, Done(Leader)) /\ Done(Leader).pc = "poll" /\ Done(Leader).repo = NoRepo
          /\ Done(Leader).job = "poll" /\ Done(Leader).known = Lead.known
          /\ Done(Leader).left = Lead.left /\ Done(Leader).page = Lead.page
          /\ Done(Leader).more = Lead.more
      BY <1>1, DoneSound DEF Lead
    <3>3. PICK at \in Locals : at = Done(Leader)
      BY <3>2 DEF Sound
    <3>4. /\ to \in Locals /\ to.pc = at.pc /\ to.repo = at.repo /\ to.job = at.job
          /\ to.known = at.known /\ to.left = at.left /\ to.page = at.page /\ to.more = at.more
          /\ to.newest = at.newest /\ to.items = at.items /\ to.mark = at.mark
      BY <1>4, <3>3 DEF Locals
    <3> HIDE DEF to
    <3>5. Sound(Leader, to)
      BY <3>2, <3>3, <3>4 DEF Sound, Reading, Holding
    <3> QED
      BY <3>1, <3>2, <3>3, <3>4, <3>5
  <2>2. CASE n # MaxBackfill
    <3> DEFINE to == [Lead EXCEPT !.pc = "scan", !.items = Tail(@), !.told = n]
    <3>1. Goes(Leader, to)
      BY <1>5, <2>2 DEF Told, Lead, n
    <3>2. /\ to \in Locals /\ to.pc = "scan" /\ to.items = Tail(Lead.items) /\ to.told = n
          /\ to.page = Lead.page /\ to.repo = Lead.repo /\ to.job = Lead.job
          /\ to.known = Lead.known /\ to.left = Lead.left /\ to.newest = Lead.newest
          /\ to.mark = Lead.mark /\ to.more = Lead.more
      BY <1>1, <1>3, <1>4 DEF Locals
    <3> HIDE DEF to
    <3>3. n < MaxBackfill
      BY <1>4, <2>2, StarredAssumption
    <3>4. Sound(Leader, to)
      BY <1>1, <3>2, <3>3 DEF Sound, Reading, Holding
    <3> QED
      BY <1>1, <3>1, <3>2, <3>4
  <2> QED
    BY <2>1, <2>2
<1> HIDE DEF x
<1>7. \/ news' = [news EXCEPT ![r][x] = "told"] /\ UNCHANGED <<budget, excused>>
      \/ Spend("mishap") /\ excused' = excused \cup {<<r, x>>} /\ UNCHANGED news
  BY DEF EvaluateRelease, x
<1>8. "mishap" \in Happenings
  BY DEF Happenings
<1>9. /\ news' \in [Repos -> [ReleaseIds -> {"none", "recorded", "told"}]]
      /\ budget' \in [Happenings -> Nat] /\ excused' \subseteq Repos \X ReleaseIds
  <2>1. CASE news' = [news EXCEPT ![r][x] = "told"] /\ UNCHANGED <<budget, excused>>
    <3>1. news' \in [Repos -> [ReleaseIds -> {"none", "recorded", "told"}]]
      BY <1>1, <1>3, <2>1 DEF StarredInv, StarredTypeOK
    <3> QED
      BY <2>1, <3>1, OtherTyped
  <2>2. CASE Spend("mishap") /\ excused' = excused \cup {<<r, x>>} /\ UNCHANGED news
    BY <1>1, <1>3, <1>8, <2>2, OtherTyped
  <2> QED
    BY <1>7, <2>1, <2>2
<1>10. StarredInv'
  BY <1>1, <1>6, <1>9, OtherTyped, MoveTyped DEF EvaluateRelease
<1>11. Lead' = to /\ \A b \in Pollers \ {Leader} : poller'[b] = poller[b]
  BY <1>1, <1>6, OneMoves DEF Lead
<1> QED
  BY <1>1, <1>3, <1>6, <1>7, <1>10, <1>11 DEF x

LEMMA ScannedTyped ==
    ASSUME StarredInv, Scanned
    PROVE  /\ StarredInv' /\ \A b \in Pollers \ {Leader} : poller'[b] = poller[b]
           /\ Lead.repo \in Repos /\ Lead.job = "poll" /\ Lead.pc = "scan"
           /\ Lead'.job = "poll" /\ Lead'.known = Lead.known /\ Lead'.left = Lead.left
           /\ Lead'.page = Lead.page /\ Lead'.more = Lead.more /\ Lead'.repo = Lead.repo
           /\ Lead'.newest = Lead.newest
           /\ Lead'.pc = IF Lead.more THEN "list" ELSE "cursor"
<1>1. /\ Leader \in Pollers /\ Lead \in Locals /\ Sound(Leader, Lead) /\ Lead.pc = "scan"
      /\ Lead.job = "poll" /\ Lead.repo \in Repos /\ Lead.told < MaxBackfill /\ Lead.newest # 0
  BY LeadFields, StarredAssumption DEF Scanned, Sound, Holding, Reading, Locals
<1>2. PICK stage \in {"list", "cursor"} : stage = IF Lead.more THEN "list" ELSE "cursor"
  OBVIOUS
<1> DEFINE to == [Lead EXCEPT !.pc = stage, !.items = <<>>]
<1>3. /\ to \in Locals /\ to.pc = stage /\ to.items = <<>> /\ to.page = Lead.page
      /\ to.repo = Lead.repo /\ to.job = Lead.job /\ to.known = Lead.known /\ to.left = Lead.left
      /\ to.newest = Lead.newest /\ to.mark = Lead.mark /\ to.told = Lead.told /\ to.more = Lead.more
  BY <1>1, EmptyPage DEF Locals
<1>4. Goes(Leader, to)
  BY <1>2 DEF Scanned
<1> HIDE DEF to
<1>5. Sound(Leader, to)
  BY <1>1, <1>3 DEF Sound, Reading, Holding
<1>6. StarredInv'
  BY <1>1, <1>4, <1>5, OtherTyped, MoveTyped DEF Scanned
<1>7. Lead' = to /\ \A b \in Pollers \ {Leader} : poller'[b] = poller[b]
  BY <1>1, <1>4, <1>5, OneMoves DEF Lead
<1> QED
  BY <1>1, <1>2, <1>3, <1>6, <1>7

LEMMA PollDoneTyped ==
    ASSUME StarredInv, PollDone
    PROVE  StarredInv' /\ Lead' = AtRest /\ \A b \in Pollers \ {Leader} : poller'[b] = poller[b]
<1>1. Sound(Leader, AtRest) /\ Goes(Leader, AtRest) /\ Leader \in Pollers
  BY RestFields, LeadFields DEF PollDone
<1>2. StarredInv'
  BY <1>1, OtherTyped, MoveTyped DEF PollDone
<1> QED
  BY <1>1, <1>2, OneMoves DEF Lead

-----------------------------------------------------------------------------
(* The steps, those of GitHub and the user, of what rounds have in common, *)
(* of a synchronisation and of a poll.                                     *)
UserStep ==
    \/ \E r \in Repos, x \in ReleaseIds : Publish(r, x) \/ Withdraw(r, x)
    \/ \E r \in Repos : Vanish(r) \/ Reappear(r) \/ Star(r)
    \/ \E r \in Repos, s \in {"disabled", "tracking"} : SetState(r, s)

WriteStep ==
    \E a \in Pollers :
       MarkGone(a) \/ MarkEmpty(a) \/ SetCursor(a) \/ Revive(a) \/ WriteFails(a) \/ RoundEnds(a)

SyncStep ==
    \/ \E a \in Pollers, counted, token \in BOOLEAN : SyncBegin(a, counted, token)
    \/ \E a \in Pollers :
          \/ ListStars(a) \/ Probe(a) \/ ProbeFails(a) \/ PageDone(a) \/ SyncDone(a)
          \/ \E r \in Repos :
                Register(a, r) \/ Recheck(a, r) \/ PassOver(a, r) \/ Disable(a, r)

PollStep ==
    \/ PollBegin \/ PollMore \/ PollDone
    \/ \E r \in Repos : Poll(r) \/ PollFails(r)
    \/ RecordRelease \/ RecordReleaseFails \/ EvaluateRelease \/ Scanned

LEMMA StarredSteps ==
    ASSUME StarredNext
    PROVE  UserStep \/ (\E r \in Repos : Unstar(r)) \/ WriteStep \/ SyncStep \/ PollStep
  BY DEF StarredNext, UserStep, WriteStep, SyncStep, PollStep

(* What GitHub and the user do leaves the pollers alone, but for an unstar. *)
(* What GitHub has and what the user has decided no poller touches.        *)
LEMMA PollersOnlyRead ==
    ASSUME WriteStep \/ SyncStep \/ PollStep
    PROVE  /\ stars' = stars /\ releases' = releases /\ vanished' = vanished
           /\ choice' = choice /\ raced' = raced
<1> SUFFICES UNCHANGED <<github, decided>>
  BY DEF github, decided
<1>1. CASE WriteStep
  <2>1. PICK a \in Pollers :
           MarkGone(a) \/ MarkEmpty(a) \/ SetCursor(a) \/ Revive(a) \/ WriteFails(a) \/ RoundEnds(a)
    BY <1>1 DEF WriteStep
  <2>2. MarkGone(a) \/ MarkEmpty(a) => UNCHANGED <<github, decided>>
    BY DEF MarkGone, MarkEmpty, Aside
  <2>3. SetCursor(a) \/ Revive(a) => UNCHANGED <<github, decided>>
    BY DEF SetCursor, Revive, Aside
  <2>4. WriteFails(a) \/ RoundEnds(a) => UNCHANGED <<github, decided>>
    BY DEF WriteFails, RoundEnds, Aside
  <2> QED
    BY <2>1, <2>2, <2>3, <2>4
<1>2. CASE SyncStep
  <2>1. ASSUME NEW a \in Pollers, NEW counted \in BOOLEAN, NEW token \in BOOLEAN, SyncBegin(a, counted, token)
        PROVE  UNCHANGED <<github, decided>>
    BY <2>1 DEF SyncBegin
  <2>2. ASSUME NEW a \in Pollers, ListStars(a) \/ PageDone(a) \/ SyncDone(a)
        PROVE  UNCHANGED <<github, decided>>
    BY <2>2 DEF ListStars, PageDone, SyncDone, Aside
  <2>3. ASSUME NEW a \in Pollers, Probe(a) \/ ProbeFails(a)
        PROVE  UNCHANGED <<github, decided>>
    BY <2>3 DEF Probe, ProbeFails, Aside
  <2>4. ASSUME NEW a \in Pollers, NEW r \in Repos, Register(a, r) \/ Recheck(a, r)
        PROVE  UNCHANGED <<github, decided>>
    BY <2>4 DEF Register, Recheck, Aside
  <2>5. ASSUME NEW a \in Pollers, NEW r \in Repos, PassOver(a, r) \/ Disable(a, r)
        PROVE  UNCHANGED <<github, decided>>
    BY <2>5 DEF PassOver, Disable, Aside
  <2> QED
    BY <1>2, <2>1, <2>2, <2>3, <2>4, <2>5 DEF SyncStep
<1>3. CASE PollStep
  <2>1. PollBegin \/ PollMore \/ PollDone => UNCHANGED <<github, decided>>
    BY DEF PollBegin, PollMore, PollDone, Aside
  <2>2. ASSUME NEW r \in Repos, Poll(r) \/ PollFails(r) PROVE UNCHANGED <<github, decided>>
    BY <2>2 DEF Poll, PollFails, Aside
  <2>3. RecordRelease \/ RecordReleaseFails => UNCHANGED <<github, decided>>
    BY DEF RecordRelease, RecordReleaseFails, Aside
  <2>4. EvaluateRelease \/ Scanned => UNCHANGED <<github, decided>>
    BY DEF EvaluateRelease, Scanned, Aside
  <2> QED
    BY <1>3, <2>1, <2>2, <2>3, <2>4 DEF PollStep
<1> QED
  BY <1>1, <1>2, <1>3

LEMMA UserTyped ==
    ASSUME StarredInv, UserStep
    PROVE  StarredInv' /\ poller' = poller
<1>1. ASSUME NEW r \in Repos, NEW x \in ReleaseIds, Publish(r, x) \/ Withdraw(r, x)
      PROVE  StarredInv' /\ poller' = poller
  BY <1>1, GitHubTyped
<1>2. ASSUME NEW r \in Repos, Vanish(r) \/ Reappear(r) \/ Star(r)
      PROVE  StarredInv' /\ poller' = poller
  BY <1>2, GitHubTyped
<1>3. ASSUME NEW r \in Repos, NEW s \in {"disabled", "tracking"}, SetState(r, s)
      PROVE  StarredInv' /\ poller' = poller
  BY <1>3, GitHubTyped
<1> QED
  BY <1>1, <1>2, <1>3 DEF UserStep

LEMMA Stutters ==
    ASSUME UNCHANGED starredVars
    PROVE  UNCHANGED <<stars, releases, vanished, trackerOf, news, poller, budget, choice, raced, excused>>
  BY DEF starredVars, github, decided

(* RecordReleaseFails names no repository, its typing does.                *)
LEMMA PollStepTyped ==
    ASSUME StarredInv, Paired, PollStep
    PROVE  StarredInv'
<1>1. CASE RecordReleaseFails
  <2>1. Leader \in Pollers /\ Sound(Leader, Lead) /\ Lead.pc = "scan" /\ Lead \in Locals
    BY <1>1, LeadFields DEF RecordReleaseFails
  <2>2. Lead.repo \in Repos
    BY <2>1, StarredAssumption DEF Sound, Holding, Reading, Locals
  <2> QED
    BY <1>1, <2>2, FailsTyped
<1> QED
  BY <1>1, PollBeginTyped, PollMoreTyped, PollDoneTyped, PollTyped, FailsTyped,
     RecordTyped, EvaluateTyped, ScannedTyped DEF PollStep

LEMMA SyncStepTyped ==
    ASSUME StarredInv, SyncStep
    PROVE  StarredInv'
<1>1. ASSUME NEW a \in Pollers, NEW counted \in BOOLEAN, NEW token \in BOOLEAN, SyncBegin(a, counted, token)
      PROVE  StarredInv'
  BY <1>1, SyncBeginTyped
<1>2. ASSUME NEW a \in Pollers, ListStars(a) \/ Probe(a) \/ ProbeFails(a) \/ PageDone(a) \/ SyncDone(a)
      PROVE  StarredInv'
  BY <1>2, ListStarsTyped, ProbeTyped, DoneTyped, PageDoneTyped, SyncDoneTyped
<1>3. ASSUME NEW a \in Pollers, NEW r \in Repos, Register(a, r) \/ Recheck(a, r) \/ PassOver(a, r) \/ Disable(a, r)
      PROVE  StarredInv'
  BY <1>3, RegisterTyped, RecheckTyped, PassOverTyped
<1> QED
  BY <1>1, <1>2, <1>3 DEF SyncStep

LEMMA StarredStep ==
    ASSUME StarredInv, Paired, [StarredNext]_starredVars
    PROVE  StarredInv'
<1>1. CASE UNCHANGED starredVars
  BY <1>1, Stutters DEF StarredInv, StarredTypeOK, Sound
<1>2. CASE StarredNext
  <2>1. UserStep => StarredInv'
    BY UserTyped
  <2>2. \A r \in Repos : Unstar(r) => StarredInv'
    BY UnstarTyped
  <2>3. WriteStep => StarredInv'
    BY WritesTyped DEF WriteStep
  <2> QED
    BY <1>2, <2>1, <2>2, <2>3, StarredSteps, SyncStepTyped, PollStepTyped
<1> QED
  BY <1>1, <1>2

(* What every row and every row a poller has loaded keeps.                 *)
LEMMA KnownAfter ==
    ASSUME StarredInv, Paired, StarredNext
    PROVE  \A a \in Pollers :
              \/ poller'[a].known = poller[a].known
              \/ poller'[a].known = trackerOf
              \/ poller'[a] = AtRest
              \/ \E r \in Repos : Register(a, r) /\ poller'[a].known = [poller[a].known EXCEPT ![r] = NewRow]
<1> SUFFICES ASSUME NEW b \in Pollers
             PROVE  \/ poller'[b].known = poller[b].known
                    \/ poller'[b].known = trackerOf
                    \/ poller'[b] = AtRest
                    \/ \E r \in Repos : Register(b, r) /\ poller'[b].known = [poller[b].known EXCEPT ![r] = NewRow]
  OBVIOUS
<1>1. CASE UserStep
  BY <1>1, UserTyped
<1>2. CASE \E r \in Repos : Unstar(r)
  BY <1>2, UnstarTyped
<1>3. CASE WriteStep
  <2>0. PICK a \in Pollers :
           MarkGone(a) \/ MarkEmpty(a) \/ SetCursor(a) \/ Revive(a) \/ WriteFails(a) \/ RoundEnds(a)
    BY <1>3 DEF WriteStep
  <2>1. PICK to : /\ Goes(a, to) /\ poller[a].pc # "idle"
                  /\ to \in {Done(a), At(a, "cursor"), At(a, "revive"), AtRest}
    BY <2>0 DEF MarkGone, MarkEmpty, SetCursor, Revive, WriteFails, RoundEnds, AfterGone
  <2>2. poller' = [poller EXCEPT ![a] = to] /\ poller \in [Pollers -> Locals]
    BY <2>1 DEF Goes, StarredInv, StarredTypeOK
  <2>3. Done(a).known = poller[a].known
    BY <2>1, DoneSound
  <2>4. At(a, "cursor").known = poller[a].known /\ At(a, "revive").known = poller[a].known
    <3>1. poller[a] \in Locals
      BY <2>2
    <3> QED
      BY <3>1 DEF At, Locals
  <2>6. poller'[b] = IF b = a THEN to ELSE poller[b]
    BY <2>2
  <2> QED
    BY <2>1, <2>3, <2>4, <2>6
<1>4. CASE SyncStep
  <2>1. ASSUME NEW a \in Pollers, NEW counted \in BOOLEAN, NEW token \in BOOLEAN, SyncBegin(a, counted, token)
        PROVE  poller'[b].known \in {poller[b].known, trackerOf}
    BY <2>1, SyncBeginTyped
  <2>2. ASSUME NEW a \in Pollers, Probe(a) \/ PageDone(a)
        PROVE  poller'[b].known = poller[b].known
    BY <2>2, ProbeTyped, PageDoneTyped
  <2>3. ASSUME NEW a \in Pollers, ListStars(a) \/ SyncDone(a)
        PROVE  poller'[b].known = poller[b].known \/ poller'[b] = AtRest
    BY <2>3, ListStarsTyped, SyncDoneTyped
  <2>4. ASSUME NEW a \in Pollers, ProbeFails(a)
        PROVE  poller'[b].known = poller[b].known
    <3>1. poller'[a] = Done(a) /\ \A c \in Pollers \ {a} : poller'[c] = poller[c]
      BY <2>4, DoneTyped
    <3>2. Done(a).known = poller[a].known
      BY <2>4, DoneSound DEF ProbeFails
    <3> QED
      BY <3>1, <3>2
  <2>5. ASSUME NEW a \in Pollers, NEW r \in Repos, PassOver(a, r) \/ Disable(a, r)
        PROVE  poller'[b].known = poller[b].known
    <3>1. /\ poller'[a] = [poller[a] EXCEPT !.left = @ \ {r}]
          /\ \A c \in Pollers \ {a} : poller'[c] = poller[c]
      BY <2>5, PassOverTyped
    <3>2. [poller[a] EXCEPT !.left = @ \ {r}].known = poller[a].known
      BY <2>5, OneLess DEF PassOver, Disable
    <3> QED
      BY <3>1, <3>2
  <2>6. ASSUME NEW a \in Pollers, NEW r \in Repos, Recheck(a, r)
        PROVE  poller'[b].known = poller[b].known
    BY <2>6, RecheckTyped
  <2>7. ASSUME NEW a \in Pollers, NEW r \in Repos, Register(a, r)
        PROVE  \/ poller'[b].known = poller[b].known
               \/ Register(b, r) /\ poller'[b].known = [poller[b].known EXCEPT ![r] = NewRow]
    <3>1. /\ poller'[a].known = [poller[a].known EXCEPT ![r] = NewRow]
          /\ \A c \in Pollers \ {a} : poller'[c] = poller[c]
      BY <2>7, RegisterTyped
    <3> QED
      BY <2>7, <3>1
  <2> QED
    BY <1>4, <2>1, <2>2, <2>3, <2>4, <2>5, <2>6, <2>7 DEF SyncStep
<1>5. CASE PollStep
  <2>1. /\ \A c \in Pollers \ {Leader} : poller'[c] = poller[c]
        /\ Lead' = AtRest \/ Lead'.known \in {Lead.known, trackerOf}
    <3>1. CASE PollBegin \/ PollDone
      BY <3>1, PollBeginTyped, PollDoneTyped
    <3>2. CASE PollMore \/ RecordRelease \/ EvaluateRelease \/ Scanned
      BY <3>2, PollMoreTyped, RecordTyped, EvaluateTyped, ScannedTyped
    <3>3. ASSUME NEW r \in Repos, Poll(r)
          PROVE  /\ \A c \in Pollers \ {Leader} : poller'[c] = poller[c]
                 /\ Lead'.known = Lead.known
      BY <3>3, PollTyped
    <3>4. ASSUME NEW r \in Repos, PollFails(r) \/ RecordReleaseFails
          PROVE  /\ \A c \in Pollers \ {Leader} : poller'[c] = poller[c]
                 /\ Lead'.known = Lead.known
      <4>1. /\ \A c \in Pollers \ {Leader} : poller'[c] = poller[c]
            /\ \/ Lead' = Done(Leader) /\ Lead.pc \in Reading
               \/ Lead' = [Lead EXCEPT !.left = @ \ {r}] /\ Lead.pc = "poll"
        BY <3>4, FailsTyped
      <4>2. Lead.pc \in Reading => Done(Leader).known = Lead.known
        BY LeadFields, DoneSound DEF Reading, Lead
      <4>3. Lead.pc = "poll" => [Lead EXCEPT !.left = @ \ {r}].known = Lead.known
        BY LeadFields, OneLess DEF Lead
      <4> QED
        BY <4>1, <4>2, <4>3
    <3>5. RecordReleaseFails => Lead.repo \in Repos
      BY LeadFields, StarredAssumption DEF RecordReleaseFails, Sound, Holding, Reading, Locals
    <3> QED
      BY <1>5, <3>1, <3>2, <3>3, <3>4, <3>5 DEF PollStep
  <2> QED
    BY <2>1 DEF Lead
<1> QED
  BY <1>1, <1>2, <1>3, <1>4, <1>5, StarredSteps

-----------------------------------------------------------------------------
(* What a step does to the cursor and the ETag of a row.                   *)
RowAfter(r) ==
    \/ trackerOf'[r].cursor = trackerOf[r].cursor /\ trackerOf'[r].etag = trackerOf[r].etag
    \/ \E a \in Pollers : Register(a, r) /\ trackerOf'[r] = NewRow
    \/ \E a \in Pollers :
          /\ SetCursor(a) /\ poller[a].repo = r
          /\ trackerOf'[r].cursor = poller[a].newest /\ trackerOf'[r].etag = poller[a].mark

LEMMA RowsAfter ==
    ASSUME StarredInv, StarredNext, NEW r \in Repos
    PROVE  RowAfter(r)
<1>1. ASSUME NEW q \in Repos, NEW s \in {"tracking", "inactive", "unavailable", "disabled"},
             trackerOf' = [trackerOf EXCEPT ![q].state = s]
      PROVE  RowAfter(r)
  <2>1. /\ trackerOf'[q].cursor = trackerOf[q].cursor /\ trackerOf'[q].etag = trackerOf[q].etag
        /\ \A p \in Repos \ {q} : trackerOf'[p] = trackerOf[p]
    BY <1>1, StateWritten
  <2> QED
    BY <2>1 DEF RowAfter
<1>2. UNCHANGED trackerOf => RowAfter(r)
  BY DEF RowAfter
<1>3. CASE UserStep
  BY <1>1, <1>2, <1>3 DEF UserStep, Publish, Withdraw, Vanish, Reappear, Star, SetState
<1>4. CASE \E q \in Repos : Unstar(q)
  BY <1>2, <1>4 DEF Unstar
<1>5. CASE WriteStep
  <2>1. PICK a \in Pollers :
           MarkGone(a) \/ MarkEmpty(a) \/ SetCursor(a) \/ Revive(a) \/ WriteFails(a) \/ RoundEnds(a)
    BY <1>5 DEF WriteStep
  <2>2. Sound(a, poller[a]) /\ poller[a] \in Locals
    BY PollerFields
  <2>3. poller[a].pc \in {"gone", "empty", "revive", "cursor"} => poller[a].repo \in Repos
    BY <2>2, PollerFields DEF Sound, Holding
  <2>4. CASE SetCursor(a)
    <3>1. poller[a].newest \in ReleaseIds \cup {0} /\ poller[a].mark \in Tags /\ poller[a].repo \in Repos
      <4>1. poller[a].pc = "cursor"
        BY <2>4 DEF SetCursor
      <4> QED
        BY <2>2, <2>3, <4>1 DEF Locals
    <3>2. trackerOf' = [trackerOf EXCEPT ![poller[a].repo].cursor = poller[a].newest,
                                         ![poller[a].repo].etag = poller[a].mark]
      BY <2>4 DEF SetCursor
    <3>3. /\ trackerOf'[poller[a].repo].cursor = poller[a].newest
          /\ trackerOf'[poller[a].repo].etag = poller[a].mark
          /\ \A p \in Repos \ {poller[a].repo} : trackerOf'[p] = trackerOf[p]
      <4>1. PICK q \in Repos, c \in ReleaseIds \cup {0}, tag \in Tags :
              q = poller[a].repo /\ c = poller[a].newest /\ tag = poller[a].mark
        BY <3>1
      <4>2. trackerOf' = [trackerOf EXCEPT ![q].cursor = c, ![q].etag = tag]
        BY <3>2, <4>1
      <4>3. /\ trackerOf'[q].cursor = c /\ trackerOf'[q].etag = tag
            /\ \A p \in Repos \ {q} : trackerOf'[p] = trackerOf[p]
        <5> DEFINE row == [trackerOf[q] EXCEPT !.cursor = c, !.etag = tag]
        <5>1. trackerOf \in [Repos -> Trackers] /\ trackerOf[q] \in Trackers
          BY DEF StarredInv, StarredTypeOK
        <5>2. row \in Trackers /\ row.cursor = c /\ row.etag = tag
          BY <5>1 DEF Trackers
        <5>3. trackerOf' = [trackerOf EXCEPT ![q] = row]
          BY <4>2, <5>1
        <5> HIDE DEF row
        <5> QED
          BY <5>2, <5>3, RowWritten
      <4> QED
        BY <4>1, <4>3
    <3>4. CASE r = poller[a].repo
      BY <2>4, <3>3, <3>4 DEF RowAfter
    <3>5. CASE r # poller[a].repo
      BY <3>3, <3>5 DEF RowAfter
    <3> QED
      BY <3>4, <3>5
  <2>5. CASE MarkGone(a) \/ MarkEmpty(a) \/ Revive(a)
    BY <1>1, <2>3, <2>5 DEF MarkGone, MarkEmpty, Revive
  <2>6. CASE WriteFails(a) \/ RoundEnds(a)
    BY <1>2, <2>6 DEF WriteFails, RoundEnds
  <2> QED
    BY <2>1, <2>4, <2>5, <2>6
<1>6. CASE SyncStep
  <2>1. ASSUME NEW a \in Pollers, NEW q \in Repos, Register(a, q)
        PROVE  RowAfter(r)
    <3>1. trackerOf' = [trackerOf EXCEPT ![q] = NewRow]
      BY <2>1, RegisterTyped
    <3>2. trackerOf'[q] = NewRow /\ \A p \in Repos \ {q} : trackerOf'[p] = trackerOf[p]
      BY <3>1, NewRowFields, RowWritten
    <3> QED
      BY <2>1, <3>2 DEF RowAfter
  <2>2. ASSUME NEW a \in Pollers, NEW q \in Repos, Recheck(a, q) \/ PassOver(a, q) \/ Disable(a, q)
        PROVE  RowAfter(r)
    BY <1>1, <1>2, <2>2 DEF Recheck, PassOver, Disable
  <2>3. ASSUME NEW a \in Pollers, ListStars(a) \/ Probe(a) \/ ProbeFails(a) \/ PageDone(a) \/ SyncDone(a)
        PROVE  RowAfter(r)
    BY <1>2, <2>3 DEF ListStars, Probe, ProbeFails, PageDone, SyncDone
  <2>4. ASSUME NEW a \in Pollers, NEW counted \in BOOLEAN, NEW token \in BOOLEAN,
               SyncBegin(a, counted, token)
        PROVE  RowAfter(r)
    BY <1>2, <2>4 DEF SyncBegin
  <2> QED
    BY <1>6, <2>1, <2>2, <2>3, <2>4 DEF SyncStep
<1>7. CASE PollStep
  BY <1>2, <1>7 DEF PollStep, PollBegin, PollMore, PollDone, Poll, PollFails, RecordRelease,
                    RecordReleaseFails, EvaluateRelease, Scanned
<1> QED
  BY <1>3, <1>4, <1>5, <1>6, <1>7, StarredSteps

LEMMA NoRowPair ==
    RowPair(NoRow) /\ RowPair(NewRow)
<1>1. NoTag # <<>> /\ Head(NoTag) = 0
  BY DEF NoTag
<1>2. NoRow.etag = NoTag /\ NoRow.cursor = 0
  BY DEF NoRow
<1> QED
  BY <1>1, <1>2, NewRowFields DEF RowPair

LEMMA PairedStep ==
    ASSUME StarredInv, Paired, [StarredNext]_starredVars
    PROVE  Paired'
<1>1. CASE UNCHANGED starredVars
  BY <1>1, Stutters DEF Paired
<1>2. CASE StarredNext
  <2>1. ASSUME NEW r \in Repos PROVE RowPair(trackerOf'[r])
    <3>1. RowPair(trackerOf[r])
      BY DEF Paired
    <3>2. ASSUME NEW a \in Pollers, SetCursor(a)
          PROVE  poller[a].mark # <<>> /\ Head(poller[a].mark) = poller[a].newest
      BY <3>2, PollerFields DEF SetCursor, Sound
    <3> QED
      BY <1>2, <3>1, <3>2, RowsAfter, NoRowPair DEF RowAfter, RowPair
  <2>2. ASSUME NEW a \in Pollers, NEW r \in Repos PROVE RowPair(poller'[a].known[r])
    <3>1. RowPair(poller[a].known[r]) /\ RowPair(trackerOf[r]) /\ poller[a].known \in [Repos -> Trackers]
      BY PollerFields DEF Paired, Locals
    <3>2. \/ poller'[a].known = poller[a].known
          \/ poller'[a].known = trackerOf
          \/ poller'[a] = AtRest
          \/ \E q \in Repos : poller'[a].known = [poller[a].known EXCEPT ![q] = NewRow]
      BY <1>2, KnownAfter
    <3>3. poller'[a].known[r] \in {poller[a].known[r], trackerOf[r], NoRow, NewRow}
      BY <3>1, <3>2, RestFields
    <3> QED
      BY <3>1, <3>3, NoRowPair
  <2> QED
    BY <2>1, <2>2 DEF Paired
<1> QED
  BY <1>1, <1>2

LEMMA TrackedFields ==
    ASSUME NEW list \in ListsOf(ReleaseIds)
    PROVE  /\ Tracked(list) \in Trackers /\ RowPair(Tracked(list))
           /\ Tracked(list).state \in {"inactive", "tracking"}
           /\ Tracked(list).cursor = IF list = <<>> THEN 0 ELSE Head(list)
<1>1. CASE list = <<>>
  <2>1. Tracked(list) = [NoRow EXCEPT !.state = "inactive"]
    BY <1>1 DEF Tracked
  <2>2. NoTag # <<>> /\ Head(NoTag) = 0
    BY DEF NoTag
  <2>3. /\ Tracked(list) \in Trackers /\ Tracked(list).state = "inactive"
        /\ Tracked(list).cursor = 0 /\ Tracked(list).etag = NoTag
    BY <2>1, EmptyPage DEF NoRow, Trackers
  <2> QED
    BY <1>1, <2>2, <2>3 DEF RowPair
<1>2. CASE list # <<>>
  <2> DEFINE page1 == Cut(list, 1, ReleasePage)
  <2>1. page1 \in Tags /\ page1 # <<>> /\ Head(page1) = Head(list) /\ Head(list) \in ReleaseIds
    BY <1>2, FrontPage
  <2>2. Tracked(list) = [state |-> "tracking", cursor |-> Head(list), etag |-> page1]
    BY <1>2 DEF Tracked
  <2> HIDE DEF page1
  <2>3. /\ Tracked(list) \in Trackers /\ Tracked(list).state = "tracking"
        /\ Tracked(list).cursor = Head(list) /\ Tracked(list).etag = page1
    BY <2>1, <2>2 DEF Trackers
  <2> QED
    BY <1>2, <2>1, <2>3 DEF RowPair
<1> QED
  BY <1>1, <1>2

LEMMA StarredBase ==
    ASSUME StarredInit
    PROVE  StarredInv /\ Paired
<1>1. PICK s \in StarScenarios :
         /\ stars = s.stars /\ releases = s.releases /\ budget = s.budget
         /\ trackerOf = [r \in Repos |->
                IF r \in s.tracked THEN Tracked(s.past[r]) ELSE NoRow]
         /\ excused = UNION {{r} \X ToSet(s.past[r]) : r \in Repos}
  BY DEF StarredInit
<1>2. ScenarioOK(s)
  BY StarredAssumption
<1>3. /\ stars \in ListsOf(Repos) /\ releases \in [Repos -> ListsOf(ReleaseIds)]
      /\ budget \in [Happenings -> Nat] /\ s.past \in [Repos -> ListsOf(ReleaseIds)]
  BY <1>1, <1>2 DEF ScenarioOK
<1>4. ASSUME NEW r \in Repos PROVE trackerOf[r] \in Trackers /\ RowPair(trackerOf[r])
  BY <1>1, <1>3, TrackedFields, EmptyPage, NoRowPair
<1>5. trackerOf \in [Repos -> Trackers]
  BY <1>1, <1>4
<1>6. excused \subseteq Repos \X ReleaseIds
  <2>1. \A r \in Repos : {r} \X ToSet(s.past[r]) \subseteq Repos \X ReleaseIds
    <3>1. \A r \in Repos : ToSet(s.past[r]) \subseteq ReleaseIds
      BY <1>3, ListFields
    <3> QED
      BY <3>1
  <2> DEFINE f(r) == {r} \X ToSet(s.past[r])
  <2>2. excused = UNION {f(r) : r \in Repos}
    BY <1>1
  <2> HIDE DEF f
  <2>3. \A r \in Repos : f(r) \subseteq Repos \X ReleaseIds
    BY <2>1 DEF f
  <2> QED
    BY <2>2, <2>3
<1>7. /\ vanished = {} /\ choice = [r \in Repos |-> "on"] /\ raced = {}
      /\ news = [r \in Repos |-> [x \in ReleaseIds |-> "none"]]
      /\ poller = [a \in Pollers |-> AtRest]
  BY DEF StarredInit
<1>8. poller \in [Pollers -> Locals] /\ \A a \in Pollers : Sound(a, poller[a])
  BY <1>7, RestFields DEF Sound
<1>9. StarredInv
  BY <1>3, <1>5, <1>6, <1>7, <1>8 DEF StarredInv, StarredTypeOK
<1>10. \A a \in Pollers : \A r \in Repos : RowPair(poller[a].known[r])
  BY <1>7, RestFields, NoRowPair
<1> QED
  BY <1>4, <1>9, <1>10 DEF Paired

(* The polling of releases keeps its types: a poller holds a repository    *)
(* exactly in the steps that work on one, what it is about to write is a   *)
(* cursor with the ETag of its page, and the limit of a round holds        *)
(* (SyncStarsNow, PollReleases).                                           *)
THEOREM StarredTypeCorrect == StarredSpec => []StarredTypeOK
<1>1. StarredInit => StarredInv /\ Paired
  BY StarredBase
<1>2. StarredInv /\ Paired /\ [StarredNext]_starredVars => (StarredInv /\ Paired)'
  BY StarredStep, PairedStep
<1>3. StarredInv => StarredTypeOK
  BY DEF StarredInv
<1> QED
  BY <1>1, <1>2, <1>3, PTL DEF StarredSpec

LEMMA StarredAlways == StarredSpec => [](StarredInv /\ Paired)
<1>1. StarredInit => StarredInv /\ Paired
  BY StarredBase
<1>2. StarredInv /\ Paired /\ [StarredNext]_starredVars => (StarredInv /\ Paired)'
  BY StarredStep, PairedStep
<1> QED
  BY <1>1, <1>2, PTL DEF StarredSpec

-----------------------------------------------------------------------------
(* What a step that neither begins nor ends a round, lists stars, finds a  *)
(* page done nor takes a star does to a poller.                            *)
Keeps(a) ==
    /\ poller'[a].job = poller[a].job
    /\ poller'[a].pc # "idle" => poller[a].pc # "idle"
    /\ poller[a].job = "sync" =>
          /\ poller'[a].seen = poller[a].seen /\ poller'[a].absent = poller[a].absent
          /\ poller'[a].page = poller[a].page /\ poller'[a].more = poller[a].more
          /\ poller'[a].pc # "stars" => poller[a].pc # "stars"
          /\ poller'[a].pc = "remove" => poller[a].pc = "remove"
    /\ poller'[a].left \subseteq poller[a].left
    /\ \/ poller'[a].repo \in {poller[a].repo, NoRepo}
       \/ /\ poller'[a].repo \in poller[a].left /\ poller[a].pc # "idle"
          /\ poller[a].job = "poll" \/ poller[a].known[poller'[a].repo].state \in {"none", "inactive"}

RoundAfter(a) ==
    \/ poller'[a] = AtRest
    \/ \E counted, token \in BOOLEAN : SyncBegin(a, counted, token)
    \/ a = Leader /\ PollBegin
    \/ ListStars(a) \/ PageDone(a)
    \/ \E r \in Repos : Unstar(r)
    \/ Keeps(a)

LEMMA ReadsOne ==
    ASSUME StarredInv, Lead.pc \in Reading
    PROVE  Lead.repo \in Repos
<1>1. Lead \in Locals /\ Sound(Leader, Lead)
  BY LeadFields
<1>2. Lead.repo # NoRepo
  BY <1>1 DEF Sound, Holding
<1> QED
  BY <1>1, <1>2 DEF Locals

LEMMA SameKeeps ==
    ASSUME NEW a \in Pollers, poller'[a] = poller[a]
    PROVE  Keeps(a)
  BY DEF Keeps

LEMMA DoneKeeps ==
    ASSUME StarredInv, NEW a \in Pollers, poller[a].pc # "idle", poller'[a] = Done(a),
           poller[a].pc # "stars"
    PROVE  Keeps(a)
  BY DoneSound DEF Keeps

LEMMA RoundWriteAfter ==
    ASSUME StarredInv, WriteStep, NEW b \in Pollers
    PROVE  RoundAfter(b)
<1>1. PICK a \in Pollers :
         MarkGone(a) \/ MarkEmpty(a) \/ SetCursor(a) \/ Revive(a) \/ WriteFails(a) \/ RoundEnds(a)
  BY DEF WriteStep
<1>2. /\ poller[a] \in Locals /\ Sound(a, poller[a]) /\ poller \in [Pollers -> Locals]
  BY PollerFields DEF StarredInv, StarredTypeOK
<1>3. PICK to : /\ Goes(a, to) /\ poller[a].pc # "idle"
                /\ \/ to = AtRest
                   \/ to = Done(a) /\ poller[a].pc # "stars"
                   \/ to = At(a, "cursor") /\ poller[a].pc = "gone" /\ poller[a].newest # 0
                   \/ to = At(a, "revive") /\ poller[a].pc = "cursor" /\ poller[a].job = "sync"
  BY <1>1 DEF MarkGone, MarkEmpty, SetCursor, Revive, WriteFails, RoundEnds, AfterGone
<1>4. poller'[a] = to /\ \A c \in Pollers \ {a} : poller'[c] = poller[c]
  BY <1>2, <1>3 DEF Goes
<1>5. CASE b # a
  BY <1>4, <1>5, SameKeeps DEF RoundAfter
<1>6. CASE b = a
  <2>1. CASE to = AtRest
    BY <1>4, <1>6, <2>1 DEF RoundAfter
  <2>2. CASE to = Done(a) /\ poller[a].pc # "stars"
    BY <1>3, <1>4, <1>6, <2>2, DoneKeeps DEF RoundAfter
  <2>3. CASE to = At(a, "cursor") /\ poller[a].pc = "gone" /\ poller[a].newest # 0
    BY <1>4, <1>6, <2>3, AtSound DEF RoundAfter, Keeps
  <2>4. CASE to = At(a, "revive") /\ poller[a].pc = "cursor" /\ poller[a].job = "sync"
    BY <1>4, <1>6, <2>4, AtSound DEF RoundAfter, Keeps
  <2> QED
    BY <1>3, <2>1, <2>2, <2>3, <2>4
<1> QED
  BY <1>5, <1>6

LEMMA RoundSyncAfter ==
    ASSUME StarredInv, SyncStep, NEW b \in Pollers
    PROVE  RoundAfter(b)
<1>1. ASSUME NEW a \in Pollers, NEW counted \in BOOLEAN, NEW token \in BOOLEAN, SyncBegin(a, counted, token)
      PROVE  RoundAfter(b)
  <2>1. b # a => poller'[b] = poller[b]
    BY <1>1, SyncBeginTyped
  <2> QED
    BY <1>1, <2>1, SameKeeps DEF RoundAfter
<1>2. ASSUME NEW a \in Pollers, ListStars(a)
      PROVE  RoundAfter(b)
  <2>1. b # a => poller'[b] = poller[b]
    BY <1>2, ListStarsTyped
  <2> QED
    BY <1>2, <2>1, SameKeeps DEF RoundAfter
<1>3. ASSUME NEW a \in Pollers, PageDone(a)
      PROVE  RoundAfter(b)
  <2>1. b # a => poller'[b] = poller[b]
    BY <1>3, PageDoneTyped
  <2> QED
    BY <1>3, <2>1, SameKeeps DEF RoundAfter
<1>4. ASSUME NEW a \in Pollers, Probe(a)
      PROVE  RoundAfter(b)
  <2>1. CASE b # a
    BY <1>4, <2>1, ProbeTyped, SameKeeps DEF RoundAfter
  <2>2. CASE b = a
    <3>1. /\ poller'[a].known = poller[a].known /\ poller'[a].job = "sync"
          /\ poller'[a].left = poller[a].left /\ poller'[a].seen = poller[a].seen
          /\ poller'[a].absent = poller[a].absent /\ poller'[a].page = poller[a].page
          /\ poller'[a].more = poller[a].more /\ poller'[a].repo = poller[a].repo
          /\ poller'[a].pc \in {"gone", "empty", "cursor"}
      BY <1>4, ProbeTyped
    <3>2. poller[a].pc = "probe" /\ poller[a].job = "sync"
      BY <1>4, PollerFields DEF Probe, Sound
    <3> QED
      BY <2>2, <3>1, <3>2 DEF RoundAfter, Keeps
  <2> QED
    BY <2>1, <2>2
<1>5. ASSUME NEW a \in Pollers, ProbeFails(a) \/ SyncDone(a)
      PROVE  RoundAfter(b)
  <2>1. CASE ProbeFails(a)
    <3>1. poller'[a] = Done(a) /\ \A c \in Pollers \ {a} : poller'[c] = poller[c]
      BY <2>1, DoneTyped
    <3>2. Keeps(a)
      BY <2>1, <3>1, DoneKeeps DEF ProbeFails
    <3> QED
      BY <3>1, <3>2, SameKeeps DEF RoundAfter
  <2>2. CASE SyncDone(a)
    BY <2>2, SyncDoneTyped, SameKeeps DEF RoundAfter
  <2> QED
    BY <1>5, <2>1, <2>2
<1>6. ASSUME NEW a \in Pollers, NEW r \in Repos, PassOver(a, r) \/ Disable(a, r)
      PROVE  RoundAfter(b)
  <2>1. /\ poller'[a] = [poller[a] EXCEPT !.left = @ \ {r}]
        /\ \A c \in Pollers \ {a} : poller'[c] = poller[c]
    BY <1>6, PassOverTyped
  <2>2. Keeps(a)
    <3>1. poller[a].pc \in {"register", "remove"}
      BY <1>6 DEF PassOver, Disable
    <3>2. /\ poller'[a].pc = poller[a].pc /\ poller'[a].left = poller[a].left \ {r}
          /\ poller'[a].job = poller[a].job /\ poller'[a].known = poller[a].known
          /\ poller'[a].seen = poller[a].seen /\ poller'[a].absent = poller[a].absent
          /\ poller'[a].page = poller[a].page /\ poller'[a].more = poller[a].more
          /\ poller'[a].repo = poller[a].repo
      BY <2>1, <3>1, OneLess
    <3> QED
      BY <3>1, <3>2 DEF Keeps
  <2> QED
    BY <2>1, <2>2, SameKeeps DEF RoundAfter
<1>7. ASSUME NEW a \in Pollers, NEW r \in Repos, Register(a, r) \/ Recheck(a, r)
      PROVE  RoundAfter(b)
  <2>1. /\ \A c \in Pollers \ {a} : poller'[c] = poller[c]
        /\ poller'[a].job = "sync" /\ poller'[a].pc \in {"probe", "register"}
        /\ poller'[a].left = poller[a].left \ {r} /\ poller'[a].seen = poller[a].seen
        /\ poller'[a].absent = poller[a].absent /\ poller'[a].page = poller[a].page
        /\ poller'[a].more = poller[a].more /\ poller'[a].repo \in {r, NoRepo}
    <3>1. CASE Register(a, r)
      <4>1. poller'[a].repo = IF poller'[a].pc = "probe" THEN r ELSE NoRepo
        BY <3>1, RegisterTyped
      <4>2. poller'[a].repo \in {r, NoRepo}
        BY <4>1
      <4> QED
        BY <3>1, <4>2, RegisterTyped
    <3>2. CASE Recheck(a, r)
      BY <3>2, RecheckTyped
    <3> QED
      BY <1>7, <3>1, <3>2
  <2>2. /\ poller[a].pc = "register" /\ r \in poller[a].left
        /\ poller[a].known[r].state \in {"none", "inactive"}
    BY <1>7 DEF Register, Recheck
  <2>3. poller[a].job = "sync"
    BY <2>2, PollerFields DEF Sound
  <2>4. Keeps(a)
    BY <2>1, <2>2, <2>3 DEF Keeps
  <2> QED
    BY <2>1, <2>4, SameKeeps DEF RoundAfter
<1> QED
  BY <1>1, <1>2, <1>3, <1>4, <1>5, <1>6, <1>7 DEF SyncStep

LEMMA RoundPollAfter ==
    ASSUME StarredInv, Paired, PollStep, NEW b \in Pollers
    PROVE  RoundAfter(b)
<1>1. Leader \in Pollers /\ Sound(Leader, Lead) /\ Lead \in Locals
  BY LeadFields
<1>2. Lead.job = "poll" => Lead.pc # "idle"
  BY <1>1 DEF Sound, AtRest
<1>3. CASE b # Leader
  <2>1. poller'[b] = poller[b]
    <3>1. CASE PollBegin \/ PollDone \/ PollMore \/ RecordRelease \/ EvaluateRelease \/ Scanned
      BY <1>3, <3>1, PollBeginTyped, PollDoneTyped, PollMoreTyped, RecordTyped, EvaluateTyped, ScannedTyped
    <3>2. ASSUME NEW r \in Repos, Poll(r) PROVE poller'[b] = poller[b]
      BY <1>3, <3>2, PollTyped
    <3>3. ASSUME NEW r \in Repos, PollFails(r) \/ RecordReleaseFails PROVE poller'[b] = poller[b]
      BY <1>3, <3>3, FailsTyped
    <3>4. RecordReleaseFails => Lead.repo \in Repos
      BY ReadsOne DEF RecordReleaseFails, Reading
    <3> QED
      BY <3>1, <3>2, <3>3, <3>4 DEF PollStep
  <2> QED
    BY <2>1, SameKeeps DEF RoundAfter
<1>4. CASE b = Leader
  <2>1. CASE PollBegin \/ PollDone
    BY <1>4, <2>1, PollDoneTyped DEF RoundAfter, Lead
  <2>2. CASE PollMore \/ RecordRelease \/ EvaluateRelease \/ Scanned
    <3>1. /\ Lead.job = "poll" /\ Lead'.job = "poll" /\ Lead'.left = Lead.left
          /\ Lead'.repo \in {Lead.repo, NoRepo}
      BY <2>2, PollMoreTyped, RecordTyped, EvaluateTyped, ScannedTyped
    <3> QED
      BY <1>2, <1>4, <3>1 DEF RoundAfter, Keeps, Lead
  <2>3. ASSUME NEW r \in Repos, Poll(r) PROVE RoundAfter(b)
    <3>1. /\ Lead.job = "poll" /\ Lead'.job = "poll" /\ Lead'.left = Lead.left \ {r}
          /\ Lead'.repo = r
      BY <2>3, PollTyped
    <3>2. r \in Lead.left
      BY <2>3 DEF Poll
    <3> QED
      BY <1>2, <1>4, <3>1, <3>2 DEF RoundAfter, Keeps, Lead
  <2>4. ASSUME NEW r \in Repos, PollFails(r) \/ RecordReleaseFails PROVE RoundAfter(b)
    <3>1. /\ Lead.job = "poll"
          /\ \/ Lead' = Done(Leader) /\ Lead.pc \in Reading
             \/ Lead' = [Lead EXCEPT !.left = @ \ {r}] /\ Lead.pc = "poll"
      BY <2>4, FailsTyped
    <3>2. CASE Lead' = Done(Leader) /\ Lead.pc \in Reading
      <4>1. Keeps(Leader)
        BY <1>1, <1>2, <3>1, <3>2, DoneKeeps DEF Lead, Reading
      <4> QED
        BY <1>4, <4>1 DEF RoundAfter
    <3>3. CASE Lead' = [Lead EXCEPT !.left = @ \ {r}] /\ Lead.pc = "poll"
      <4>1. /\ Lead'.job = Lead.job /\ Lead'.left = Lead.left \ {r} /\ Lead'.repo = Lead.repo
        BY <1>1, <3>3, OneLess DEF Lead
      <4> QED
        BY <1>2, <1>4, <3>1, <4>1 DEF RoundAfter, Keeps, Lead
    <3> QED
      BY <3>1, <3>2, <3>3
  <2>5. RecordReleaseFails => Lead.repo \in Repos
    BY ReadsOne DEF RecordReleaseFails, Reading
  <2> QED
    BY <2>1, <2>2, <2>3, <2>4, <2>5 DEF PollStep
<1> QED
  BY <1>3, <1>4

LEMMA RoundsAfter ==
    ASSUME StarredInv, Paired, StarredNext, NEW a \in Pollers
    PROVE  RoundAfter(a)
<1>1. UserStep => RoundAfter(a)
  BY UserTyped, SameKeeps DEF RoundAfter
<1>2. (\E r \in Repos : Unstar(r)) => RoundAfter(a)
  BY DEF RoundAfter
<1> QED
  BY <1>1, <1>2, StarredSteps, RoundWriteAfter, RoundSyncAfter, RoundPollAfter

-----------------------------------------------------------------------------
(* What a synchronisation has not come across stands further down the list *)
(* of stars; once it has the whole list it has come across everything, and *)
(* what it is about to disable was missing from it.                        *)
Missing(a) == poller[a].seen \cup poller[a].absent
Beyond(list, r, n) == \E i \in DOMAIN list : list[i] = r /\ i > n
Listing(a) ==
    poller[a].job = "sync" =>
       /\ \A r \in Repos \ Missing(a) : Beyond(stars, r, poller[a].page * StarPage)
       /\ poller[a].pc # "stars" /\ ~poller[a].more => Repos \subseteq Missing(a)
       /\ poller[a].pc = "remove" => poller[a].left \subseteq poller[a].absent

LEMMA StarsAfter ==
    ASSUME StarredNext
    PROVE  stars' = stars \/ \E r \in Repos : Star(r) \/ Unstar(r)
<1>1. UserStep => stars' = stars \/ \E r \in Repos : Star(r)
  BY DEF UserStep, Publish, Withdraw, Vanish, Reappear, SetState, github
<1> QED
  BY <1>1, PollersOnlyRead, StarredSteps

LEMMA StarsFields ==
    ASSUME StarredInv
    PROVE  /\ stars \in ListsOf(Repos) /\ stars \in Seq(Repos) /\ Len(stars) \in Nat
           /\ DOMAIN stars = 1 .. Len(stars) /\ ToSet(stars) \subseteq Repos
           /\ \A i, j \in DOMAIN stars : stars[i] = stars[j] => i = j
<1>1. stars \in ListsOf(Repos)
  BY DEF StarredInv, StarredTypeOK
<1> QED
  BY <1>1, ListFields

LEMMA FurtherStays ==
    ASSUME StarredInv, NEW n \in Nat, NEW r, Beyond(stars, r, n),
           stars' = stars \/ \E q \in Repos : Star(q)
    PROVE  Beyond(stars', r, n)
<1>1. PICK i \in DOMAIN stars : stars[i] = r /\ i > n
  BY DEF Beyond
<1>2. CASE stars' = stars
  BY <1>1, <1>2 DEF Beyond
<1>3. ASSUME NEW q \in Repos, Star(q) PROVE Beyond(stars', r, n)
  <2>1. q \notin ToSet(stars) /\ stars' = <<q>> \o stars
    BY <1>3 DEF Star
  <2>2. /\ DOMAIN stars' = 1 .. Len(stars) + 1
        /\ \A j \in DOMAIN stars : stars'[j + 1] = stars[j]
    <3>1. PICK list \in ListsOf(Repos) : list = stars
      BY StarsFields
    <3>2. q \notin ToSet(list)
      BY <2>1, <3>1
    <3>3. /\ DOMAIN (<<q>> \o list) = 1 .. Len(list) + 1
          /\ \A j \in DOMAIN list : (<<q>> \o list)[j + 1] = list[j]
      BY <3>2, WithOneInFront
    <3> QED
      BY <2>1, <3>1, <3>3
  <2>3. i \in 1 .. Len(stars) /\ Len(stars) \in Nat
    BY <1>1, StarsFields
  <2>4. i + 1 \in 1 .. Len(stars) + 1 /\ i + 1 > n
    BY <1>1, <2>3
  <2> QED
    BY <1>1, <2>2, <2>4 DEF Beyond
<1> QED
  BY <1>2, <1>3

(* An unstar: what stands in front of it stays where it is.                *)
LEMMA ListingUnstar ==
    ASSUME StarredInv, NEW r \in Repos, Unstar(r), NEW a \in Pollers, Listing(a)
    PROVE  Listing(a)'
<1> SUFFICES ASSUME poller'[a].job = "sync"
             PROVE  /\ \A q \in Repos \ Missing(a)' : Beyond(stars', q, poller[a].page * StarPage)
                    /\ poller[a].pc # "stars" /\ ~poller[a].more => Repos \subseteq Missing(a)'
                    /\ poller[a].pc = "remove" => poller[a].left \subseteq poller'[a].absent
  BY UnstarTyped DEF Listing
<1>1. /\ poller[a].job = "sync" /\ poller'[a].seen = poller[a].seen
      /\ poller'[a].absent = poller[a].absent \cup {r} \cup (Behind(stars, r) \ poller[a].seen)
  BY UnstarTyped
<1>2. Missing(a) \subseteq Missing(a)'
  BY <1>1 DEF Missing
<1>3. ASSUME NEW q \in Repos \ Missing(a)' PROVE Beyond(stars', q, poller[a].page * StarPage)
  <2>1. PICK at : at = poller[a].page * StarPage
    OBVIOUS
  <2>2. q \notin Missing(a) /\ q # r /\ q \notin Behind(stars, r)
    BY <1>1, <1>3 DEF Missing
  <2>3. PICK j \in DOMAIN stars : stars[j] = q /\ j > at
    BY <1>1, <2>1, <2>2 DEF Listing, Beyond
  <2>4. PICK i \in DOMAIN stars : stars[i] = r /\ stars' = RemoveAt(stars, i)
    BY DEF Unstar
  <2>5. /\ DOMAIN stars' = 1 .. Len(stars) - 1
        /\ \A k \in DOMAIN stars' : stars'[k] = IF k < i THEN stars[k] ELSE stars[k + 1]
    BY <2>4, StarsFields, WithoutOne
  <2>6. i \in 1 .. Len(stars) /\ j \in 1 .. Len(stars) /\ Len(stars) \in Nat /\ DOMAIN stars = 1 .. Len(stars)
    BY StarsFields
  <2>7. ~(i < j)
    <3>1. i < j => i \in 1 .. (j - 1)
      BY <2>6
    <3>2. i < j => q \in Behind(stars, r)
      BY <2>3, <2>4, <3>1 DEF Behind
    <3> QED
      BY <2>2, <3>2
  <2>8. j # i
    BY <2>2, <2>3, <2>4
  <2>9. j < i /\ j \in 1 .. Len(stars) - 1
    BY <2>6, <2>7, <2>8
  <2>10. stars'[j] = q /\ j \in DOMAIN stars'
    BY <2>3, <2>5, <2>9
  <2> QED
    BY <2>3, <2>10, <2>1 DEF Beyond
<1> QED
  BY <1>1, <1>2, <1>3 DEF Listing

LEMMA ListingBegins ==
    ASSUME StarredInv, NEW a \in Pollers, NEW counted \in BOOLEAN, NEW token \in BOOLEAN,
           SyncBegin(a, counted, token)
    PROVE  Listing(a)'
<1>1. /\ poller'[a].pc = "stars" /\ poller'[a].absent = Repos \ ToSet(stars) /\ poller'[a].page = 0
  BY SyncBeginTyped
<1>2. stars' = stars
  BY DEF SyncBegin, github
<1>3. ASSUME NEW r \in Repos \ Missing(a)' PROVE Beyond(stars', r, poller'[a].page * StarPage)
  <2>1. r \in ToSet(stars)
    BY <1>1, <1>3 DEF Missing
  <2>2. PICK i \in DOMAIN stars : stars[i] = r
    BY <2>1 DEF ToSet
  <2>3. poller'[a].page * StarPage = 0
    BY <1>1, StarredAssumption
  <2>4. i > 0
    BY <2>2, StarsFields
  <2> QED
    BY <1>2, <2>2, <2>3, <2>4 DEF Beyond
<1> QED
  BY <1>1, <1>3 DEF Listing

LEMMA ListingGoesOn ==
    ASSUME StarredInv, NEW a \in Pollers, ListStars(a), Listing(a)
    PROVE  Listing(a)'
<1>1. CASE poller'[a] = AtRest
  BY <1>1, RestFields DEF Listing
<1>2. CASE poller'[a] # AtRest
  <2> DEFINE got == ToSet(Cut(stars, poller[a].page + 1, StarPage))
             n == poller[a].page * StarPage
             m == (poller[a].page + 1) * StarPage
  <2>1. /\ poller'[a].pc = "register" /\ poller'[a].page = poller[a].page + 1
        /\ poller'[a].seen = poller[a].seen \cup got /\ poller'[a].absent = poller[a].absent
        /\ poller'[a].more = (Len(stars) > m)
    BY <1>2, ListStarsTyped
  <2>2. /\ poller[a].job = "sync" /\ poller[a].page \in Nat /\ stars' = stars
    BY PollerFields DEF ListStars, Sound, Locals, Aside, github
  <2>3. /\ StarPage \in Nat \ {0} /\ n \in Nat /\ m = n + StarPage
    BY <2>2, PageStart, StarredAssumption
  <2>4. OnePage(stars, Cut(stars, poller[a].page + 1, StarPage), n, StarPage)
    <3>1. PICK start \in Nat : start = n
      BY <2>3
    <3>2. PICK nth : nth = poller[a].page + 1
      OBVIOUS
    <3>3. nth * StarPage = start + StarPage
      BY <2>3, <3>1, <3>2
    <3>4. OnePage(stars, Cut(stars, nth, StarPage), start, StarPage)
      BY <2>3, <3>3, StarsFields, CutFields
    <3> QED
      BY <3>1, <3>2, <3>4
  <2>5. ASSUME NEW r \in Repos \ Missing(a)' PROVE \E i \in DOMAIN stars : stars[i] = r /\ i > m
    <3> DEFINE cut == Cut(stars, poller[a].page + 1, StarPage)
    <3>1. r \notin Missing(a) /\ r \notin got
      BY <2>1, <2>5 DEF Missing
    <3>2. PICK i \in DOMAIN stars : stars[i] = r /\ i > n
      BY <2>2, <3>1 DEF Listing, Beyond
    <3> HIDE DEF n, m
    <3>3. i \in Nat
      BY <3>2, StarsFields
    <3>4. i <= n + StarPage => i - n \in DOMAIN cut /\ cut[i - n] = r
      BY <2>3, <2>4, <3>2, <3>3 DEF OnePage
    <3>5. ~(i <= n + StarPage)
      BY <3>1, <3>4 DEF ToSet
    <3> QED
      BY <2>3, <3>2, <3>3, <3>5
  <2> HIDE DEF got, n, m
  <2>6. ~poller'[a].more => Repos \subseteq Missing(a)'
    <3> SUFFICES ASSUME ~poller'[a].more, NEW r \in Repos, r \notin Missing(a)' PROVE FALSE
      OBVIOUS
    <3>1. PICK i \in DOMAIN stars : stars[i] = r /\ i > m
      BY <2>5
    <3>2. i <= Len(stars) /\ i \in Nat /\ Len(stars) \in Nat /\ m \in Nat
      BY <2>3, StarsFields
    <3>3. Len(stars) > m
      BY <3>1, <3>2
    <3> QED
      BY <2>1, <3>3
  <2>7. \A r \in Repos \ Missing(a)' : Beyond(stars', r, poller'[a].page * StarPage)
    BY <2>1, <2>2, <2>5 DEF Beyond, m
  <2> QED
    BY <2>1, <2>6, <2>7 DEF Listing
<1> QED
  BY <1>1, <1>2

LEMMA ListingDone ==
    ASSUME StarredInv, NEW a \in Pollers, PageDone(a), Listing(a)
    PROVE  Listing(a)'
<1>1. /\ poller'[a].seen = poller[a].seen /\ poller'[a].absent = poller[a].absent
      /\ poller'[a].page = poller[a].page /\ poller'[a].more = poller[a].more
      /\ IF poller[a].more THEN poller'[a].pc = "stars"
         ELSE poller'[a].pc = "remove" /\ poller'[a].left = Candidates \ poller[a].seen
  BY PageDoneTyped
<1>2. poller[a].job = "sync" /\ poller[a].pc = "register" /\ stars' = stars
  BY PollerFields DEF PageDone, Sound, Aside, github
<1>3. Missing(a)' = Missing(a)
  BY <1>1 DEF Missing
<1>4. Candidates \subseteq Repos
  BY DEF Candidates
<1>5. \A r \in Repos \ Missing(a) : Beyond(stars', r, poller[a].page * StarPage)
  BY <1>2 DEF Listing, Beyond
<1>6. ~poller[a].more => Repos \subseteq Missing(a)
  BY <1>2 DEF Listing
<1> QED
  BY <1>1, <1>3, <1>4, <1>5, <1>6 DEF Listing, Missing

LEMMA ListingKept ==
    ASSUME StarredInv, NEW a \in Pollers, Keeps(a), Listing(a),
           stars' = stars \/ \E q \in Repos : Star(q)
    PROVE  Listing(a)'
<1> SUFFICES ASSUME poller'[a].job = "sync"
             PROVE  /\ \A q \in Repos \ Missing(a)' : Beyond(stars', q, poller'[a].page * StarPage)
                    /\ poller'[a].pc # "stars" /\ ~poller'[a].more => Repos \subseteq Missing(a)'
                    /\ poller'[a].pc = "remove" => poller'[a].left \subseteq poller'[a].absent
  BY DEF Listing
<1>1. /\ poller[a].job = "sync" /\ poller'[a].seen = poller[a].seen
      /\ poller'[a].absent = poller[a].absent /\ poller'[a].page = poller[a].page
      /\ poller'[a].more = poller[a].more /\ poller'[a].left \subseteq poller[a].left
      /\ poller'[a].pc # "stars" => poller[a].pc # "stars"
      /\ poller'[a].pc = "remove" => poller[a].pc = "remove"
  BY DEF Keeps
<1>2. Missing(a)' = Missing(a)
  BY <1>1 DEF Missing
<1>3. PICK n \in Nat : n = poller[a].page * StarPage
  <2>1. poller[a].page \in Nat
    BY PollerFields DEF Locals
  <2> QED
    BY <2>1, PageStart, StarredAssumption
<1>4. ASSUME NEW q \in Repos \ Missing(a) PROVE Beyond(stars', q, poller'[a].page * StarPage)
  <2>1. Beyond(stars, q, n)
    BY <1>1, <1>3 DEF Listing
  <2>2. Beyond(stars', q, n)
    BY <2>1, FurtherStays
  <2> QED
    BY <1>1, <1>3, <2>2
<1> QED
  BY <1>1, <1>2, <1>4 DEF Listing

LEMMA ListingStep ==
    ASSUME StarredInv, Paired, NEW a \in Pollers, Listing(a), [StarredNext]_starredVars
    PROVE  Listing(a)'
<1>1. CASE UNCHANGED starredVars
  BY <1>1, Stutters DEF Listing, Missing, Beyond
<1>2. CASE StarredNext
  <2>1. CASE \E r \in Repos : Unstar(r)
    BY <2>1, ListingUnstar
  <2>2. CASE ~\E r \in Repos : Unstar(r)
    <3>1. stars' = stars \/ \E q \in Repos : Star(q)
      BY <1>2, <2>2, StarsAfter
    <3>2. poller'[a] = AtRest => Listing(a)'
      BY RestFields DEF Listing
    <3>3. a = Leader /\ PollBegin => Listing(a)'
      BY PollBeginTyped DEF Listing, Lead
    <3> QED
      BY <1>2, <2>2, <3>1, <3>2, <3>3, RoundsAfter, ListingBegins, ListingGoesOn, ListingDone, ListingKept
         DEF RoundAfter
  <2> QED
    BY <2>1, <2>2
<1> QED
  BY <1>1, <1>2

-----------------------------------------------------------------------------
(* What a step does to the state of a row.                                 *)
StateAfter(r) ==
    \/ trackerOf'[r].state = trackerOf[r].state
    \/ \E s \in {"disabled", "tracking"} : SetState(r, s) /\ trackerOf'[r].state = s
    \/ \E a \in Pollers : poller[a].repo = r /\ poller[a].pc # "idle" /\ trackerOf'[r].state # "disabled"
    \/ \E a \in Pollers : Register(a, r) /\ trackerOf'[r].state = "tracking"
    \/ \E a \in Pollers : Disable(a, r) /\ trackerOf'[r].state = "disabled"

LEMMA StatesAfter ==
    ASSUME StarredInv, StarredNext, NEW r \in Repos
    PROVE  StateAfter(r)
<1>1. UNCHANGED trackerOf => StateAfter(r)
  BY DEF StateAfter
<1>2. ASSUME NEW q \in Repos, NEW s \in {"tracking", "inactive", "unavailable", "disabled"},
             trackerOf' = [trackerOf EXCEPT ![q].state = s], q # r
      PROVE  StateAfter(r)
  <2>1. \A p \in Repos \ {q} : trackerOf'[p] = trackerOf[p]
    BY <1>2, StateWritten
  <2> QED
    BY <1>2, <2>1 DEF StateAfter
<1>3. ASSUME NEW s \in {"tracking", "inactive", "unavailable", "disabled"},
             trackerOf' = [trackerOf EXCEPT ![r].state = s]
      PROVE  trackerOf'[r].state = s
  BY <1>3, StateWritten
<1>4. CASE UserStep
  <2>1. ASSUME NEW q \in Repos, NEW s \in {"disabled", "tracking"}, SetState(q, s)
        PROVE  StateAfter(r)
    <3>1. trackerOf' = [trackerOf EXCEPT ![q].state = s]
      BY <2>1 DEF SetState
    <3>2. s \in {"tracking", "inactive", "unavailable", "disabled"}
      OBVIOUS
    <3>3. CASE q # r
      BY <1>2, <3>1, <3>2, <3>3
    <3>4. CASE q = r
      BY <1>3, <2>1, <3>1, <3>2, <3>4 DEF StateAfter
    <3> QED
      BY <3>3, <3>4
  <2>2. CASE ~\E q \in Repos, s \in {"disabled", "tracking"} : SetState(q, s)
    BY <1>1, <1>4, <2>2 DEF UserStep, Publish, Withdraw, Vanish, Reappear, Star
  <2> QED
    BY <2>1, <2>2
<1>5. CASE \E q \in Repos : Unstar(q)
  BY <1>1, <1>5 DEF Unstar
<1>6. CASE WriteStep
  <2>1. PICK a \in Pollers :
           MarkGone(a) \/ MarkEmpty(a) \/ SetCursor(a) \/ Revive(a) \/ WriteFails(a) \/ RoundEnds(a)
    BY <1>6 DEF WriteStep
  <2>2. CASE WriteFails(a) \/ RoundEnds(a)
    BY <1>1, <2>2 DEF WriteFails, RoundEnds
  <2>3. CASE MarkGone(a) \/ MarkEmpty(a) \/ SetCursor(a) \/ Revive(a)
    <3>1. poller[a].pc \in {"gone", "empty", "cursor", "revive"}
      BY <2>3 DEF MarkGone, MarkEmpty, SetCursor, Revive
    <3>2. /\ poller[a] \in Locals /\ Sound(a, poller[a])
      BY PollerFields
    <3>3. PICK q \in Repos : q = poller[a].repo
      BY <3>1, <3>2, PollerFields DEF Sound, Holding
    <3>4. CASE SetCursor(a)
      <4>1. /\ \A p \in Repos \ {q} : trackerOf'[p] = trackerOf[p]
            /\ trackerOf'[q].state = trackerOf[q].state
        <5>1. PICK c \in ReleaseIds \cup {0}, tag \in Tags : c = poller[a].newest /\ tag = poller[a].mark
          BY <3>2 DEF Locals
        <5>2. trackerOf' = [trackerOf EXCEPT ![q].cursor = c, ![q].etag = tag]
          BY <3>3, <3>4, <5>1 DEF SetCursor
        <5> DEFINE row == [trackerOf[q] EXCEPT !.cursor = c, !.etag = tag]
        <5>3. trackerOf \in [Repos -> Trackers] /\ trackerOf[q] \in Trackers
          BY DEF StarredInv, StarredTypeOK
        <5>4. row \in Trackers /\ row.state = trackerOf[q].state
          BY <5>3 DEF Trackers
        <5>5. trackerOf' = [trackerOf EXCEPT ![q] = row]
          BY <5>2, <5>3
        <5> HIDE DEF row
        <5> QED
          BY <5>4, <5>5, RowWritten
      <4> QED
        BY <4>1 DEF StateAfter
    <3>5. CASE MarkGone(a) \/ MarkEmpty(a) \/ Revive(a)
      <4>1. PICK s \in {"tracking", "inactive", "unavailable"} : trackerOf' = [trackerOf EXCEPT ![q].state = s]
        BY <3>3, <3>5 DEF MarkGone, MarkEmpty, Revive
      <4>2. s \in {"tracking", "inactive", "unavailable", "disabled"} /\ s # "disabled"
        OBVIOUS
      <4>3. CASE q # r
        BY <1>2, <4>1, <4>2, <4>3
      <4>4. CASE q = r
        <5>1. trackerOf'[r].state = s
          BY <1>3, <4>1, <4>2, <4>4
        <5> QED
          BY <3>1, <3>3, <4>2, <4>4, <5>1 DEF StateAfter
      <4> QED
        BY <4>3, <4>4
    <3> QED
      BY <2>3, <3>4, <3>5
  <2> QED
    BY <2>1, <2>2, <2>3
<1>7. CASE SyncStep
  <2>1. ASSUME NEW a \in Pollers, NEW q \in Repos, Register(a, q)
        PROVE  StateAfter(r)
    <3>1. trackerOf' = [trackerOf EXCEPT ![q] = NewRow]
      BY <2>1, RegisterTyped
    <3>2. trackerOf'[q] = NewRow /\ \A p \in Repos \ {q} : trackerOf'[p] = trackerOf[p]
      BY <3>1, NewRowFields, RowWritten
    <3> QED
      BY <2>1, <3>2, NewRowFields DEF StateAfter
  <2>2. ASSUME NEW a \in Pollers, NEW q \in Repos, Disable(a, q)
        PROVE  StateAfter(r)
    <3>1. UNCHANGED trackerOf \/ trackerOf' = [trackerOf EXCEPT ![q].state = "disabled"]
      BY <2>2 DEF Disable
    <3>2. CASE q # r
      BY <1>1, <1>2, <3>1, <3>2
    <3>3. CASE q = r
      BY <1>1, <1>3, <2>2, <3>1, <3>3 DEF StateAfter
    <3> QED
      BY <3>2, <3>3
  <2>3. ASSUME NEW a \in Pollers, NEW q \in Repos, Recheck(a, q) \/ PassOver(a, q)
        PROVE  StateAfter(r)
    BY <1>1, <2>3 DEF Recheck, PassOver
  <2>4. ASSUME NEW a \in Pollers, ListStars(a) \/ Probe(a) \/ ProbeFails(a) \/ PageDone(a) \/ SyncDone(a)
        PROVE  StateAfter(r)
    BY <1>1, <2>4 DEF ListStars, Probe, ProbeFails, PageDone, SyncDone
  <2>5. ASSUME NEW a \in Pollers, NEW counted \in BOOLEAN, NEW token \in BOOLEAN, SyncBegin(a, counted, token)
        PROVE  StateAfter(r)
    BY <1>1, <2>5 DEF SyncBegin
  <2> QED
    BY <1>7, <2>1, <2>2, <2>3, <2>4, <2>5 DEF SyncStep
<1>8. CASE PollStep
  BY <1>1, <1>8 DEF PollStep, PollBegin, PollMore, PollDone, Poll, PollFails, RecordRelease,
                    RecordReleaseFails, EvaluateRelease, Scanned
<1> QED
  BY <1>4, <1>5, <1>6, <1>7, <1>8, StarredSteps

LEMMA DecidedAfter ==
    ASSUME StarredNext
    PROVE  \/ choice' = choice /\ raced' = raced
           \/ \E r \in Repos, s \in {"disabled", "tracking"} : SetState(r, s)
<1>1. UserStep => \/ choice' = choice /\ raced' = raced
                  \/ \E r \in Repos, s \in {"disabled", "tracking"} : SetState(r, s)
  BY DEF UserStep, Publish, Withdraw, Vanish, Reappear, Star, decided
<1>2. (\E r \in Repos : Unstar(r)) => choice' = choice /\ raced' = raced
  BY DEF Unstar, decided
<1> QED
  BY <1>1, <1>2, PollersOnlyRead, StarredSteps

(* A tracker switched off by the user while nothing was under way: no      *)
(* poller has it in hand or will take it up.                               *)
Hands(r) ==
    choice[r] = "off" /\ r \notin raced =>
      /\ trackerOf[r].state = "disabled"
      /\ \A a \in Pollers : poller[a].pc # "idle" =>
           /\ poller[a].known[r].state = "disabled"
           /\ poller[a].job = "poll" => r \notin poller[a].left
           /\ poller[a].repo # r

LEMMA StateKept ==
    ASSUME StarredInv, StarredNext, NEW r \in Repos, Hands(r), choice[r] = "off", r \notin raced,
           trackerOf'[r].state # "disabled"
    PROVE  SetState(r, "tracking")
<1>1. trackerOf[r].state = "disabled"
  BY DEF Hands
<1>2. ~\E a \in Pollers : Register(a, r)
  <2> SUFFICES ASSUME NEW a \in Pollers, Register(a, r) PROVE FALSE
    OBVIOUS
  <2>1. poller[a].pc = "register" /\ poller[a].known[r].state = "none"
    BY DEF Register
  <2> QED
    BY <2>1 DEF Hands
<1>3. ~\E a \in Pollers : poller[a].repo = r /\ poller[a].pc # "idle"
  BY DEF Hands
<1> QED
  BY <1>1, <1>2, <1>3, StatesAfter DEF StateAfter

LEMMA HandsStep ==
    ASSUME StarredInv, Paired, NEW r \in Repos, Hands(r), [StarredNext]_starredVars
    PROVE  Hands(r)'
<1>1. CASE UNCHANGED starredVars
  BY <1>1, Stutters DEF Hands
<1>2. CASE StarredNext
  <2>1. CASE choice' = choice /\ raced' = raced /\ ~\E q \in Repos, s \in {"disabled", "tracking"} : SetState(q, s)
    <3> SUFFICES ASSUME choice[r] = "off", r \notin raced PROVE Hands(r)'
      BY <2>1 DEF Hands
    <3>1. trackerOf[r].state = "disabled" /\ trackerOf'[r].state = "disabled"
      <4>1. "tracking" \in {"disabled", "tracking"}
        OBVIOUS
      <4> QED
        BY <1>2, <2>1, <4>1, StateKept DEF Hands
    <3>2. ASSUME NEW a \in Pollers, poller'[a].pc # "idle"
          PROVE  /\ poller'[a].known[r].state = "disabled"
                 /\ poller'[a].job = "poll" => r \notin poller'[a].left
                 /\ poller'[a].repo # r
      <4> DEFINE Goal == /\ poller'[a].known[r].state = "disabled"
                         /\ poller'[a].job = "poll" => r \notin poller'[a].left
                         /\ poller'[a].repo # r
      <4>0. r # NoRepo /\ AtRest.pc = "idle"
        BY RestFields, StarredAssumption
      <4>1. ASSUME NEW counted \in BOOLEAN, NEW token \in BOOLEAN, SyncBegin(a, counted, token)
            PROVE  Goal
        BY <3>1, <4>0, <4>1, SyncBeginTyped
      <4>2. CASE a = Leader /\ PollBegin
        <5>1. r \notin Candidates
          BY <3>1 DEF Candidates
        <5> QED
          BY <3>1, <4>0, <4>2, <5>1, PollBeginTyped DEF Lead
      <4>3. ASSUME poller[a].pc # "idle"
            PROVE  poller'[a].known[r].state = "disabled"
        <5>1. poller[a].known[r].state = "disabled" /\ poller[a].known \in [Repos -> Trackers]
          BY <4>3, PollerFields DEF Hands, Locals
        <5>2. \/ poller'[a].known[r] \in {poller[a].known[r], trackerOf[r]}
              \/ poller'[a] = AtRest
              \/ \E q \in Repos : Register(a, q) /\ poller'[a].known = [poller[a].known EXCEPT ![q] = NewRow]
          BY <1>2, KnownAfter
        <5>3. poller'[a] # AtRest
          BY <3>2, <4>0
        <5>4. ASSUME NEW q \in Repos, Register(a, q), poller'[a].known = [poller[a].known EXCEPT ![q] = NewRow]
              PROVE  poller'[a].known[r].state = "disabled"
          <6>1. q # r
            BY <5>1, <5>4 DEF Register
          <6> QED
            BY <5>1, <5>4, <6>1
        <5> QED
          BY <3>1, <5>1, <5>2, <5>3, <5>4
      <4>4. ASSUME poller[a].pc # "idle", poller'[a].left \subseteq poller[a].left,
                   poller'[a].job = "poll" => poller[a].job = "poll",
                   \/ poller'[a].repo \in {poller[a].repo, NoRepo}
                   \/ /\ poller'[a].repo \in poller[a].left
                      /\ poller[a].job = "poll" \/ poller[a].known[poller'[a].repo].state \in {"none", "inactive"}
            PROVE  Goal
        <5>1. /\ poller[a].known[r].state = "disabled"
              /\ poller[a].job = "poll" => r \notin poller[a].left
              /\ poller[a].repo # r
          BY <4>4 DEF Hands
        <5>2. poller'[a].known[r].state = "disabled"
          BY <4>3, <4>4
        <5> QED
          BY <4>0, <4>4, <5>1, <5>2
      <4>5. CASE Keeps(a)
        BY <3>2, <4>4, <4>5 DEF Keeps
      <4>6. CASE ListStars(a)
        <5>1. /\ poller'[a].job = "sync" /\ poller'[a].repo = NoRepo /\ poller[a].pc = "stars"
          BY <3>2, <4>0, <4>6, ListStarsTyped DEF ListStars
        <5> QED
          BY <4>0, <4>3, <5>1
      <4>7. CASE PageDone(a)
        <5>1. /\ poller'[a].job = "sync" /\ poller'[a].repo = NoRepo /\ poller[a].pc = "register"
          BY <4>7, PageDoneTyped DEF PageDone
        <5> QED
          BY <4>0, <4>3, <5>1
      <4>8. CASE \E q \in Repos : Unstar(q)
        <5>1. /\ poller'[a].job = poller[a].job /\ poller'[a].left = poller[a].left
              /\ poller'[a].repo = poller[a].repo /\ poller'[a].pc = poller[a].pc
          BY <4>8, UnstarTyped
        <5> QED
          BY <3>2, <4>4, <5>1
      <4> QED
        BY <1>2, <3>2, <4>0, <4>1, <4>2, <4>5, <4>6, <4>7, <4>8, RoundsAfter DEF RoundAfter
    <3> QED
      BY <3>1, <3>2 DEF Hands
  <2>2. ASSUME NEW q \in Repos, NEW s \in {"disabled", "tracking"}, SetState(q, s)
        PROVE  Hands(r)'
    <3>1. /\ trackerOf' = [trackerOf EXCEPT ![q].state = s] /\ poller' = poller
          /\ choice' = [choice EXCEPT ![q] = IF s = "disabled" THEN "off" ELSE "on"]
          /\ raced' = IF s = "disabled" /\ \E a \in Pollers : poller[a].pc # "idle"
                      THEN raced \cup {q} ELSE raced \ {q}
      BY <2>2 DEF SetState
    <3>2. /\ trackerOf'[q].state = s /\ \A p \in Repos \ {q} : trackerOf'[p] = trackerOf[p]
          /\ choice \in [Repos -> {"on", "off"}]
      <4>1. s \in {"tracking", "inactive", "unavailable", "disabled"}
        OBVIOUS
      <4> QED
        BY <3>1, <4>1, StateWritten DEF StarredInv, StarredTypeOK
    <3>3. CASE q # r
      BY <3>1, <3>2, <3>3 DEF Hands
    <3>4. CASE q = r
      <4> SUFFICES ASSUME choice'[r] = "off", r \notin raced' PROVE Hands(r)'
        BY DEF Hands
      <4>1. s = "disabled"
        BY <3>1, <3>2, <3>4
      <4>2. \A a \in Pollers : poller'[a].pc = "idle"
        BY <3>1, <3>4, <4>1
      <4> QED
        BY <3>2, <3>4, <4>1, <4>2 DEF Hands
    <3> QED
      BY <3>3, <3>4
  <2> QED
    BY <1>2, <2>1, <2>2, DecidedAfter
<1> QED
  BY <1>1, <1>2

LEMMA SwitchBase ==
    ASSUME StarredInit
    PROVE  (\A a \in Pollers : Listing(a)) /\ \A r \in Repos : Hands(r)
<1>1. poller = [a \in Pollers |-> AtRest] /\ choice = [r \in Repos |-> "on"]
  BY DEF StarredInit
<1> QED
  BY <1>1, RestFields DEF Listing, Hands

LEMMA SwitchAlways ==
    StarredSpec => []((\A a \in Pollers : Listing(a)) /\ \A r \in Repos : Hands(r))
<1> DEFINE Inv == StarredInv /\ Paired /\ (\A a \in Pollers : Listing(a)) /\ \A r \in Repos : Hands(r)
<1>1. StarredInit => Inv
  BY StarredBase, SwitchBase
<1>2. Inv /\ [StarredNext]_starredVars => Inv'
  <2> SUFFICES ASSUME Inv, [StarredNext]_starredVars PROVE Inv'
    OBVIOUS
  <2>1. \A a \in Pollers : Listing(a)'
    BY ListingStep
  <2>2. \A r \in Repos : Hands(r)'
    BY HandsStep
  <2> QED
    BY <2>1, <2>2, StarredStep, PairedStep
<1>3. Inv => (\A a \in Pollers : Listing(a)) /\ \A r \in Repos : Hands(r)
  OBVIOUS
<1> QED
  BY <1>1, <1>2, <1>3, PTL DEF StarredSpec

(* What a step may do to a switch.                                         *)
Switched(r) ==
    /\ trackerOf[r].state # "disabled" /\ trackerOf'[r].state = "disabled" =>
          choice'[r] = "off" \/ \E a \in Pollers : r \in poller[a].absent
    /\ trackerOf[r].state = "disabled" /\ trackerOf'[r].state # "disabled" =>
          choice[r] = "on" \/ choice'[r] = "on" \/ r \in raced

LEMMA SwitchedStep ==
    ASSUME StarredInv, \A a \in Pollers : Listing(a), \A r \in Repos : Hands(r),
           StarredNext, NEW r \in Repos
    PROVE  Switched(r)
<1>0. choice \in [Repos -> {"on", "off"}]
  BY DEF StarredInv, StarredTypeOK
<1>1. ASSUME trackerOf[r].state # "disabled", trackerOf'[r].state = "disabled"
      PROVE  choice'[r] = "off" \/ \E a \in Pollers : r \in poller[a].absent
  <2>1. ASSUME SetState(r, "disabled") PROVE choice'[r] = "off"
    BY <1>0, <2>1 DEF SetState
  <2>2. ASSUME NEW a \in Pollers, Disable(a, r) PROVE r \in poller[a].absent
    <3>1. poller[a].pc = "remove" /\ r \in poller[a].left
      BY <2>2 DEF Disable
    <3>2. poller[a].job = "sync"
      BY <3>1, PollerFields DEF Sound
    <3> QED
      BY <3>1, <3>2 DEF Listing
  <2> QED
    BY <1>1, <2>1, <2>2, StatesAfter DEF StateAfter
<1>2. ASSUME trackerOf[r].state = "disabled", trackerOf'[r].state # "disabled", choice[r] # "on", r \notin raced
      PROVE  choice'[r] = "on"
  <2>1. choice[r] = "off"
    BY <1>0, <1>2
  <2>2. SetState(r, "tracking")
    BY <1>2, <2>1, StateKept
  <2> QED
    BY <1>0, <2>2 DEF SetState
<1> QED
  BY <1>1, <1>2 DEF Switched

(* A synchronisation disables only what the stars lacked, or what slid     *)
(* between two of their pages, while it listed them, and what the user     *)
(* switched off while no round held the row as it was before, no round     *)
(* switches on again (removeUnstarred, registerIfNew,                      *)
(* handleSetStarredTrackerState).                                          *)
THEOREM SwitchedOffStays == StarredSpec => DisabledIsTheUsers
<1>1. /\ StarredInv /\ (\A a \in Pollers : Listing(a)) /\ (\A r \in Repos : Hands(r))
      /\ [StarredNext]_starredVars
      => [\A r \in Repos : Switched(r)]_starredVars
  BY SwitchedStep
<1>2. [\A r \in Repos : Switched(r)]_starredVars <=>
      [\A r \in Repos :
          /\ (trackerOf[r].state # "disabled" /\ trackerOf'[r].state = "disabled" =>
                 choice'[r] = "off" \/ \E a \in Pollers : r \in poller[a].absent)
          /\ (trackerOf[r].state = "disabled" /\ trackerOf'[r].state # "disabled" =>
                 choice[r] = "on" \/ choice'[r] = "on" \/ r \in raced)]_starredVars
  BY DEF Switched
<1> QED
  BY <1>1, <1>2, StarredAlways, SwitchAlways, PTL DEF StarredSpec, DisabledIsTheUsers

-----------------------------------------------------------------------------
(* What a step does to the repository a poller has in hand: it lets go of  *)
(* it, takes one up of which it has read nothing, goes on to write, probes *)
(* it, or reads on as the poll does.                                       *)
SameHand(a) ==
    /\ poller'[a].pc = poller[a].pc /\ poller'[a].repo = poller[a].repo
    /\ poller'[a].newest = poller[a].newest /\ poller'[a].items = poller[a].items
    /\ poller'[a].more = poller[a].more /\ poller'[a].page = poller[a].page

HandAfter(a) ==
    \/ poller'[a].repo = NoRepo
    \/ SameHand(a)
    \/ poller'[a].newest = 0 /\ poller'[a].pc \notin Reading \cup {"cursor"}
    \/ /\ poller'[a].repo = poller[a].repo /\ poller'[a].newest = poller[a].newest
       /\ poller[a].pc = "cursor" \/ (poller[a].pc = "gone" /\ poller[a].newest # 0)
       /\ poller'[a].pc \in {"cursor", "revive"}
    \/ Probe(a) /\ poller'[a].pc = "cursor"
    \/ /\ a = Leader
       /\ PollMore \/ RecordRelease \/ EvaluateRelease \/ Scanned \/ \E r \in Repos : Poll(r)

LEMMA SameHandAfter ==
    ASSUME NEW a, poller'[a] = poller[a]
    PROVE  HandAfter(a)
  BY DEF HandAfter, SameHand

LEMMA HandWriteAfter ==
    ASSUME StarredInv, WriteStep, NEW b \in Pollers
    PROVE  HandAfter(b)
<1>1. PICK a \in Pollers :
         MarkGone(a) \/ MarkEmpty(a) \/ SetCursor(a) \/ Revive(a) \/ WriteFails(a) \/ RoundEnds(a)
  BY DEF WriteStep
<1>2. /\ poller[a] \in Locals /\ Sound(a, poller[a]) /\ poller \in [Pollers -> Locals]
  BY PollerFields DEF StarredInv, StarredTypeOK
<1>3. PICK to : /\ Goes(a, to) /\ poller[a].pc # "idle"
                /\ \/ to = AtRest
                   \/ to = Done(a)
                   \/ to = At(a, "cursor") /\ poller[a].pc = "gone" /\ poller[a].newest # 0
                   \/ to = At(a, "revive") /\ poller[a].pc = "cursor" /\ poller[a].job = "sync"
  BY <1>1 DEF MarkGone, MarkEmpty, SetCursor, Revive, WriteFails, RoundEnds, AfterGone
<1>4. poller'[a] = to /\ \A c \in Pollers \ {a} : poller'[c] = poller[c]
  BY <1>2, <1>3 DEF Goes
<1>5. CASE b # a
  BY <1>4, <1>5, SameHandAfter
<1>6. CASE b = a
  <2>1. CASE to = AtRest \/ to = Done(a)
    BY <1>3, <1>4, <1>6, <2>1, RestFields, DoneSound DEF HandAfter
  <2>2. CASE to = At(a, "cursor") /\ poller[a].pc = "gone" /\ poller[a].newest # 0
    BY <1>4, <1>6, <2>2, AtSound DEF HandAfter
  <2>3. CASE to = At(a, "revive") /\ poller[a].pc = "cursor" /\ poller[a].job = "sync"
    BY <1>4, <1>6, <2>3, AtSound DEF HandAfter
  <2> QED
    BY <1>3, <2>1, <2>2, <2>3
<1> QED
  BY <1>5, <1>6

LEMMA HandSyncAfter ==
    ASSUME StarredInv, SyncStep, NEW b \in Pollers
    PROVE  HandAfter(b)
<1>1. ASSUME NEW a \in Pollers, NEW counted \in BOOLEAN, NEW token \in BOOLEAN, SyncBegin(a, counted, token)
      PROVE  HandAfter(b)
  <2>1. poller'[a].repo = NoRepo /\ \A c \in Pollers \ {a} : poller'[c] = poller[c]
    BY <1>1, SyncBeginTyped
  <2> QED
    BY <2>1, SameHandAfter DEF HandAfter
<1>2. ASSUME NEW a \in Pollers, ListStars(a) \/ PageDone(a)
      PROVE  HandAfter(b)
  <2>1. poller'[a].repo = NoRepo /\ \A c \in Pollers \ {a} : poller'[c] = poller[c]
    BY <1>2, ListStarsTyped, PageDoneTyped, RestFields
  <2> QED
    BY <2>1, SameHandAfter DEF HandAfter
<1>3. ASSUME NEW a \in Pollers, ProbeFails(a) \/ SyncDone(a)
      PROVE  HandAfter(b)
  <2>1. (poller'[a] = AtRest \/ poller'[a] = Done(a)) /\ \A c \in Pollers \ {a} : poller'[c] = poller[c]
    BY <1>3, DoneTyped, SyncDoneTyped
  <2>2. poller[a].pc # "idle"
    BY <1>3 DEF ProbeFails, SyncDone
  <2>3. poller'[a].repo = NoRepo
    BY <2>1, <2>2, RestFields, DoneSound
  <2> QED
    BY <2>1, <2>3, SameHandAfter DEF HandAfter
<1>4. ASSUME NEW a \in Pollers, Probe(a)
      PROVE  HandAfter(b)
  <2>1. /\ \A c \in Pollers \ {a} : poller'[c] = poller[c]
        /\ \/ poller'[a].pc \in {"gone", "empty"} /\ poller'[a].newest = 0
           \/ poller'[a].pc = "cursor"
    BY <1>4, ProbeTyped
  <2> QED
    BY <1>4, <2>1, SameHandAfter DEF HandAfter, Reading
<1>5. ASSUME NEW a \in Pollers, NEW r \in Repos, Register(a, r) \/ Recheck(a, r)
      PROVE  HandAfter(b)
  <2>1. /\ \A c \in Pollers \ {a} : poller'[c] = poller[c]
        /\ poller'[a].pc \in {"probe", "register"} /\ poller'[a].newest = 0
    BY <1>5, RegisterTyped, RecheckTyped
  <2> QED
    BY <2>1, SameHandAfter DEF HandAfter, Reading
<1>6. ASSUME NEW a \in Pollers, NEW r \in Repos, PassOver(a, r) \/ Disable(a, r)
      PROVE  HandAfter(b)
  <2>1. /\ poller'[a] = [poller[a] EXCEPT !.left = @ \ {r}]
        /\ \A c \in Pollers \ {a} : poller'[c] = poller[c]
    BY <1>6, PassOverTyped
  <2>2. poller'[a].repo = NoRepo
    BY <1>6, <2>1, OneLess DEF PassOver, Disable
  <2> QED
    BY <2>1, <2>2, SameHandAfter DEF HandAfter
<1> QED
  BY <1>1, <1>2, <1>3, <1>4, <1>5, <1>6 DEF SyncStep

LEMMA HandPollAfter ==
    ASSUME StarredInv, Paired, PollStep, NEW b \in Pollers
    PROVE  HandAfter(b)
<1>1. CASE PollBegin \/ PollDone
  <2>1. Lead'.repo = NoRepo /\ \A c \in Pollers \ {Leader} : poller'[c] = poller[c]
    BY <1>1, PollBeginTyped, PollDoneTyped, RestFields
  <2> QED
    BY <2>1, SameHandAfter DEF HandAfter, Lead
<1>2. CASE PollMore \/ RecordRelease \/ EvaluateRelease \/ Scanned
  <2>1. \A c \in Pollers \ {Leader} : poller'[c] = poller[c]
    BY <1>2, PollMoreTyped, RecordTyped, EvaluateTyped, ScannedTyped
  <2> QED
    BY <1>2, <2>1, SameHandAfter DEF HandAfter
<1>3. ASSUME NEW r \in Repos, Poll(r)
      PROVE  HandAfter(b)
  <2>1. \A c \in Pollers \ {Leader} : poller'[c] = poller[c]
    BY <1>3, PollTyped
  <2> QED
    BY <1>3, <2>1, SameHandAfter DEF HandAfter
<1>4. ASSUME NEW r \in Repos, PollFails(r) \/ RecordReleaseFails
      PROVE  HandAfter(b)
  <2>1. /\ \A c \in Pollers \ {Leader} : poller'[c] = poller[c]
        /\ \/ Lead' = Done(Leader) /\ Lead.pc \in Reading
           \/ Lead' = [Lead EXCEPT !.left = @ \ {r}] /\ Lead.pc = "poll"
    BY <1>4, FailsTyped
  <2>2. Lead.pc \in Reading => Done(Leader).repo = NoRepo
    BY LeadFields, DoneSound DEF Reading, Lead
  <2>3. Lead.pc = "poll" => [Lead EXCEPT !.left = @ \ {r}].repo = NoRepo
    BY LeadFields, OneLess DEF Lead
  <2>4. Lead'.repo = NoRepo
    BY <2>1, <2>2, <2>3
  <2> QED
    BY <2>1, <2>4, SameHandAfter DEF HandAfter, Lead
<1>5. RecordReleaseFails => Lead.repo \in Repos
  BY ReadsOne DEF RecordReleaseFails, Reading
<1> QED
  BY <1>1, <1>2, <1>3, <1>4, <1>5 DEF PollStep

LEMMA HandsAfter ==
    ASSUME StarredInv, Paired, StarredNext, NEW a \in Pollers
    PROVE  HandAfter(a)
<1>1. CASE UserStep
  BY <1>1, UserTyped, SameHandAfter
<1>2. ASSUME NEW r \in Repos, Unstar(r) PROVE HandAfter(a)
  BY <1>2, UnstarTyped DEF HandAfter, SameHand
<1> QED
  BY <1>1, <1>2, HandWriteAfter, HandSyncAfter, HandPollAfter, StarredSteps

-----------------------------------------------------------------------------
(* The releases the user is still to be told of, and what holds of them:   *)
(* nothing in front of one is older, no cursor has passed one, and a poll  *)
(* that has read past one is about to tell it.                             *)
Waiting(r) == {x \in ToSet(releases[r]) \ Prereleases : news[r][x] = "none" /\ <<r, x>> \notin excused}

Ordered(r) ==
    \A i \in DOMAIN releases[r] : releases[r][i] \in Waiting(r) =>
        \A k \in 1 .. i - 1 : releases[r][k] > releases[r][i]

Above(r, c) == \A x \in Waiting(r) : x > c

Passes(r, a) ==
    poller[a].pc = "cursor" \/ (poller[a].newest # 0 /\ (r \in vanished \/ poller[a].pc = "gone"))

Reads(r) ==
    Lead.repo = r /\ Lead.pc \in Reading =>
        \A i \in DOMAIN releases[r] :
           releases[r][i] \in Waiting(r) /\ releases[r][i] <= Lead.newest =>
              releases[r][i] \in ToSet(Lead.items) \/ (Lead.more /\ i > Lead.page * ReleasePage)

Heard(r, x) == news[r][x] = "recorded" => <<r, x>> \in excused \/ BeingTold(r, x)

Tells(r) ==
    /\ Ordered(r)
    /\ Above(r, trackerOf[r].cursor) /\ Above(r, Lead.known[r].cursor)
    /\ \A a \in InHand(r) : Passes(r, a) => Above(r, poller[a].newest)
    /\ Reads(r)

AtHead ==
    /\ Lead.pc = "list" => Lead.more
    /\ Lead.pc = "evaluate" => news[Lead.repo][Head(Lead.items)] = "recorded"

TellInv ==
    /\ \A r \in Repos : Tells(r) /\ \A x \in ReleaseIds : Heard(r, x)
    /\ AtHead

LEMMA WaitingFields ==
    ASSUME StarredInv, NEW r \in Repos, NEW x \in Waiting(r)
    PROVE  /\ x \in ReleaseIds /\ x \in Nat /\ x > 0 /\ x \in ToSet(releases[r])
           /\ x \notin Prereleases /\ news[r][x] = "none" /\ <<r, x>> \notin excused
           /\ \E i \in DOMAIN releases[r] : releases[r][i] = x
<1>1. x \in ToSet(releases[r]) /\ x \notin Prereleases /\ news[r][x] = "none" /\ <<r, x>> \notin excused
  BY DEF Waiting
<1>2. x \in ReleaseIds
  BY <1>1, ReleasesFields
<1>3. x \in Nat /\ x > 0
  BY <1>2, StarredAssumption
<1>4. \E i \in DOMAIN releases[r] : releases[r][i] = x
  BY <1>1 DEF ToSet
<1> QED
  BY <1>1, <1>2, <1>3, <1>4

(* What became of the releases: published, withdrawn, or as they were.     *)
LEMMA ReleasesAfter ==
    ASSUME StarredNext
    PROVE  releases' = releases \/ \E r \in Repos, x \in ReleaseIds : Publish(r, x) \/ Withdraw(r, x)
<1>1. UserStep => releases' = releases \/ \E r \in Repos, x \in ReleaseIds : Publish(r, x) \/ Withdraw(r, x)
  BY DEF UserStep, Vanish, Reappear, Star, SetState, github
<1>2. (\E r \in Repos : Unstar(r)) => releases' = releases
  BY DEF Unstar
<1> QED
  BY <1>1, <1>2, PollersOnlyRead, StarredSteps

LEMMA VanishedAfter ==
    ASSUME StarredNext
    PROVE  vanished' \subseteq vanished \/ \E r \in Repos : Vanish(r)
<1>1. UserStep => vanished' \subseteq vanished \/ \E r \in Repos : Vanish(r)
  BY DEF UserStep, Publish, Withdraw, Reappear, Star, SetState, github
<1>2. (\E r \in Repos : Unstar(r)) => vanished' = vanished
  BY DEF Unstar
<1> QED
  BY <1>1, <1>2, PollersOnlyRead, StarredSteps

(* What became of the events and the excuses.                              *)
LEMMA NewsAfter ==
    ASSUME StarredNext
    PROVE  /\ excused \subseteq excused'
           /\ news' = news \/ RecordRelease \/ EvaluateRelease
<1> DEFINE Goal == /\ excused \subseteq excused'
                   /\ news' = news \/ RecordRelease \/ EvaluateRelease
<1>1. UserStep => Goal
  <2>1. ASSUME NEW r \in Repos, NEW x \in ReleaseIds, Publish(r, x) PROVE Goal
    BY <2>1 DEF Publish
  <2>2. ASSUME NEW r \in Repos, NEW x \in ReleaseIds, Withdraw(r, x) PROVE Goal
    BY <2>2 DEF Withdraw
  <2>3. ASSUME NEW r \in Repos, Vanish(r) PROVE Goal
    BY <2>3 DEF Vanish
  <2>4. ASSUME NEW r \in Repos, NEW s, Reappear(r) \/ Star(r) \/ SetState(r, s) PROVE Goal
    BY <2>4 DEF Reappear, Star, SetState
  <2> QED
    BY <2>1, <2>2, <2>3, <2>4 DEF UserStep
<1>2. WriteStep => Goal
  <2>1. ASSUME NEW a, RoundEnds(a) PROVE Goal
    BY <2>1 DEF RoundEnds
  <2>2. ASSUME NEW a, MarkGone(a) \/ MarkEmpty(a) \/ SetCursor(a) \/ Revive(a) \/ WriteFails(a)
        PROVE  Goal
    BY <2>2 DEF MarkGone, MarkEmpty, SetCursor, Revive, WriteFails
  <2> QED
    BY <2>1, <2>2 DEF WriteStep
<1>3. SyncStep => Goal
  <2>1. ASSUME NEW a, Probe(a) PROVE Goal
    BY <2>1 DEF Probe, Baseline
  <2>2. (\E a : Probe(a)) \/ (SyncStep => news' = news /\ excused' = excused)
    BY ZenonT(30) DEF SyncStep, SyncBegin, ListStars, ProbeFails, PageDone, SyncDone, Register,
           Recheck, PassOver, Disable
  <2> QED
    BY <2>1, <2>2
<1>4. PollStep => Goal
  <2>1. ASSUME NEW r, Poll(r) PROVE Goal
    BY <2>1 DEF Poll
  <2>2. EvaluateRelease => Goal
    BY DEF EvaluateRelease
  <2>3. (\E r : Poll(r)) \/ EvaluateRelease \/ (PollStep => (news' = news \/ RecordRelease) /\ excused' = excused)
    BY DEF PollStep, PollBegin, PollMore, PollDone, PollFails, RecordRelease, RecordReleaseFails, Scanned
  <2> QED
    BY <2>1, <2>2, <2>3
<1>5. (\E r \in Repos : Unstar(r)) => Goal
  BY DEF Unstar
<1> QED
  BY <1>1, <1>2, <1>3, <1>4, <1>5, StarredSteps

LEMMA NoneBefore ==
    ASSUME StarredInv, StarredNext, NEW r \in Repos, NEW y \in ReleaseIds, news'[r][y] = "none"
    PROVE  news[r][y] = "none"
<1>1. news \in [Repos -> [ReleaseIds -> {"none", "recorded", "told"}]]
  BY DEF StarredInv, StarredTypeOK
<1>2. ASSUME NEW q \in Repos, NEW x \in ReleaseIds, NEW s \in {"recorded", "told"},
             news' = [news EXCEPT ![q][x] = s]
      PROVE  news[r][y] = "none"
  BY <1>1, <1>2
<1>3. CASE RecordRelease
  <2>1. PICK q \in Repos, x \in ReleaseIds : news' = [news EXCEPT ![q][x] = "recorded"]
    <3>1. Lead.repo \in Repos
      BY <1>3, RecordTyped
    <3>2. \E i \in DOMAIN Lead.items : Lead.items[i] \in ReleaseIds /\ news' = [news EXCEPT ![Lead.repo][Lead.items[i]] = "recorded"]
      BY <1>3, RecordTyped
    <3> QED
      BY <3>1, <3>2
  <2> QED
    BY <1>2, <2>1
<1>4. CASE EvaluateRelease
  <2>1. \/ \E q \in Repos, x \in ReleaseIds : news' = [news EXCEPT ![q][x] = "told"]
        \/ UNCHANGED news
    <3>1. Lead.repo \in Repos /\ Head(Lead.items) \in ReleaseIds
      BY <1>4, EvaluateTyped
    <3>2. news' = [news EXCEPT ![Lead.repo][Head(Lead.items)] = "told"] \/ UNCHANGED news
      BY <1>4, EvaluateTyped
    <3> QED
      BY <3>1, <3>2
  <2> QED
    BY <1>2, <2>1
<1> QED
  BY <1>3, <1>4, NewsAfter

LEMMA FewerWait ==
    ASSUME StarredInv, StarredNext, StarredInv', releases' = releases, NEW r \in Repos
    PROVE  Waiting(r)' \subseteq Waiting(r)
<1> SUFFICES ASSUME NEW x \in Waiting(r)' PROVE x \in Waiting(r)
  OBVIOUS
<1>1. x \in ToSet(releases[r]) /\ x \notin Prereleases /\ news'[r][x] = "none" /\ <<r, x>> \notin excused'
  BY DEF Waiting
<1>2. x \in ReleaseIds
  BY <1>1, ReleasesFields
<1>3. news[r][x] = "none" /\ <<r, x>> \notin excused
  BY <1>1, <1>2, NoneBefore, NewsAfter
<1> QED
  BY <1>1, <1>3 DEF Waiting

LEMMA NoneWait ==
    ASSUME news' = news, NEW r \in Repos,
           Untold(r, ToSet(releases'[r])) \subseteq excused'
    PROVE  Waiting(r)' = {}
  BY DEF Waiting, Untold

LEMMA OrderedStays ==
    ASSUME NEW r \in Repos, Ordered(r), releases' = releases, Waiting(r)' \subseteq Waiting(r)
    PROVE  Ordered(r)'
  BY DEF Ordered

LEMMA RowsAbove ==
    ASSUME StarredInv, StarredNext, NEW r \in Repos, Tells(r), Waiting(r)' \subseteq Waiting(r)
    PROVE  \A x \in Waiting(r)' : x > trackerOf'[r].cursor
<1> SUFFICES ASSUME NEW x \in Waiting(r)' PROVE x > trackerOf'[r].cursor
  OBVIOUS
<1>1. x \in Waiting(r) /\ x > 0
  BY WaitingFields
<1>2. CASE trackerOf'[r].cursor = trackerOf[r].cursor
  BY <1>1, <1>2 DEF Tells, Above
<1>3. CASE trackerOf'[r] = NewRow
  BY <1>1, <1>3, NewRowFields
<1>4. ASSUME NEW a \in Pollers, SetCursor(a), poller[a].repo = r, trackerOf'[r].cursor = poller[a].newest
      PROVE  x > trackerOf'[r].cursor
  <2>1. a \in InHand(r) /\ Passes(r, a)
    BY <1>4 DEF InHand, Passes, SetCursor
  <2> QED
    BY <1>1, <1>4, <2>1 DEF Tells, Above
<1> QED
  BY <1>2, <1>3, <1>4, RowsAfter DEF RowAfter

LEMMA KnownAbove ==
    ASSUME StarredInv, Paired, StarredNext, NEW r \in Repos, Tells(r), Waiting(r)' \subseteq Waiting(r)
    PROVE  \A x \in Waiting(r)' : x > Lead'.known[r].cursor
<1> SUFFICES ASSUME NEW x \in Waiting(r)' PROVE x > Lead'.known[r].cursor
  OBVIOUS
<1>1. x \in Waiting(r) /\ x > 0
  BY WaitingFields
<1>2. Leader \in Pollers /\ Lead.known \in [Repos -> Trackers]
  BY LeadFields DEF Locals
<1>3. \/ Lead'.known[r] \in {Lead.known[r], trackerOf[r]}
      \/ Lead'.known[r] \in {NoRow, NewRow}
  <2>1. \/ poller'[Leader].known = poller[Leader].known
        \/ poller'[Leader].known = trackerOf
        \/ poller'[Leader] = AtRest
        \/ \E q \in Repos : poller'[Leader].known = [poller[Leader].known EXCEPT ![q] = NewRow]
    BY <1>2, KnownAfter
  <2> QED
    BY <1>2, <2>1, RestFields DEF Lead
<1>4. NoRow.cursor = 0 /\ NewRow.cursor = 0
  BY NewRowFields DEF NoRow
<1> QED
  BY <1>1, <1>3, <1>4 DEF Tells, Above

LEMMA PageRead ==
    ASSUME StarredInv, NEW r \in Repos, Ordered(r), NEW c \in Nat, NEW start \in Nat, NEW list,
           list \in PagesOf(ReleaseIds), OnePage(releases[r], list, start, ReleasePage),
           NEW i \in DOMAIN releases[r], releases[r][i] \in Waiting(r), releases[r][i] > c, start < i
    PROVE  releases[r][i] \in ToSet(NewIn(list, c)) \/ (NotLast(list, c) /\ start + ReleasePage < i)
<1>1. /\ \A k \in DOMAIN releases[r] : releases[r][k] \in Nat
      /\ Len(releases[r]) \in Nat /\ DOMAIN releases[r] = 1 .. Len(releases[r])
  BY ReleasesFields, StarredAssumption
<1>2. \A k \in 1 .. i : releases[r][k] > c
  <2> SUFFICES ASSUME NEW k \in 1 .. i PROVE releases[r][k] > c
    OBVIOUS
  <2>1. k \in DOMAIN releases[r] /\ (k = i \/ k \in 1 .. i - 1)
    BY <1>1
  <2>2. k \in 1 .. i - 1 => releases[r][k] > releases[r][i]
    BY DEF Ordered
  <2> QED
    BY <1>1, <2>1, <2>2
<1>3. PICK m \in Nat : m = Len(list) /\ DOMAIN list = 1 .. m /\ m <= ReleasePage
  BY DEF OnePage
<1>4. \A k \in DOMAIN list : start + k \in DOMAIN releases[r] /\ list[k] = releases[r][start + k]
  BY DEF OnePage
<1>5. ReleasePage \in Nat /\ ReleasePage > 0 /\ i \in Nat
  BY <1>1, StarredAssumption
<1>6. CASE i <= start + ReleasePage
  <2>1. i - start \in DOMAIN list /\ list[i - start] = releases[r][i]
    BY <1>6 DEF OnePage
  <2>2. \A k \in 1 .. i - start : list[k] > c
    <3> SUFFICES ASSUME NEW k \in 1 .. i - start PROVE list[k] > c
      OBVIOUS
    <3>1. k \in DOMAIN list /\ start + k \in 1 .. i
      BY <1>3, <1>5, <2>1
    <3> QED
      BY <1>2, <1>4, <3>1
  <2>3. list \in ListsOf(ReleaseIds)
    BY DEF PagesOf
  <2>4. i - start \in DOMAIN NewIn(list, c) /\ NewIn(list, c)[i - start] = list[i - start]
    BY <2>1, <2>2, <2>3, NewerThanCursor
  <2> QED
    BY <2>1, <2>4 DEF ToSet
<1>7. CASE start + ReleasePage < i
  <2>1. m = ReleasePage
    <3>1. m < ReleasePage => Len(releases[r]) < start + ReleasePage
      BY <1>3 DEF OnePage
    <3> QED
      BY <1>1, <1>3, <1>5, <1>7, <3>1
  <2>2. m \in DOMAIN list /\ start + m \in 1 .. i
    BY <1>3, <1>5, <1>7, <2>1
  <2>3. list[m] > c
    BY <1>2, <1>4, <2>2
  <2> QED
    BY <1>3, <1>7, <2>1, <2>3 DEF NotLast, Last
<1> QED
  BY <1>5, <1>6, <1>7

-----------------------------------------------------------------------------
(* A page that has been gone through has nothing left to tell.             *)
LEMMA NothingToTell ==
    ASSUME StarredInv, Scanned, NEW r \in Repos, Lead.repo = r, NEW x \in Waiting(r)
    PROVE  x \notin ToSet(Lead.items)
<1> SUFFICES ASSUME x \in ToSet(Lead.items) PROVE FALSE
  OBVIOUS
<1> DEFINE S == {i \in DOMAIN Lead.items : ToTell(r, Lead.items[i])}
<1>1. Leader \in Pollers /\ Lead.items \in ListsOf(ReleaseIds)
  BY LeadFields, PollerFields DEF Lead
<1>2. DOMAIN Lead.items = 1 .. Len(Lead.items) /\ Len(Lead.items) \in Nat
  BY <1>1, ListFields
<1>3. PICK j \in DOMAIN Lead.items : Lead.items[j] = x
  BY DEF ToSet
<1>4. j \in S
  BY <1>3 DEF Waiting, ToTell
<1>5. PICK i \in S : \A k \in S : i <= k
  <2>1. S \subseteq Nat
    BY <1>2
  <2> HIDE DEF S
  <2> QED
    BY <1>4, <2>1, LeastNatural
<1>6. IsNext(i)
  <2>1. i \in DOMAIN Lead.items /\ ToTell(Lead.repo, Lead.items[i])
    BY <1>5
  <2>2. ASSUME NEW k \in 1 .. i - 1 PROVE ~ToTell(Lead.repo, Lead.items[k])
    <3>1. k \in DOMAIN Lead.items /\ ~(i <= k)
      BY <1>2, <2>1, <2>2
    <3> QED
      BY <1>5, <3>1
  <2> QED
    BY <2>1, <2>2 DEF IsNext
<1> QED
  BY <1>5, <1>6 DEF Scanned

(* A baseline excuses what is there, and so does a repository that is gone.*)
LEMMA BaselineExcuses ==
    ASSUME StarredInv, Paired, StarredNext, releases' = releases, NEW r \in Repos,
           \/ Vanish(r) /\ InHand(r) # {}
           \/ (\E a \in Pollers : Probe(a) /\ poller[a].repo = r /\ poller'[a].pc = "cursor")
           \/ Poll(r) /\ Lead'.pc = "cursor" /\ Lead'.newest # Lead.known[r].cursor
    PROVE  Waiting(r)' = {}
<1>1. news' = news /\ Untold(r, ToSet(releases[r])) \subseteq excused'
  <2>1. CASE Vanish(r) /\ InHand(r) # {}
    BY <2>1 DEF Vanish
  <2>2. ASSUME NEW a \in Pollers, Probe(a), poller[a].repo = r, poller'[a].pc = "cursor"
        PROVE  news' = news /\ Untold(r, ToSet(releases[r])) \subseteq excused'
    <3>1. excused' = excused \cup Untold(r, ToSet(releases[r]))
      BY <2>2, ProbeTyped
    <3> QED
      BY <2>2, <3>1 DEF Probe
  <2>3. CASE Poll(r) /\ Lead'.pc = "cursor" /\ Lead'.newest # Lead.known[r].cursor
    <3>1. excused' = excused \cup Untold(r, ToSet(releases[r]))
      BY <2>3, PollTyped
    <3> QED
      BY <2>3, <3>1 DEF Poll
  <2> QED
    BY <2>1, <2>2, <2>3
<1> QED
  BY <1>1, NoneWait

LEMMA SameReleasesHands ==
    ASSUME StarredInv, Paired, StarredNext, releases' = releases, NEW r \in Repos, Tells(r), AtHead,
           Waiting(r)' \subseteq Waiting(r),
           NEW a \in Pollers, poller'[a].repo = r, Passes(r, a)', NEW x \in Waiting(r)'
    PROVE  x > poller'[a].newest
<1>0. Lead.newest \in Nat
  <2>1. Lead \in Locals
    BY LeadFields
  <2>2. Lead.newest \in ReleaseIds \/ Lead.newest = 0
    BY <2>1 DEF Locals
  <2>3. \A n \in ReleaseIds : n \in Nat
    BY StarredAssumption
  <2>4. CASE Lead.newest \in ReleaseIds
    BY <2>3, <2>4
  <2>5. CASE Lead.newest = 0
    BY <2>5
  <2> QED
    BY <2>2, <2>4, <2>5
<1>1. x \in Waiting(r) /\ x > 0 /\ x \in Nat /\ Waiting(r)' # {} /\ r # NoRepo
  BY WaitingFields, StarredAssumption
<1>2. poller[a].repo = r /\ Passes(r, a) => x > poller[a].newest
  BY <1>1 DEF Tells, Above, InHand
<1>3. ~(Vanish(r) /\ InHand(r) # {})
  BY <1>1, BaselineExcuses
<1>4. r \in vanished' => r \in vanished \/ poller[a].repo # r
  <2> SUFFICES ASSUME r \in vanished', r \notin vanished, poller[a].repo = r PROVE FALSE
    OBVIOUS
  <2>1. PICK q \in Repos : Vanish(q)
    BY VanishedAfter
  <2>2. q = r
    BY <2>1 DEF Vanish
  <2> QED
    BY <1>3, <2>1, <2>2 DEF InHand
<1>5. CASE SameHand(a)
  BY <1>2, <1>4, <1>5 DEF SameHand, Passes
<1>6. CASE poller'[a].newest = 0 /\ poller'[a].pc \notin Reading \cup {"cursor"}
  BY <1>6 DEF Passes
<1>7. CASE /\ poller'[a].repo = poller[a].repo /\ poller'[a].newest = poller[a].newest
           /\ poller[a].pc = "cursor" \/ (poller[a].pc = "gone" /\ poller[a].newest # 0)
  BY <1>2, <1>7 DEF Passes
<1>8. CASE Probe(a) /\ poller'[a].pc = "cursor"
  <2>1. poller[a].repo = r
    BY <1>8, ProbeTyped
  <2> QED
    BY <1>1, <1>8, <2>1, BaselineExcuses
<1>9. ASSUME a = Leader, NEW q \in Repos, Poll(q) PROVE x > poller'[a].newest
  <2>1. q = r
    BY <1>9, PollTyped DEF Lead
  <2>2. Lead'.pc = "cursor" => Lead'.newest = Lead.known[r].cursor
    BY <1>1, <1>9, <2>1, BaselineExcuses
  <2>3. Lead'.pc = "cursor" => x > Lead'.newest
    BY <1>1, <2>2 DEF Tells, Above
  <2>4. Lead'.pc # "cursor" => ~Passes(r, a)'
    <3> SUFFICES ASSUME Lead'.pc # "cursor", Lead'.newest # 0 PROVE r \notin vanished' /\ Lead'.pc # "gone"
      BY <1>9 DEF Passes, Lead
    <3>1. r \notin vanished /\ Lead'.pc = "scan"
      BY <1>9, <2>1, PollTyped
    <3>2. vanished' = vanished
      BY <1>9 DEF Poll, Aside, github
    <3> QED
      BY <3>1, <3>2
  <2> QED
    BY <1>9, <2>3, <2>4 DEF Lead
<1>10. CASE a = Leader /\ PollMore
  <2>1. /\ Lead.repo = r /\ Lead'.newest = Lead.newest /\ Lead.newest # 0 /\ Lead.page \in Nat
        /\ vanished' = vanished /\ Lead.pc = "list"
    BY <1>10, PollMoreTyped DEF PollMore, Aside, github, Lead
  <2>2. r \in vanished => x > Lead.newest
    BY <1>2, <1>10, <2>1 DEF Passes, Lead
  <2>3. CASE Lead'.pc = "cursor" /\ r \notin vanished
    <3> SUFFICES ASSUME ~(x > Lead.newest) PROVE FALSE
      BY <1>10, <2>1 DEF Lead
    <3>1. PICK i \in DOMAIN releases[r] : releases[r][i] = x
      BY <1>1, WaitingFields
    <3>2. x <= Lead.newest
      BY <1>0, <1>1
    <3>3. Lead.items = <<>>
      BY <2>1, LeadFields DEF Sound
    <3>4. i > Lead.page * ReleasePage
      <4>1. ToSet(<<>>) = {}
        BY DEF ToSet
      <4> QED
        BY <1>1, <2>1, <3>1, <3>2, <3>3, <4>1 DEF Tells, Reads, Reading
    <3> DEFINE list == Cut(releases[r], Lead.page + 1, ReleasePage)
    <3>5. list = <<>> /\ OnePage(releases[r], list, Lead.page * ReleasePage, ReleasePage)
      BY <1>10, <2>1, <2>3, PollMoreTyped, ReleasesPage
    <3>6. PICK start \in Nat : start = Lead.page * ReleasePage
      BY <2>1, PageStart, StarredAssumption
    <3> HIDE DEF list
    <3>7. Len(list) = 0
      BY <3>5
    <3>8. /\ Len(releases[r]) < start + ReleasePage
          /\ i <= start + ReleasePage => i - start \in DOMAIN list
          /\ DOMAIN list = 1 .. 0
      BY <3>4, <3>5, <3>6, <3>7, StarredAssumption DEF OnePage
    <3>9. i \in 1 .. Len(releases[r]) /\ Len(releases[r]) \in Nat
      BY ReleasesFields
    <3> QED
      BY <3>8, <3>9, StarredAssumption
  <2>4. CASE Lead'.pc # "cursor" /\ r \notin vanished
    BY <1>10, <2>1, <2>4, PollMoreTyped DEF Passes, Lead
  <2> QED
    BY <1>10, <2>1, <2>2, <2>3, <2>4 DEF Lead
<1>11. CASE a = Leader /\ (RecordRelease \/ EvaluateRelease)
  <2>1. Lead'.repo = r => /\ Lead.repo = r /\ Lead'.newest = Lead.newest /\ Lead'.pc \in {"scan", "evaluate"}
    BY <1>1, <1>11, RecordTyped, EvaluateTyped
  <2>2. vanished' = vanished
    BY <1>11 DEF RecordRelease, EvaluateRelease, Aside, github
  <2> QED
    BY <1>2, <1>11, <2>1, <2>2 DEF Passes, Lead
<1>12. CASE a = Leader /\ Scanned
  <2>1. /\ Lead.repo = r /\ Lead'.newest = Lead.newest /\ Lead.pc = "scan"
        /\ Lead'.pc = IF Lead.more THEN "list" ELSE "cursor"
        /\ vanished' = vanished
    BY <1>12, ScannedTyped DEF Scanned, Aside, github, Lead
  <2>2. CASE Lead.more
    BY <1>2, <1>12, <2>1, <2>2 DEF Passes, Lead
  <2>3. CASE ~Lead.more
    <3> SUFFICES ASSUME ~(x > Lead.newest) PROVE FALSE
      BY <1>12, <2>1 DEF Lead
    <3>1. PICK i \in DOMAIN releases[r] : releases[r][i] = x
      BY <1>1, WaitingFields
    <3>2. x <= Lead.newest
      BY <1>0, <1>1
    <3>3. x \in ToSet(Lead.items)
      BY <1>1, <2>1, <2>3, <3>1, <3>2 DEF Tells, Reads, Reading
    <3> QED
      BY <1>1, <1>12, <2>1, <3>3, NothingToTell
  <2> QED
    BY <2>2, <2>3
<1>13. poller'[a].repo # NoRepo
  BY <1>1
<1> QED
  BY <1>5, <1>6, <1>7, <1>8, <1>9, <1>10, <1>11, <1>12, <1>13, HandsAfter DEF HandAfter

-----------------------------------------------------------------------------
(* What the poll has read past, it still tells.                            *)
LEMMA SameReleasesReads ==
    ASSUME StarredInv, Paired, StarredNext, releases' = releases, NEW r \in Repos, Tells(r), AtHead,
           Waiting(r)' \subseteq Waiting(r), Lead'.repo = r, Lead'.pc \in Reading,
           NEW i \in DOMAIN releases[r], releases[r][i] \in Waiting(r)', releases[r][i] <= Lead'.newest
    PROVE  releases[r][i] \in ToSet(Lead'.items) \/ (Lead'.more /\ i > Lead'.page * ReleasePage)
<1> DEFINE x == releases[r][i]
<1>1. x \in Waiting(r) /\ x \in Nat /\ x > Lead.known[r].cursor /\ r # NoRepo /\ ToTell(r, x)
  <2>1. x \in Waiting(r) /\ x \in Nat /\ r # NoRepo
    BY WaitingFields, StarredAssumption
  <2>2. ToTell(r, x)
    BY <2>1, WaitingFields DEF ToTell
  <2> QED
    BY <2>1, <2>2 DEF Tells, Above
<1>2. Lead.repo = r /\ Lead.pc \in Reading /\ x <= Lead.newest =>
         x \in ToSet(Lead.items) \/ (Lead.more /\ i > Lead.page * ReleasePage)
  BY <1>1 DEF Tells, Reads
<1>3. Lead.known[r].cursor \in Nat /\ i \in Nat /\ i > 0
  <2>1. Lead.known \in [Repos -> Trackers]
    BY LeadFields DEF Locals
  <2>2. Lead.known[r].cursor \in ReleaseIds \/ Lead.known[r].cursor = 0
    BY <2>1 DEF Trackers
  <2>3. \A n \in ReleaseIds : n \in Nat
    BY StarredAssumption
  <2> QED
    BY <2>2, <2>3, ReleasesFields
<1> HIDE DEF x
<1>4. CASE SameHand(Leader)
  BY <1>2, <1>4 DEF SameHand, Lead, x
<1>5. CASE PollMore
  <2> DEFINE list == Cut(releases[r], Lead.page + 1, ReleasePage)
  <2>1. /\ Lead.repo = r /\ Lead'.newest = Lead.newest /\ Lead.page \in Nat
        /\ Lead.pc = "list" /\ Lead'.page = Lead.page + 1
        /\ Lead'.items = NewIn(list, Lead.known[r].cursor) /\ Lead'.more = NotLast(list, Lead.known[r].cursor)
    BY <1>5, PollMoreTyped DEF PollMore, Reading
  <2>2. /\ list \in PagesOf(ReleaseIds)
        /\ OnePage(releases[r], list, Lead.page * ReleasePage, ReleasePage)
    BY <2>1, ReleasesPage
  <2> HIDE DEF list
  <2>3. PICK start \in Nat : start = Lead.page * ReleasePage /\ (Lead.page + 1) * ReleasePage = start + ReleasePage
    BY <2>1, PageStart, StarredAssumption
  <2>4. i > start
    <3>1. Lead.items = <<>> /\ ToSet(<<>>) = {}
      BY <2>1, LeadFields DEF Sound, ToSet
    <3> QED
      BY <1>2, <2>1, <2>3, <3>1 DEF x, Reading
  <2>5. x \in ToSet(NewIn(list, Lead.known[r].cursor))
        \/ (NotLast(list, Lead.known[r].cursor) /\ start + ReleasePage < i)
    <3>1. OnePage(releases[r], list, start, ReleasePage) /\ start < i /\ Ordered(r)
      BY <1>3, <2>2, <2>3, <2>4 DEF Tells
    <3> QED
      BY <1>1, <1>3, <2>2, <3>1, PageRead DEF x
  <2>6. start + ReleasePage < i => i > Lead'.page * ReleasePage
    BY <1>3, <2>1, <2>3, StarredAssumption
  <2> QED
    BY <2>1, <2>5, <2>6 DEF x
<1>6. ASSUME NEW q \in Repos, Poll(q)
      PROVE  x \in ToSet(Lead'.items) \/ (Lead'.more /\ i > Lead'.page * ReleasePage)
  <2>1. q = r
    BY <1>6, PollTyped
  <2>2. /\ Lead'.page = 1
        /\ Lead'.items = NewIn(FirstPage(r), Lead.known[r].cursor)
        /\ Lead'.more = NotLast(FirstPage(r), Lead.known[r].cursor)
    BY <1>6, <2>1, PollTyped DEF Reading
  <2>3. x \in ToSet(NewIn(FirstPage(r), Lead.known[r].cursor))
        \/ (NotLast(FirstPage(r), Lead.known[r].cursor) /\ 0 + ReleasePage < i)
    <3>1. Ordered(r) /\ 0 < i /\ 0 \in Nat
      BY <1>3 DEF Tells
    <3>2. FirstPage(r) \in PagesOf(ReleaseIds) /\ OnePage(releases[r], FirstPage(r), 0, ReleasePage)
      BY FirstPageFields
    <3> QED
      BY <1>1, <1>3, <3>1, <3>2, PageRead DEF x
  <2>4. 0 + ReleasePage < i => i > Lead'.page * ReleasePage
    BY <1>3, <2>2, StarredAssumption
  <2> QED
    BY <2>2, <2>3, <2>4
<1>7. CASE RecordRelease
  <2>1. /\ Lead.repo = r /\ Lead'.newest = Lead.newest /\ Lead'.more = Lead.more
        /\ Lead'.page = Lead.page /\ Lead.pc = "scan"
    BY <1>7, RecordTyped
  <2>2. PICK n \in DOMAIN Lead.items :
           /\ IsNext(n) /\ \A j \in DOMAIN Lead.items : n <= j => Lead.items[j] \in ToSet(Lead'.items)
    BY <1>7, RecordTyped
  <2>3. ASSUME x \in ToSet(Lead.items) PROVE x \in ToSet(Lead'.items)
    <3>1. PICK j \in DOMAIN Lead.items : Lead.items[j] = x
      BY <2>3 DEF ToSet
    <3>2. DOMAIN Lead.items = 1 .. Len(Lead.items) /\ Len(Lead.items) \in Nat
      BY LeadFields, PollerFields, ListFields DEF Lead
    <3>3. j \notin 1 .. n - 1
      BY <1>1, <2>1, <2>2, <3>1 DEF IsNext
    <3>4. n <= j
      BY <3>2, <3>3
    <3> QED
      BY <2>2, <3>1, <3>4
  <2> QED
    BY <1>2, <2>1, <2>3 DEF x, Reading
<1>8. CASE EvaluateRelease
  <2>1. /\ Lead.repo = r /\ Lead'.newest = Lead.newest /\ Lead'.more = Lead.more
        /\ Lead'.page = Lead.page /\ Lead.pc = "evaluate" /\ Lead.items[1] = Head(Lead.items)
        /\ \A j \in DOMAIN Lead.items : j # 1 => Lead.items[j] \in ToSet(Lead'.items)
    BY <1>1, <1>8, EvaluateTyped DEF Reading
  <2>2. news[r][Head(Lead.items)] = "recorded"
    BY <2>1 DEF AtHead
  <2>3. x # Lead.items[1]
    BY <1>1, <2>1, <2>2 DEF ToTell
  <2>4. x \in ToSet(Lead.items) => x \in ToSet(Lead'.items)
    BY <2>1, <2>3 DEF ToSet
  <2> QED
    BY <1>2, <2>1, <2>4 DEF x, Reading
<1>9. CASE Scanned
  <2>1. /\ Lead.repo = r /\ Lead'.newest = Lead.newest /\ Lead.pc = "scan" /\ Lead'.more = Lead.more
        /\ Lead'.page = Lead.page
    BY <1>9, ScannedTyped
  <2>2. x \notin ToSet(Lead.items)
    BY <1>1, <1>9, <2>1, NothingToTell
  <2> QED
    BY <1>2, <2>1, <2>2 DEF x, Reading
<1>10. Leader \in Pollers /\ poller'[Leader].repo = r /\ poller'[Leader].pc \in Reading
  BY LeadFields DEF Lead
<1>11. poller'[Leader].pc \notin {"cursor", "revive"}
  BY <1>10 DEF Reading
<1> QED
  BY <1>1, <1>4, <1>5, <1>6, <1>7, <1>8, <1>9, <1>10, <1>11, HandsAfter DEF HandAfter, x

LEMMA SameReleasesTell ==
    ASSUME StarredInv, Paired, StarredNext, StarredInv', releases' = releases, NEW r \in Repos,
           Tells(r), AtHead
    PROVE  Tells(r)'
<1>1. Waiting(r)' \subseteq Waiting(r)
  BY FewerWait
<1>2. Ordered(r)'
  BY <1>1, OrderedStays DEF Tells
<1>3. Above(r, trackerOf[r].cursor)' /\ Above(r, Lead.known[r].cursor)'
  BY <1>1, RowsAbove, KnownAbove DEF Above
<1>4. ASSUME NEW a \in InHand(r)', Passes(r, a)' PROVE Above(r, poller[a].newest)'
  <2>1. a \in Pollers /\ poller'[a].repo = r
    BY <1>4 DEF InHand
  <2> QED
    BY <1>1, <1>4, <2>1, SameReleasesHands DEF Above
<1>5. Reads(r)'
  <2> SUFFICES ASSUME Lead'.repo = r, Lead'.pc \in Reading, NEW i \in DOMAIN releases[r],
                      releases[r][i] \in Waiting(r)', releases[r][i] <= Lead'.newest
               PROVE  releases[r][i] \in ToSet(Lead'.items) \/ (Lead'.more /\ i > Lead'.page * ReleasePage)
    BY DEF Reads, Reading
  <2> QED
    BY <1>1, SameReleasesReads
<1> QED
  BY <1>2, <1>3, <1>4, <1>5 DEF Tells

LEMMA NoneTells ==
    ASSUME NEW r \in Repos, Waiting(r)' = {}
    PROVE  Tells(r)'
<1>1. Ordered(r)' /\ Above(r, trackerOf[r].cursor)' /\ Above(r, Lead.known[r].cursor)'
  BY DEF Ordered, Above
<1>2. \A a \in InHand(r)' : Passes(r, a)' => Above(r, poller[a].newest)'
  BY DEF Above
<1>3. Reads(r)'
  BY DEF Reads
<1> QED
  BY <1>1, <1>2, <1>3 DEF Tells

LEMMA FewerTells ==
    ASSUME NEW r \in Repos, Tells(r), releases'[r] = releases[r], Waiting(r)' \subseteq Waiting(r),
           UNCHANGED <<trackerOf, poller, vanished>>
    PROVE  Tells(r)'
<1>1. Ordered(r)' /\ Above(r, trackerOf[r].cursor)' /\ Above(r, Lead.known[r].cursor)'
  BY DEF Tells, Ordered, Above, Lead
<1>2. ASSUME NEW a \in InHand(r)', Passes(r, a)' PROVE Above(r, poller[a].newest)'
  <2>1. a \in InHand(r) /\ Passes(r, a)
    BY <1>2 DEF InHand, Passes
  <2> QED
    BY <2>1 DEF Tells, Above
<1>3. Reads(r)'
  BY DEF Tells, Reads, Lead
<1> QED
  BY <1>1, <1>2, <1>3 DEF Tells

LEMMA CursorsAreNumbers ==
    ASSUME StarredInv, NEW r \in Repos
    PROVE  /\ trackerOf[r].cursor \in Nat /\ Lead.known[r].cursor \in Nat
           /\ \A a \in Pollers : poller[a].newest \in Nat
           /\ \A y \in ToSet(releases[r]) : y \in Nat
<1>1. \A n \in ReleaseIds : n \in Nat
  BY StarredAssumption
<1>2. \A row \in Trackers : row.cursor \in Nat
  <2>1. \A row \in Trackers : row.cursor \in ReleaseIds \/ row.cursor = 0
    BY DEF Trackers
  <2> QED
    BY <1>1, <2>1
<1>3. \A at \in Locals : at.newest \in Nat
  <2>1. \A at \in Locals : at.newest \in ReleaseIds \/ at.newest = 0
    BY DEF Locals
  <2> QED
    BY <1>1, <2>1
<1>4. trackerOf[r] \in Trackers /\ \A a \in Pollers : poller[a] \in Locals
  BY DEF StarredInv, StarredTypeOK
<1>5. Lead.known[r] \in Trackers
  BY <1>4, LeadFields DEF Locals
<1>6. \A y \in ToSet(releases[r]) : y \in ReleaseIds
  BY ReleasesFields
<1> QED
  BY <1>1, <1>2, <1>3, <1>4, <1>5, <1>6

(* A release published out of order excuses what it may hide; one that is  *)
(* in order is above all that has been read.                               *)
LEMMA PublishTells ==
    ASSUME StarredInv, StarredInv', NEW q \in Repos, NEW new \in ReleaseIds, Publish(q, new),
           NEW r \in Repos, Tells(r)
    PROVE  Tells(r)'
<1> DEFINE above == ToSet(releases[q]) \cup {trackerOf[q].cursor, Lead.known[q].cursor}
                       \cup {poller[a].newest : a \in InHand(q)}
<1>1. /\ UNCHANGED <<trackerOf, poller, vanished>> /\ news' = news
      /\ new \notin ToSet(releases[q]) /\ releases' = [releases EXCEPT ![q] = <<new>> \o @]
      /\ excused' = IF \A y \in above : y < new THEN excused
                    ELSE excused \cup Untold(q, ToSet(releases[q]) \cup {new})
  BY DEF Publish
<1>2. /\ releases \in [Repos -> ListsOf(ReleaseIds)] /\ excused \subseteq excused'
  BY <1>1 DEF StarredInv, StarredTypeOK
<1>3. CASE r # q
  <2>1. releases'[r] = releases[r]
    BY <1>1, <1>2, <1>3
  <2>2. Waiting(r)' \subseteq Waiting(r)
    BY <1>1, <1>2, <2>1 DEF Waiting
  <2> QED
    BY <1>1, <2>1, <2>2, FewerTells
<1>4. CASE r = q
  <2> DEFINE long == <<new>> \o releases[r]
  <2>1. /\ releases'[r] = long /\ DOMAIN long = 1 .. Len(releases[r]) + 1 /\ long[1] = new
        /\ \A j \in DOMAIN releases[r] : long[j + 1] = releases[r][j]
        /\ \A j \in DOMAIN long : j # 1 => j - 1 \in DOMAIN releases[r] /\ long[j] = releases[r][j - 1]
        /\ ToSet(long) = ToSet(releases[r]) \cup {new}
    <3>1. /\ releases[r] \in ListsOf(ReleaseIds) /\ new \notin ToSet(releases[r])
          /\ releases'[r] = long
      BY <1>1, <1>2, <1>4
    <3>2. /\ DOMAIN long = 1 .. Len(releases[r]) + 1 /\ long[1] = new
          /\ \A j \in DOMAIN releases[r] : long[j + 1] = releases[r][j]
          /\ \A j \in DOMAIN long : j # 1 => j - 1 \in DOMAIN releases[r] /\ long[j] = releases[r][j - 1]
          /\ ToSet(long) = ToSet(releases[r]) \cup {new}
      BY <3>1, WithOneInFront
    <3> QED
      BY <3>1, <3>2
  <2> HIDE DEF long, above
  <2>2. CASE ~\A y \in above : y < new
    <3>1. Untold(r, ToSet(releases'[r])) \subseteq excused'
      BY <1>1, <1>4, <2>1, <2>2
    <3> QED
      BY <1>1, <3>1, NoneWait, NoneTells
  <2>3. CASE \A y \in above : y < new
    <3>1. Waiting(r)' \subseteq Waiting(r) \cup {new}
      BY <1>1, <2>1, <2>3 DEF Waiting
    <3>2. /\ \A y \in ToSet(releases[r]) : y < new
          /\ trackerOf[r].cursor < new /\ Lead.known[r].cursor < new
          /\ \A a \in InHand(r) : poller[a].newest < new
      BY <1>4, <2>3 DEF above
    <3>3. new \in Nat /\ Len(releases[r]) \in Nat /\ DOMAIN releases[r] = 1 .. Len(releases[r])
      BY ReleasesFields, StarredAssumption
    <3>4. \A n \in Nat : n < new <=> new > n
      BY <3>3
    <3>5. /\ trackerOf[r].cursor \in Nat /\ Lead.known[r].cursor \in Nat
          /\ \A a \in Pollers : poller[a].newest \in Nat
          /\ \A y \in ToSet(releases[r]) : y \in Nat
      BY CursorsAreNumbers
    <3>6. Ordered(r)'
      <4> SUFFICES ASSUME NEW i \in DOMAIN long, long[i] \in Waiting(r)', NEW k \in 1 .. i - 1
                   PROVE  long[k] > long[i]
        BY <2>1 DEF Ordered
      <4>1. i # 1 /\ i - 1 \in DOMAIN releases[r] /\ long[i] = releases[r][i - 1]
        BY <2>1, <3>3
      <4>2. long[i] \in Waiting(r) /\ long[i] \in ToSet(releases[r])
        BY <1>1, <1>4, <3>1, <4>1 DEF ToSet
      <4>3. CASE k = 1
        BY <2>1, <3>2, <3>4, <3>5, <4>2, <4>3
      <4>4. CASE k # 1
        <5>1. k \in DOMAIN long /\ k - 1 \in 1 .. (i - 1) - 1
          BY <2>1, <3>3, <4>4
        <5>2. long[k] = releases[r][k - 1]
          BY <2>1, <4>4, <5>1
        <5>3. releases[r][k - 1] > releases[r][i - 1]
          BY <4>1, <4>2, <5>1 DEF Tells, Ordered
        <5> QED
          BY <4>1, <5>2, <5>3
      <4> QED
        BY <4>3, <4>4
    <3>7. Above(r, trackerOf[r].cursor)' /\ Above(r, Lead.known[r].cursor)'
      BY <1>1, <3>1, <3>2, <3>4, <3>5 DEF Tells, Above, Lead
    <3>8. ASSUME NEW a \in InHand(r)', Passes(r, a)' PROVE Above(r, poller[a].newest)'
      <4>1. a \in InHand(r) /\ Passes(r, a) /\ a \in Pollers
        BY <1>1, <3>8 DEF InHand, Passes
      <4> QED
        BY <1>1, <3>1, <3>2, <3>4, <3>5, <4>1 DEF Tells, Above
    <3>9. Reads(r)'
      <4> SUFFICES ASSUME Lead.repo = r, Lead.pc \in Reading, NEW i \in DOMAIN long,
                          long[i] \in Waiting(r)', long[i] <= Lead.newest
                   PROVE  long[i] \in ToSet(Lead.items) \/ (Lead.more /\ i > Lead.page * ReleasePage)
        BY <1>1, <2>1 DEF Reads, Lead, Reading
      <4>1. Leader \in InHand(r) /\ Lead.newest < new /\ Lead.newest \in Nat
        BY <3>2, <3>5, LeadFields DEF InHand, Lead
      <4>2. i # 1
        BY <2>1, <3>3, <4>1
      <4>3. i - 1 \in DOMAIN releases[r] /\ long[i] = releases[r][i - 1]
        BY <2>1, <4>2
      <4>4. long[i] \in Waiting(r)
        BY <1>1, <1>4, <3>1, <4>3 DEF ToSet
      <4>5. long[i] \in ToSet(Lead.items) \/ (Lead.more /\ i - 1 > Lead.page * ReleasePage)
        BY <4>3, <4>4 DEF Tells, Reads
      <4>6. PICK start \in Nat : start = Lead.page * ReleasePage
        <5>1. Lead.page \in Nat
          BY LeadFields DEF Locals
        <5> QED
          BY <5>1, PageStart, StarredAssumption
      <4>7. i - 1 > start => i > start
        BY <2>1, <3>3, <4>6
      <4> QED
        BY <4>5, <4>6, <4>7
    <3> QED
      BY <3>6, <3>7, <3>8, <3>9 DEF Tells
  <2> QED
    BY <2>2, <2>3
<1> QED
  BY <1>3, <1>4

-----------------------------------------------------------------------------
(* What a withdrawal lets slide past the page a poll is at is excused.     *)
LEMMA WithdrawTells ==
    ASSUME StarredInv, StarredInv', NEW q \in Repos, NEW old \in ReleaseIds, Withdraw(q, old),
           NEW r \in Repos, Tells(r)
    PROVE  Tells(r)'
<1>1. PICK n \in DOMAIN releases[q] :
         releases[q][n] = old /\ releases' = [releases EXCEPT ![q] = RemoveAt(@, n)]
  BY DEF Withdraw
<1>2. /\ UNCHANGED <<trackerOf, poller, vanished>> /\ news' = news
      /\ releases \in [Repos -> ListsOf(ReleaseIds)] /\ excused \subseteq excused'
  BY DEF Withdraw, StarredInv, StarredTypeOK
<1>3. CASE r # q
  <2>1. releases'[r] = releases[r]
    BY <1>1, <1>2, <1>3
  <2>2. Waiting(r)' \subseteq Waiting(r)
    BY <1>2, <2>1 DEF Waiting
  <2> QED
    BY <1>2, <2>1, <2>2, FewerTells
<1>4. CASE r = q
  <2> DEFINE rest == RemoveAt(releases[r], n)
  <2>1. /\ releases'[r] = rest /\ DOMAIN rest = 1 .. Len(releases[r]) - 1
        /\ \A j \in DOMAIN rest : rest[j] = IF j < n THEN releases[r][j] ELSE releases[r][j + 1]
        /\ ToSet(rest) \subseteq ToSet(releases[r])
    <3>1. releases[r] \in ListsOf(ReleaseIds) /\ releases'[r] = rest /\ n \in DOMAIN releases[r]
      BY <1>1, <1>2, <1>4
    <3>2. /\ DOMAIN rest = 1 .. Len(releases[r]) - 1
          /\ \A j \in DOMAIN rest : rest[j] = IF j < n THEN releases[r][j] ELSE releases[r][j + 1]
          /\ ToSet(rest) = ToSet(releases[r]) \ {releases[r][n]}
      BY <3>1, WithoutOne
    <3> QED
      BY <3>1, <3>2
  <2> HIDE DEF rest
  <2>2. Waiting(r)' \subseteq Waiting(r)
    BY <1>2, <2>1 DEF Waiting
  <2>3. n \in DOMAIN releases[r] /\ Len(releases[r]) \in Nat /\ DOMAIN releases[r] = 1 .. Len(releases[r])
    BY <1>1, <1>4, ReleasesFields
  <2>4. ASSUME NEW i \in DOMAIN rest
        PROVE  \E j \in DOMAIN releases[r] :
                  /\ j = (IF i < n THEN i ELSE i + 1) /\ rest[i] = releases[r][j]
                  /\ \A k \in 1 .. i - 1 : \E l \in 1 .. j - 1 : rest[k] = releases[r][l]
    <3>1. PICK j \in Nat : j = (IF i < n THEN i ELSE i + 1)
      BY <2>1, <2>3, <2>4
    <3>2. j \in DOMAIN releases[r] /\ rest[i] = releases[r][j]
      BY <2>1, <2>3, <2>4, <3>1
    <3>3. ASSUME NEW k \in 1 .. i - 1 PROVE \E l \in 1 .. j - 1 : rest[k] = releases[r][l]
      <4>1. k \in DOMAIN rest
        BY <2>1, <2>3, <2>4, <3>3
      <4>2. CASE k < n
        <5>1. k \in 1 .. j - 1
          BY <2>1, <2>3, <2>4, <3>1, <3>3
        <5> QED
          BY <2>1, <4>1, <4>2, <5>1
      <4>3. CASE ~(k < n)
        <5>1. k + 1 \in 1 .. j - 1
          BY <2>1, <2>3, <2>4, <3>1, <3>3, <4>3
        <5> QED
          BY <2>1, <4>1, <4>3, <5>1
      <4> QED
        BY <4>2, <4>3
    <3> QED
      BY <3>1, <3>2, <3>3
  <2>5. Ordered(r)'
    <3> SUFFICES ASSUME NEW i \in DOMAIN rest, rest[i] \in Waiting(r)', NEW k \in 1 .. i - 1
                 PROVE  rest[k] > rest[i]
      BY <2>1 DEF Ordered
    <3>1. PICK j \in DOMAIN releases[r] :
             /\ rest[i] = releases[r][j]
             /\ \A m \in 1 .. i - 1 : \E l \in 1 .. j - 1 : rest[m] = releases[r][l]
      BY <2>4
    <3> QED
      BY <2>2, <3>1 DEF Tells, Ordered
  <2>6. Above(r, trackerOf[r].cursor)' /\ Above(r, Lead.known[r].cursor)'
    BY <1>2, <2>2 DEF Tells, Above, Lead
  <2>7. ASSUME NEW a \in InHand(r)', Passes(r, a)' PROVE Above(r, poller[a].newest)'
    <3>1. a \in InHand(r) /\ Passes(r, a)
      BY <1>2, <2>7 DEF InHand, Passes
    <3> QED
      BY <1>2, <2>2, <3>1 DEF Tells, Above
  <2>8. Reads(r)'
    <3> SUFFICES ASSUME Lead.repo = r, Lead.pc \in Reading, NEW i \in DOMAIN rest,
                        rest[i] \in Waiting(r)', rest[i] <= Lead.newest
                 PROVE  rest[i] \in ToSet(Lead.items) \/ (Lead.more /\ i > Lead.page * ReleasePage)
      BY <1>2, <2>1 DEF Reads, Lead, Reading
    <3>1. PICK j \in DOMAIN releases[r] :
             j = (IF i < n THEN i ELSE i + 1) /\ rest[i] = releases[r][j]
      BY <2>4
    <3>2. rest[i] \in ToSet(Lead.items) \/ (Lead.more /\ j > Lead.page * ReleasePage)
      BY <2>2, <3>1 DEF Tells, Reads
    <3>3. CASE i < n
      BY <3>1, <3>2, <3>3
    <3>4. CASE ~(i < n)
      <4> SUFFICES ASSUME rest[i] \notin ToSet(Lead.items) PROVE FALSE
        OBVIOUS
      <4>1. n \in 1 .. j - 1
        BY <2>1, <2>3, <3>1, <3>4
      <4>2. rest[i] \in Behind(releases[r], old)
        BY <1>1, <1>4, <3>1, <4>1 DEF Behind
      <4>3. Leader \in InHand(r)
        BY LeadFields DEF InHand, Lead
      <4>4. news[r][rest[i]] = "none" /\ <<r, rest[i]>> \notin excused'
        BY <1>2 DEF Waiting
      <4>5. <<r, rest[i]>> \in Untold(r, Behind(releases[r], old) \ ToSet(poller[Leader].items))
        BY <4>2, <4>4 DEF Untold, Lead
      <4> DEFINE f(a) == Untold(r, Behind(releases[r], old) \ ToSet(poller[a].items))
      <4>6. excused' = excused \cup UNION {f(a) : a \in InHand(r)}
        BY <1>4 DEF Withdraw
      <4>7. <<r, rest[i]>> \in f(Leader)
        BY <4>5
      <4> HIDE DEF f
      <4> QED
        BY <4>3, <4>4, <4>6, <4>7
    <3> QED
      BY <3>3, <3>4
  <2> QED
    BY <2>5, <2>6, <2>7, <2>8 DEF Tells
<1> QED
  BY <1>3, <1>4

LEMMA TellsStep ==
    ASSUME StarredInv, Paired, StarredInv', StarredNext, NEW r \in Repos, Tells(r), AtHead
    PROVE  Tells(r)'
<1>1. ASSUME NEW q \in Repos, NEW x \in ReleaseIds, Publish(q, x) \/ Withdraw(q, x) PROVE Tells(r)'
  BY <1>1, PublishTells, WithdrawTells
<1> QED
  BY <1>1, SameReleasesTell, ReleasesAfter

(* Between event and evaluation a release stays in the hand of the poll,   *)
(* unless the round ends.                                                  *)
LEMMA EvaluateKept ==
    ASSUME StarredInv, Paired, StarredNext, Lead.pc = "evaluate"
    PROVE  EvaluateRelease \/ RoundEnds(Leader) \/ SameHand(Leader)
<1>1. poller \in [Pollers -> Locals] /\ Leader \in Pollers /\ poller[Leader].pc = "evaluate"
  BY LeadFields DEF StarredInv, StarredTypeOK, Lead
<1>2. ASSUME NEW a \in Pollers, NEW to, Goes(a, to), a # Leader PROVE SameHand(Leader)
  BY <1>1, <1>2 DEF Goes, SameHand
<1>3. poller' = poller => SameHand(Leader)
  BY DEF SameHand
<1>4. CASE UserStep
  BY <1>3, <1>4, UserTyped
<1>5. CASE \E r \in Repos : Unstar(r)
  BY <1>1, <1>5, UnstarTyped DEF SameHand
<1>6. CASE WriteStep
  <2>1. PICK a \in Pollers :
           MarkGone(a) \/ MarkEmpty(a) \/ SetCursor(a) \/ Revive(a) \/ WriteFails(a) \/ RoundEnds(a)
    BY <1>6 DEF WriteStep
  <2>2. \E to : Goes(a, to)
    BY <2>1 DEF MarkGone, MarkEmpty, SetCursor, Revive, WriteFails, RoundEnds
  <2>3. a = Leader => RoundEnds(a)
    BY <1>1, <2>1 DEF MarkGone, MarkEmpty, SetCursor, Revive, WriteFails
  <2> QED
    BY <1>2, <2>2, <2>3
<1>7. CASE SyncStep
  <2>1. \E a \in Pollers : a # Leader /\ \E to : Goes(a, to)
    <3>1. ASSUME NEW a \in Pollers, NEW counted \in BOOLEAN, NEW token \in BOOLEAN, SyncBegin(a, counted, token)
          PROVE  a # Leader /\ \E to : Goes(a, to)
      BY <1>1, <3>1 DEF SyncBegin
    <3>2. ASSUME NEW a \in Pollers, ListStars(a) \/ ProbeFails(a) \/ PageDone(a) \/ SyncDone(a)
          PROVE  a # Leader /\ \E to : Goes(a, to)
      BY <1>1, <3>2 DEF ListStars, ProbeFails, PageDone, SyncDone
    <3>3. ASSUME NEW a \in Pollers, Probe(a)
          PROVE  a # Leader /\ \E to : Goes(a, to)
      BY <1>1, <3>3 DEF Probe, Baseline
    <3>4. ASSUME NEW a \in Pollers, NEW r \in Repos,
                 Register(a, r) \/ Recheck(a, r) \/ PassOver(a, r) \/ Disable(a, r)
          PROVE  a # Leader /\ \E to : Goes(a, to)
      BY <1>1, <3>4 DEF Register, Recheck, PassOver, Disable
    <3> QED
      BY <1>7, <3>1, <3>2, <3>3, <3>4 DEF SyncStep
  <2> QED
    BY <1>2, <2>1
<1>8. CASE PollStep
  BY <1>8 DEF PollStep, PollBegin, PollMore, PollDone, Poll, PollFails, RecordRelease,
              RecordReleaseFails, Scanned
<1> QED
  BY <1>4, <1>5, <1>6, <1>7, <1>8, StarredSteps

LEMMA HeardStep ==
    ASSUME StarredInv, Paired, StarredNext, NEW r \in Repos, NEW x \in ReleaseIds, Heard(r, x)
    PROVE  Heard(r, x)'
<1> SUFFICES ASSUME news'[r][x] = "recorded", <<r, x>> \notin excused'
             PROVE  Lead'.pc = "evaluate" /\ Lead'.repo = r /\ Head(Lead'.items) = x
  BY DEF Heard, BeingTold
<1>1. news \in [Repos -> [ReleaseIds -> {"none", "recorded", "told"}]]
  BY DEF StarredInv, StarredTypeOK
<1>2. news[r][x] = "recorded" => Lead.pc = "evaluate" /\ Lead.repo = r /\ Head(Lead.items) = x
  BY NewsAfter DEF Heard, BeingTold
<1>3. CASE RecordRelease
  <2>1. PICK q \in Repos, y \in ReleaseIds :
           /\ news' = [news EXCEPT ![q][y] = "recorded"]
           /\ Lead'.repo = q /\ Head(Lead'.items) = y
    <3>1. Lead.repo \in Repos /\ Lead'.repo = Lead.repo
      BY <1>3, RecordTyped
    <3>2. PICK i \in DOMAIN Lead.items :
             /\ Lead.items[i] \in ReleaseIds /\ Head(Lead'.items) = Lead.items[i]
             /\ news' = [news EXCEPT ![Lead.repo][Lead.items[i]] = "recorded"]
      BY <1>3, RecordTyped
    <3> QED
      BY <3>1, <3>2
  <2>2. Lead.pc = "scan" /\ Lead'.pc = "evaluate"
    BY <1>3, RecordTyped
  <2>3. news'[r][x] = IF r = q /\ x = y THEN "recorded" ELSE news[r][x]
    BY <1>1, <2>1
  <2>4. news[r][x] # "recorded"
    BY <1>2, <2>2
  <2> QED
    BY <2>1, <2>2, <2>3, <2>4
<1>4. CASE EvaluateRelease
  <2>1. PICK q \in Repos, y \in ReleaseIds :
           /\ q = Lead.repo /\ y = Head(Lead.items)
           /\ \/ news' = [news EXCEPT ![q][y] = "told"]
              \/ excused' = excused \cup {<<q, y>>} /\ UNCHANGED news
    BY <1>4, EvaluateTyped
  <2>2. news[r][x] = "recorded"
    BY <1>1, <2>1
  <2>3. r = q /\ x = y
    BY <1>2, <2>1, <2>2
  <2> QED
    BY <1>1, <2>1, <2>3
<1>5. CASE news' = news /\ ~EvaluateRelease
  <2>1. Lead.pc = "evaluate" /\ Lead.repo = r /\ Head(Lead.items) = x
    BY <1>2, <1>5
  <2>2. ~RoundEnds(Leader)
    BY <2>1 DEF RoundEnds, Lead
  <2>3. SameHand(Leader)
    BY <1>5, <2>1, <2>2, EvaluateKept
  <2> QED
    BY <2>1, <2>3 DEF SameHand, Lead
<1> QED
  BY <1>3, <1>4, <1>5, NewsAfter

LEMMA AtHeadStep ==
    ASSUME StarredInv, Paired, StarredInv', StarredNext, AtHead
    PROVE  AtHead'
<1>1. news \in [Repos -> [ReleaseIds -> {"none", "recorded", "told"}]]
  BY DEF StarredInv, StarredTypeOK
<1>2. CASE RecordRelease
  <2>1. PICK q \in Repos, y \in ReleaseIds :
           /\ news' = [news EXCEPT ![q][y] = "recorded"]
           /\ Lead'.repo = q /\ Head(Lead'.items) = y
    <3>1. Lead.repo \in Repos /\ Lead'.repo = Lead.repo
      BY <1>2, RecordTyped
    <3>2. PICK i \in DOMAIN Lead.items :
             /\ Lead.items[i] \in ReleaseIds /\ Head(Lead'.items) = Lead.items[i]
             /\ news' = [news EXCEPT ![Lead.repo][Lead.items[i]] = "recorded"]
      BY <1>2, RecordTyped
    <3> QED
      BY <3>1, <3>2
  <2>2. Lead'.pc = "evaluate"
    BY <1>2, RecordTyped
  <2>3. news'[q][y] = "recorded"
    BY <1>1, <2>1
  <2> QED
    BY <2>1, <2>2, <2>3 DEF AtHead
<1>3. CASE EvaluateRelease
  BY <1>3, EvaluateTyped DEF AtHead
<1>4. CASE Scanned
  BY <1>4, ScannedTyped DEF AtHead
<1>5. CASE PollMore
  BY <1>5, PollMoreTyped DEF AtHead
<1>6. ASSUME NEW r \in Repos, Poll(r) PROVE AtHead'
  BY <1>6, PollTyped DEF AtHead
<1>7. CASE SameHand(Leader) /\ news' = news
  BY <1>7 DEF SameHand, AtHead, Lead
<1>8. Lead'.pc \notin Reading => AtHead'
  BY DEF AtHead, Reading
<1>9. Lead'.repo = NoRepo => Lead'.pc \notin Reading
  <2>1. Sound(Leader, Lead')
    BY LeadFields DEF StarredInv, Lead
  <2> QED
    BY <2>1 DEF Sound, Holding
<1>10. Leader \in Pollers
  BY LeadFields
<1>11. Lead'.pc \in {"cursor", "revive"} => Lead'.pc \notin Reading
  BY DEF Reading
<1> QED
  BY <1>2, <1>3, <1>4, <1>5, <1>6, <1>7, <1>8, <1>9, <1>10, <1>11, HandsAfter, NewsAfter DEF HandAfter, Lead

LEMMA TellBase ==
    ASSUME StarredInit
    PROVE  TellInv
<1>1. PICK s \in StarScenarios :
         /\ stars = s.stars /\ releases = s.releases /\ budget = s.budget
         /\ trackerOf = [r \in Repos |->
                IF r \in s.tracked THEN Tracked(s.past[r]) ELSE NoRow]
         /\ excused = UNION {{r} \X ToSet(s.past[r]) : r \in Repos}
  BY DEF StarredInit
<1>2. ScenarioOK(s)
  BY StarredAssumption
<1>3. /\ releases \in [Repos -> ListsOf(ReleaseIds)] /\ s.past \in [Repos -> ListsOf(ReleaseIds)]
      /\ \A r \in Repos : \A i \in DOMAIN releases[r] :
            releases[r][i] \notin ToSet(s.past[r]) =>
               /\ s.past[r] # <<>> => releases[r][i] > Head(s.past[r])
               /\ \A k \in 1 .. i - 1 : releases[r][k] > releases[r][i]
  BY <1>1, <1>2 DEF ScenarioOK
<1>4. /\ news = [r \in Repos |-> [x \in ReleaseIds |-> "none"]]
      /\ poller = [a \in Pollers |-> AtRest] /\ Leader \in Pollers
  BY LeadFields DEF StarredInit
<1>5. Lead = AtRest
  BY <1>4 DEF Lead
<1>6. ASSUME NEW r \in Repos PROVE Tells(r)
  <2>1. ASSUME NEW i \in DOMAIN releases[r], releases[r][i] \in Waiting(r)
        PROVE  releases[r][i] \notin ToSet(s.past[r])
    <3> DEFINE f(q) == {q} \X ToSet(s.past[q])
    <3>1. excused = UNION {f(q) : q \in Repos}
      BY <1>1
    <3>2. releases[r][i] \in ToSet(s.past[r]) => <<r, releases[r][i]>> \in f(r)
      OBVIOUS
    <3> HIDE DEF f
    <3> QED
      BY <2>1, <3>1, <3>2 DEF Waiting
  <2>2. Ordered(r)
    BY <1>3, <2>1 DEF Ordered
  <2>3. ASSUME NEW x \in Waiting(r)
        PROVE  x > 0 /\ x > trackerOf[r].cursor
    <3>1. StarredInv
      BY StarredBase
    <3>2. x > 0 /\ \E i \in DOMAIN releases[r] : releases[r][i] = x
      BY <3>1, WaitingFields
    <3>3. s.past[r] # <<>> => x > Head(s.past[r])
      BY <1>3, <2>1, <3>2
    <3>4. NoRow.cursor = 0
      BY DEF NoRow
    <3>5. Tracked(s.past[r]).cursor = IF s.past[r] = <<>> THEN 0 ELSE Head(s.past[r])
      BY <1>3, TrackedFields
    <3> QED
      BY <1>1, <3>2, <3>3, <3>4, <3>5
  <2>4. Lead.known[r].cursor = 0
    BY <1>5, RestFields DEF NoRow
  <2>5. InHand(r) = {}
    BY <1>4, RestFields, StarredAssumption DEF InHand
  <2>6. Reads(r)
    BY <1>5, RestFields DEF Reads, Reading
  <2> QED
    BY <2>2, <2>3, <2>4, <2>5, <2>6 DEF Tells, Above
<1>7. \A r \in Repos : \A x \in ReleaseIds : Heard(r, x)
  BY <1>4 DEF Heard
<1>8. AtHead
  BY <1>5, RestFields DEF AtHead
<1> QED
  BY <1>6, <1>7, <1>8 DEF TellInv

LEMMA TellStep ==
    ASSUME StarredInv, Paired, TellInv, [StarredNext]_starredVars
    PROVE  TellInv'
<1>0. StarredInv'
  BY StarredStep
<1>1. CASE StarredNext
  BY <1>0, <1>1, TellsStep, HeardStep, AtHeadStep DEF TellInv
<1>2. CASE UNCHANGED starredVars
  <2>1. UNCHANGED <<releases, vanished, trackerOf, news, poller, excused>>
    BY <1>2, Stutters
  <2>2. ASSUME NEW r \in Repos PROVE Tells(r)'
    <3>1. Waiting(r)' \subseteq Waiting(r)
      BY <2>1 DEF Waiting
    <3> QED
      BY <2>1, <3>1, FewerTells DEF TellInv
  <2>3. AtHead' /\ \A r \in Repos : \A x \in ReleaseIds : Heard(r, x)'
    BY <2>1 DEF TellInv, AtHead, Heard, BeingTold, Lead
  <2> QED
    BY <2>2, <2>3 DEF TellInv
<1> QED
  BY <1>1, <1>2

LEMMA ToldAtLast ==
    ASSUME StarredInv, Paired, TellInv
    PROVE  ReleasesTold
<1> SUFFICES ASSUME NEW r \in Repos, NEW x \in ToSet(releases[r]) \ Prereleases,
                    x <= trackerOf[r].cursor \/ trackerOf[r].etag = FirstPage(r),
                    news[r][x] # "told", <<r, x>> \notin excused, ~BeingTold(r, x)
             PROVE  FALSE
  BY DEF ReleasesTold
<1>1. x \in ReleaseIds
  BY ReleasesFields
<1>2. news[r][x] = "none"
  BY <1>1 DEF TellInv, Heard, StarredInv, StarredTypeOK
<1>3. x \in Waiting(r)
  BY <1>2 DEF Waiting
<1>4. x > trackerOf[r].cursor /\ trackerOf[r].cursor \in Nat /\ x \in Nat
  BY <1>3, CursorsAreNumbers DEF TellInv, Tells, Above
<1>5. trackerOf[r].etag = FirstPage(r)
  BY <1>4
<1>6. PICK i \in DOMAIN releases[r] : releases[r][i] = x
  BY <1>3, WaitingFields
<1>7. DOMAIN releases[r] = 1 .. Len(releases[r]) /\ Len(releases[r]) \in Nat
  BY ReleasesFields
<1>8. releases[r] # <<>>
  BY <1>6
<1>9. trackerOf[r].cursor = releases[r][1]
  BY <1>5, <1>8, FirstPageFields DEF Paired, RowPair
<1>10. i # 1
  BY <1>4, <1>6, <1>9
<1>11. 1 \in 1 .. i - 1 /\ Ordered(r)
  BY <1>7, <1>10 DEF TellInv, Tells
<1>12. releases[r][1] > x
  BY <1>3, <1>6, <1>11 DEF Ordered
<1> QED
  BY <1>4, <1>9, <1>12

(* A release that the cursor or the ETag of a tracker has passed has been  *)
(* told or is being told: no page, limit, error, withdrawal or second      *)
(* synchronisation loses one (pollOneRepo, createReleaseEvent).  Excused   *)
(* are what a baseline passed over, what was recorded but not evaluated    *)
(* when a round failed, and what GitHub listed out of order or moved while *)
(* it was asked.                                                           *)
THEOREM EveryReleaseTold == StarredSpec => []ReleasesTold
<1> DEFINE Inv == StarredInv /\ Paired /\ TellInv
<1>1. StarredInit => Inv
  BY StarredBase, TellBase
<1>2. Inv /\ [StarredNext]_starredVars => Inv'
  BY StarredStep, PairedStep, TellStep
<1>3. Inv => ReleasesTold
  BY ToldAtLast
<1> QED
  BY <1>1, <1>2, <1>3, PTL DEF StarredSpec

=============================================================================
