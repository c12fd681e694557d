------------------------------ MODULE MCOutbox ------------------------------
(* Small instances, for TLC, of what replicas hold under a lease: the rows  *)
(* of the outbox and a scheduled task.  The two share no state, so `part'   *)
(* is explored by itself while the other keeps its initial state.           *)
EXTENDS Outbox, LeaseRunner, TLC

CONSTANTS r1, w1, w2, chA, p1, p2

VARIABLE part

(* One row is a release announcement of the unstarred repository.          *)
OneRow == [r \in {r1} |-> chA]

HoldersInit == part \in {"outbox", "lease"} /\ Init /\ LeaseInit

HoldersNext ==
    /\ UNCHANGED part
    /\ \/ part = "outbox" /\ Next /\ UNCHANGED leaseVars
       \/ part = "lease" /\ LeaseNext /\ UNCHANGED vars

(* The fairness of each part, asked for while it moves.                     *)
HoldersFairness ==
    /\ \A w \in Workers : WF_vars(part = "outbox" /\ WorkerStep(w))
    /\ \A r \in Rows :
        /\ WF_vars(part = "outbox" /\ LeaseRunsOut(r))
        /\ WF_vars(part = "outbox" /\ BackoffElapses(r))
    /\ WF_leaseVars(part = "lease" /\ Tick)
    /\ \A p \in Replicas :
        /\ WF_leaseVars(part = "lease" /\ Start(p))
        /\ WF_leaseVars(part = "lease" /\ HeartbeatStep(p))
        /\ WF_leaseVars(part = "lease" /\ Return(p))
        /\ WF_leaseVars(part = "lease" /\ EndStep(p))

HoldersSpec ==
    HoldersInit /\ [][HoldersNext]_<<part, vars, leaseVars>> /\ HoldersFairness
=============================================================================
