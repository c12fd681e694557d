------------------------------ MODULE TaskLease ------------------------------
(***************************************************************************)
(* What a lease promises to whoever runs a task under it, without rows,    *)
(* tokens, clocks or heartbeats: a free lease is taken, one that is held   *)
(* is not; a worker that stops may leave it behind or give it back; it     *)
(* becomes free under a worker that still runs only by a lag, which is     *)
(* counted.  Until there is one, only the holder runs.                     *)
(***************************************************************************)
EXTENDS Naturals

CONSTANTS
    Workers,  \* who may run the task
    None      \* no holder

VARIABLES
    holder,   \* who holds the lease, or None
    running,  \* the workers that run the task
    late      \* lags so far

vars == <<holder, running, late>>

Init ==
    /\ holder = None
    /\ running = {}
    /\ late = 0

(* Only a free lease is taken, or one's own again; whoever does not learn  *)
(* that it holds the lease does not run.                                   *)
Take(w) ==
    /\ w \notin running
    /\ holder \in {None, w}
    /\ holder' = w
    /\ running' \in {running, running \cup {w}}
    /\ UNCHANGED late

Stop(w) ==
    /\ w \in running
    /\ running' = running \ {w}
    /\ holder' = holder \/ (holder = w /\ holder' = None)
    /\ UNCHANGED late

(* Given back after the run, or expired.                                   *)
Free ==
    /\ holder \notin running
    /\ holder' = None
    /\ UNCHANGED <<running, late>>

(* The holder's sign of life comes too late: the lease may end under it.   *)
Lag ==
    /\ holder' \in {holder, None}
    /\ late' = late + 1
    /\ UNCHANGED running

Next == Lag \/ Free \/ \E w \in Workers : Take(w) \/ Stop(w)

Spec == Init /\ [][Next]_vars

(* Nobody runs the task but the holder, unless there was a lag.            *)
OnlyHolderRuns == late = 0 => running \subseteq {holder}
=============================================================================
