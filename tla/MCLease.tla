------------------------------- MODULE MCLease -------------------------------
(* A small instance of the task lease for TLC; MCOutbox holds another. *)
EXTENDS LeaseRunner, TLC

CONSTANTS r1, r2

=============================================================================
