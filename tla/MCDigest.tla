------------------------------- MODULE MCDigest -------------------------------
(* Small instances of the periodic reports for TLC. *)
EXTENDS Digest, TLC

CONSTANTS a, b, chA, chB

ReplicaSymmetry == Permutations(Replicas)
=============================================================================
