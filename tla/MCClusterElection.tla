-------------------------- MODULE MCClusterElection --------------------------
(* ClusterElection with three masters, one of which has failed, and two replicas of it. *)
EXTENDS ClusterElection, TLC

CONSTANTS v1, v2, r1, r2

NodeSymmetry == Permutations(Voters) \union Permutations(Replicas)
=============================================================================
