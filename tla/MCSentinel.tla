----------------------------- MODULE MCSentinel -----------------------------
(* Sentinel with three sentinels, a master and two replicas. *)
EXTENDS Sentinel, TLC

CONSTANTS s1, s2, s3, m, a, b

NameSymmetry == Permutations({s1, s2, s3}) \union Permutations({a, b})
=============================================================================
