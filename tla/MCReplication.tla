--------------------------- MODULE MCReplication ---------------------------
(* Replication with three servers. *)
EXTENDS Replication

\* Two replicas of one master, or a chain.
Star == [n \in Nodes |-> IF n = 1 THEN NULL ELSE 1]
Chain == [n \in Nodes |-> IF n = 1 THEN NULL ELSE n - 1]

Situation(p, r, s, m) == [pings |-> p, roles |-> r, restarts |-> s, master |-> m]

\* REPLICAOF commands without PINGs, and PINGs without REPLICAOF commands.
RolesOrPings == {Situation(FALSE, 2, FALSE, Star), Situation(TRUE, 0, TRUE, Chain)}
=============================================================================
