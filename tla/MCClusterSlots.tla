--------------------------- MODULE MCClusterSlots ---------------------------
(* ClusterSlots with three masters and a replica of the first. *)
EXTENDS ClusterSlots

\* Nodes 1, 2 and 3 serve one slot each, with the epochs c; 4 is a replica of 1.
Start(c) ==
  [cur |-> Max({c[n] : n \in DOMAIN c}), voted |-> 0,
   conf |-> [n \in Nodes |-> IF n \in DOMAIN c THEN c[n] ELSE 0],
   slaveof |-> [n \in Nodes |-> IF n \in DOMAIN c THEN NULL ELSE 1],
   slots |-> [s \in Slots |-> s], importing |-> {}]

Situation(c, m, t, r) ==
  [start |-> Start(c), messages |-> m, takeovers |-> t, resharding |-> r]

\* Repeated elections and takeovers; elections while heartbeats overtake each other,
\* without and with masters whose epochs collide; and such a collision together with
\* takeovers, and with resharding, also between these two masters.
MainSituations ==
  {Situation(<<0, 1, 2>>, 1, TRUE, {}),
   Situation(<<1, 2, 3>>, 2, FALSE, {}), Situation(<<0, 3, 3>>, 2, FALSE, {}),
   Situation(<<0, 3, 3>>, 1, TRUE, {}), Situation(<<0, 3, 3>>, 1, FALSE, {<<2, 1>>}),
   Situation(<<0, 3, 3>>, 1, FALSE, {<<2, 3>>})}
=============================================================================
