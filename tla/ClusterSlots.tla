---------------------------- MODULE ClusterSlots ----------------------------
(***************************************************************************)
(* Who serves which slot: the configuration that the nodes of a cluster    *)
(* spread over the cluster bus (cluster.c).                                *)
(*                                                                         *)
(* Every node has its own view of all nodes: their configuration epochs,   *)
(* their roles and their slots.  A heartbeat carries the sender's; whoever *)
(* claims a slot with the greater epoch has it, and a node that sees an    *)
(* outdated claim answers with an UPDATE.  Replicas replace their master   *)
(* by an election, whose inside is the subject of ClusterElection, or by a *)
(* takeover without one.                                                   *)
(***************************************************************************)
EXTENDS Naturals, FiniteSets, FiniteSetsExt

CONSTANTS
  Nodes,      \* node names, ordered as memcmp orders them
  Slots,      \* the hash slots
  NULL,
  Situations, \* what may happen, see below
  MaxEpoch    \* bound of the model: the highest epoch

Epochs == 0..MaxEpoch
NodeOrNull == Nodes \union {NULL}

\* server.cluster as one node sees it: currentEpoch, lastVoteEpoch, the configEpoch
\* and slaveof of every node (a node without is a master), slots, and the slots with
\* importing_slots_from.
Views == [cur : Epochs, voted : Epochs, conf : [Nodes -> Epochs],
          slaveof : [Nodes -> NodeOrNull], slots : [Slots -> NodeOrNull], importing : SUBSET Slots]

\* What clusterLoadConfig leaves behind: currentEpoch is not behind any configEpoch, and
\* replicas have no slots.
StartViews ==
  {v \in Views : \A n \in Nodes :
     v.conf[n] <= v.cur /\ (v.slaveof[n] # NULL => \A s \in Slots : v.slots[s] # n)}

\* A situation says which view all nodes start with and whether the administrator
\* orders takeovers, which nodes are to import which slots, and bounds the heartbeats
\* under way at a time.
SituationShape == [start : StartViews, messages : Nat, takeovers : BOOLEAN,
                   resharding : SUBSET (Nodes \X Slots)]

\* Headers, heartbeats (PING and PONG) and UPDATE messages.
Headers == [from : Nodes, cur : Epochs, conf : Epochs, slaveof : NodeOrNull, slots : SUBSET Slots]
Heartbeats == [type : {"heartbeat"}, to : Nodes, hdr : Headers]
UpdateMessages == [type : {"update"}, to : Nodes, hdr : Headers, node : Nodes, conf : Epochs,
                   slots : SUBSET Slots]

ASSUME SlotsAssumption ==
  /\ Nodes \subseteq Nat /\ Slots \subseteq Nat /\ NULL \notin Nodes
  /\ \A s \in Situations : s \in SituationShape
  /\ MaxEpoch \in Nat

VARIABLES
  view,       \* the view of every node
  net,        \* messages under way
  situation   \* the situation

vars == <<view, net, situation>>

Init ==
  /\ situation \in Situations
  /\ view = [i \in Nodes |-> situation.start]
  /\ net = {}

-----------------------------------------------------------------------------
(* Reading a view. *)

IsMaster(v, n) == v.slaveof[n] = NULL
MasterOf(v, n) == IF IsMaster(v, n) THEN n ELSE v.slaveof[n]
Served(v, n) == {s \in Slots : v.slots[s] = n}

\* The masters that serve slots; server.cluster->size is their number.
Electorate(v) == {n \in Nodes : IsMaster(v, n) /\ Served(v, n) # {}}

\* clusterGetMaxEpoch.
MaxKnownEpoch(v) == Max({v.cur} \union {v.conf[n] : n \in Nodes})

\* clusterBuildMessageHdr: a replica sends the epoch and the slots of its master.
Header(i, v) ==
  LET m == MasterOf(v, i) IN
  [from |-> i, cur |-> v.cur, conf |-> v.conf[m], slaveof |-> v.slaveof[i], slots |-> Served(v, m)]

-----------------------------------------------------------------------------
(* Receiving, as functions on the view v of node i. *)

AtLeast(x, y) == IF x > y THEN x ELSE y

\* Every message: the epochs in the header.
HearEpochs(v, h) ==
  [v EXCEPT !.cur = AtLeast(@, h.cur), !.conf[h.from] = AtLeast(@, h.conf)]

\* clusterSetNodeAsMaster, or a master that has turned into a replica.
HearRole(v, h) ==
  [v EXCEPT !.slaveof[h.from] = h.slaveof,
            !.slots = IF h.slaveof # NULL /\ IsMaster(v, h.from)
                      THEN [s \in Slots |-> IF @[s] = h.from THEN NULL ELSE @[s]] ELSE @]

\* A claim is accepted for a slot of nobody, or of an owner with a smaller epoch.
Accepts(v, s, e) == v.slots[s] = NULL \/ v.conf[v.slots[s]] < e

\* curmaster->numslots == 0.
BugLeftWithout(v, m) == TRUE
LeftWithout(v, m) == Served(v, m) = {}

\* clusterUpdateSlotsConfigWith: node n claims slots with epoch e.  Whoever loses
\* the last slot of its master, or its own, becomes a replica of n.
UpdateSlots(i, v, n, e, claimed) ==
  LET curmaster == MasterOf(v, i)
      taken == {s \in claimed : v.slots[s] # n /\ s \notin v.importing /\ Accepts(v, s, e)}
      after == [v EXCEPT !.slots = [s \in Slots |-> IF s \in taken THEN n ELSE @[s]]]
      replaced == (\E s \in taken : v.slots[s] = curmaster) /\ LeftWithout(after, curmaster)
  IN IF n = i THEN v
     ELSE IF replaced THEN [after EXCEPT !.slaveof[i] = n, !.importing = IF IsMaster(v, i) THEN {} ELSE @]
     ELSE after

\* clusterHandleConfigEpochCollision: of two masters with one epoch, the one with
\* the smaller name takes a new one.
BugResolves(i, n) == FALSE
Resolves(i, n) == n > i

Collide(i, v, h) ==
  IF /\ IsMaster(v, i) /\ IsMaster(v, h.from) /\ h.conf = v.conf[i]
     /\ v.conf[h.from] = v.conf[i] /\ Resolves(i, h.from)
  THEN [v EXCEPT !.cur = @ + 1, !.conf[i] = v.cur + 1]
  ELSE v

\* The sender claims other slots than this node thinks it has.
Dirty(v, h) == Served(v, MasterOf(v, h.from)) # h.slots

\* The owner a sender with an outdated claim is told about: that of its first slot
\* that has moved to a greater epoch.
Outdated(v, h) ==
  {s \in h.slots : v.slots[s] \notin {h.from, NULL} /\ v.conf[v.slots[s]] > h.conf}

\* PING and PONG: the view after one, and before the collision is handled.
Told(i, h) ==
  LET v == HearRole(HearEpochs(view[i], h), h)
  IN IF IsMaster(v, h.from) /\ Dirty(v, h) THEN UpdateSlots(i, v, h.from, h.conf, h.slots) ELSE v

Heard(i, h) == Collide(i, Told(i, h), h)

\* clusterSendUpdate, decided with the view after the slots were updated but on
\* the comparison of before.
Updates(i, h) ==
  LET before == HearRole(HearEpochs(view[i], h), h)
      v == Told(i, h)
      o == v.slots[Min(Outdated(v, h))]
  IN IF Dirty(before, h) /\ Outdated(v, h) # {}
     THEN {[type |-> "update", to |-> h.from, hdr |-> Header(i, v), node |-> o, conf |-> v.conf[o],
            slots |-> Served(v, o)]}
     ELSE {}

\* UPDATE: the configuration of a node, from a third one.
Known(v, m) == v.conf[m.node] >= m.conf

Updated(i, m) ==
  LET v == HearEpochs(view[i], m.hdr)
      w == [v EXCEPT !.slaveof[m.node] = NULL, !.conf[m.node] = m.conf]
  IN IF Known(v, m) THEN v ELSE UpdateSlots(i, w, m.node, m.conf, m.slots)

-----------------------------------------------------------------------------
(* The actions. *)

\* clusterSendPing.
SendHeartbeat(i, j) ==
  /\ i # j /\ Cardinality(net) < situation.messages
  /\ net' = net \union {[type |-> "heartbeat", to |-> j, hdr |-> Header(i, view[i])]}
  /\ UNCHANGED view

\* clusterProcessPacket.
Receive(m) ==
  LET i == m.to IN
  \/ /\ m.type = "heartbeat"
     /\ Heard(i, m.hdr).cur <= MaxEpoch
     /\ view' = [view EXCEPT ![i] = Heard(i, m.hdr)]
     /\ net' = (net \ {m}) \union Updates(i, m.hdr)
  \/ /\ m.type = "update"
     /\ view' = [view EXCEPT ![i] = Updated(i, m)]
     /\ net' = net \ {m}

\* A connection breaks and a message is lost.
Lose(m) == net' = net \ {m} /\ UNCHANGED view

\* clusterFailoverReplaceYourMaster, with the new epoch.
Replace(r, v, e) ==
  LET m == v.slaveof[r] IN
  [v EXCEPT !.slaveof[r] = NULL, !.conf[r] = e, !.cur = AtLeast(@, e),
            !.slots = [s \in Slots |-> IF @[s] = m THEN r ELSE @[s]]]

\* Voter n knows no newer owner of the slots that replica r claims.
SlotsNotNewer(n, h) ==
  \A s \in h.slots : view[n].slots[s] = NULL \/ view[n].conf[view[n].slots[s]] <= h.conf

\* clusterSendFailoverAuthIfNeeded, but for the failure of the master, which this
\* module leaves open (a forced failover does without).
WouldVote(n, h, e) ==
  LET v == HearEpochs(view[n], h) IN
  /\ IsMaster(v, n) /\ Served(v, n) # {}
  /\ v.cur <= e /\ v.voted # e
  /\ ~IsMaster(v, h.from)
  /\ SlotsNotNewer(n, h)

\* An election is won: a majority of the masters, as replica r knows them, votes.
Failover(r) ==
  LET v == view[r]
      e == v.cur + 1
      h == Header(r, v)
  IN
  /\ ~IsMaster(v, r) /\ Served(v, v.slaveof[r]) # {} /\ e <= MaxEpoch
  /\ \E Q \in SUBSET {n \in Electorate(v) \ {r} : WouldVote(n, h, e)} :
       /\ Cardinality(Q) = Cardinality(Electorate(v)) \div 2 + 1
       /\ view' = [n \in Nodes |->
            IF n = r THEN Replace(r, v, AtLeast(v.conf[r], e))
            ELSE IF n \in Q THEN [HearEpochs(view[n], h) EXCEPT !.cur = e, !.voted = e]
            ELSE view[n]]
  /\ UNCHANGED net

\* clusterBumpConfigEpochWithoutConsensus.
Bumped(i, v) ==
  IF v.conf[i] = 0 \/ v.conf[i] # MaxKnownEpoch(v) THEN v.cur + 1 ELSE v.conf[i]

\* CLUSTER FAILOVER TAKEOVER: no election.
Takeover(r) ==
  LET v == view[r] IN
  /\ situation.takeovers
  /\ ~IsMaster(v, r) /\ Bumped(r, v) <= MaxEpoch
  /\ view' = [view EXCEPT ![r] = Replace(r, v, Bumped(r, v))]
  /\ UNCHANGED net

\* CLUSTER SETSLOT s IMPORTING.
SetSlotImporting(i, s) ==
  /\ <<i, s>> \in situation.resharding
  /\ IsMaster(view[i], i) /\ view[i].slots[s] # i
  /\ view' = [view EXCEPT ![i].importing = @ \union {s}]
  /\ UNCHANGED net

\* CLUSTER SETSLOT s STABLE.
SetSlotStable(i, s) ==
  /\ IsMaster(view[i], i) /\ s \in view[i].importing
  /\ view' = [view EXCEPT ![i].importing = @ \ {s}]
  /\ UNCHANGED net

\* CLUSTER SETSLOT s NODE, on the importing node, once the keys have been moved.
SetSlotNode(i, s) ==
  LET e == Bumped(i, view[i]) IN
  /\ IsMaster(view[i], i) /\ s \in view[i].importing /\ e <= MaxEpoch
  /\ view' = [view EXCEPT ![i].importing = @ \ {s}, ![i].slots[s] = i,
                          ![i].conf[i] = e, ![i].cur = AtLeast(@, e)]
  /\ UNCHANGED net

Next ==
  /\ \/ \E i, j \in Nodes : SendHeartbeat(i, j)
     \/ \E m \in net : Receive(m) \/ Lose(m)
     \/ \E r \in Nodes : Failover(r) \/ Takeover(r)
     \/ \E i \in Nodes, s \in Slots : SetSlotImporting(i, s) \/ SetSlotStable(i, s) \/ SetSlotNode(i, s)
  /\ UNCHANGED situation

Spec == Init /\ [][Next]_vars

-----------------------------------------------------------------------------
(* Safety. *)

\* Every variable has its type.
TypeOK ==
  /\ view \in [Nodes -> Views]
  /\ net \subseteq Heartbeats \union UpdateMessages
  /\ situation \in SituationShape

\* No message can change a view any more.
Stable ==
  /\ net = {} /\ \A i \in Nodes : view[i].importing = {}
  /\ \A i \in Nodes, j \in Nodes : i # j => Heard(i, Header(j, view[j])) = view[i] /\ Updates(i, Header(j, view[j])) = {}

\* Once heartbeats change nothing, all nodes agree who serves which slot, and that
\* each is served by a node that knows it.  This is about masters that start with one
\* slot: one that gives away a slot of several, and raises its epoch by importing
\* another, may leave the first with nobody (README).
StableAgrees ==
  Stable => \A s \in Slots : \A i, j \in Nodes :
    /\ view[i].slots[s] = view[j].slots[s]
    /\ view[i].slots[s] # NULL

\* Once heartbeats change nothing, different masters have different epochs, however
\* they came by them: what clusterHandleConfigEpochCollision is for.
StableEpochsDiffer ==
  Stable => \A i, j \in Nodes :
    i # j /\ IsMaster(view[i], i) /\ IsMaster(view[j], j) => view[i].conf[i] # view[j].conf[j]

\* Once heartbeats change nothing, every replica follows a master, not another
\* replica: "we are a slave and our master is left without slots. We need to
\* replicate to the new slots owner" (clusterUpdateSlotsConfigWith). This one does
\* not hold with four nodes (README): it is stated for reference and in no run.
StableFollows ==
  Stable => \A i \in Nodes : ~IsMaster(view[i], i) => IsMaster(view[i], view[i].slaveof[i])

\* A replica serves no slots in its own view: clusterSetMaster's assertion holds.
ReplicaServesNothing ==
  \A i \in Nodes : ~IsMaster(view[i], i) => Served(view[i], i) = {}

\* Epoch e, which some node or message has of node n, is not ahead of n: neither of its
\* currentEpoch nor, while it is a master, of its configEpoch.  A replica sends its
\* master's, and makes up a greater one when it replaces it.
Reached(n, e) ==
  /\ e <= view[n].cur
  /\ IsMaster(view[n], n) => e <= view[n].conf[n]

\* An inductive invariant that holds ReplicaServesNothing and StableEpochsDiffer: nobody
\* is told about itself, and no epoch is ahead of the node it belongs to.
IInv ==
  /\ TypeOK /\ ReplicaServesNothing
  /\ \A i, n \in Nodes : view[i].conf[n] <= view[i].cur /\ Reached(n, view[i].conf[n])
  /\ \A m \in net :
       /\ m.hdr.from # m.to /\ m.hdr.conf <= m.hdr.cur /\ Reached(m.hdr.from, m.hdr.conf)
       /\ m.type = "update" => m.node # m.to /\ m.conf <= m.hdr.cur /\ Reached(m.node, m.conf)
=============================================================================
