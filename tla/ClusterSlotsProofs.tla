------------------------- MODULE ClusterSlotsProofs -------------------------
(***************************************************************************)
(* Proofs about ClusterSlots, for every number of nodes, slots, epochs and *)
(* messages: a replica serves no slots in its own view, and once           *)
(* heartbeats change nothing, different masters have different epochs.     *)
(***************************************************************************)
EXTENDS ClusterSlots, WellFoundedInduction, TLAPS

-----------------------------------------------------------------------------
(* What the functions on views do. *)

\* NULL is no node.
LEMMA NullFacts == NULL \notin Nodes /\ NULL \in NodeOrNull /\ Nodes \subseteq NodeOrNull
BY Zenon, SlotsAssumption DEF NodeOrNull

\* AtLeast is the greater of two epochs.
LEMMA AtLeastFacts ==
  ASSUME NEW x \in Epochs, NEW y \in Epochs
  PROVE  /\ AtLeast(x, y) \in Epochs /\ AtLeast(x, y) \in {x, y}
         /\ AtLeast(x, y) >= x /\ AtLeast(x, y) >= y
BY SlotsAssumption DEF AtLeast, Epochs

\* Every message raises epochs, of its sender only, and changes nothing else.
LEMMA HearEpochsFacts ==
  ASSUME NEW v \in Views, NEW h \in Headers
  PROVE  LET w == HearEpochs(v, h) IN
         /\ w \in Views /\ w.slaveof = v.slaveof /\ w.slots = v.slots /\ w.importing = v.importing
         /\ w.cur >= v.cur /\ w.cur >= h.cur
         /\ w.conf[h.from] \in {v.conf[h.from], h.conf} /\ w.conf[h.from] >= h.conf
         /\ w.conf[h.from] >= v.conf[h.from]
         /\ \A n \in Nodes \ {h.from} : w.conf[n] = v.conf[n]
<1> DEFINE w == HearEpochs(v, h)
           c == AtLeast(v.cur, h.cur)
           e == AtLeast(v.conf[h.from], h.conf)
<1>1. /\ v.cur \in Epochs /\ v.conf \in [Nodes -> Epochs] /\ h.from \in Nodes
      /\ h.cur \in Epochs /\ h.conf \in Epochs
  BY Zenon DEF Views, Headers
<1>2. /\ c \in Epochs /\ c >= v.cur /\ c >= h.cur
      /\ e \in Epochs /\ e \in {v.conf[h.from], h.conf} /\ e >= h.conf /\ e >= v.conf[h.from]
  BY Zenon, <1>1, AtLeastFacts
<1>3. w = [v EXCEPT !.cur = c, !.conf = [v.conf EXCEPT ![h.from] = e]]
  BY Zenon DEF HearEpochs
<1> HIDE DEF c, e, w
<1>4. [v.conf EXCEPT ![h.from] = e] \in [Nodes -> Epochs]
  BY Zenon, <1>1, <1>2
<1>5. w \in Views
  BY Zenon, <1>2, <1>3, <1>4 DEF Views
<1>6. /\ w.slaveof = v.slaveof /\ w.slots = v.slots /\ w.importing = v.importing
      /\ w.cur = c /\ w.conf = [v.conf EXCEPT ![h.from] = e]
  BY Zenon, <1>3 DEF Views
<1> QED BY Zenon, <1>1, <1>2, <1>5, <1>6 DEF w

\* A role that is heard changes slaveof of the sender, and takes slots only from it.
LEMMA HearRoleFacts ==
  ASSUME NEW v \in Views, NEW h \in Headers
  PROVE  LET w == HearRole(v, h) IN
         /\ w \in Views /\ w.cur = v.cur /\ w.conf = v.conf /\ w.importing = v.importing
         /\ w.slaveof[h.from] = h.slaveof
         /\ \A n \in Nodes \ {h.from} : w.slaveof[n] = v.slaveof[n]
         /\ \A s \in Slots : w.slots[s] \in {NULL, v.slots[s]}
<1> DEFINE w == HearRole(v, h)
           r == [v.slaveof EXCEPT ![h.from] = h.slaveof]
           g == IF h.slaveof # NULL /\ IsMaster(v, h.from)
                THEN [s \in Slots |-> IF v.slots[s] = h.from THEN NULL ELSE v.slots[s]] ELSE v.slots
<1>1. /\ v.slaveof \in [Nodes -> NodeOrNull] /\ v.slots \in [Slots -> NodeOrNull]
      /\ h.from \in Nodes /\ h.slaveof \in NodeOrNull
  BY Zenon DEF Views, Headers
<1>2. r \in [Nodes -> NodeOrNull] /\ g \in [Slots -> NodeOrNull]
      /\ \A s \in Slots : g[s] \in {NULL, v.slots[s]}
  BY Zenon, <1>1, NullFacts
<1>3. w = [v EXCEPT !.slaveof = r, !.slots = g]
  BY Zenon DEF HearRole
<1>4. r[h.from] = h.slaveof /\ \A n \in Nodes \ {h.from} : r[n] = v.slaveof[n]
  BY Zenon, <1>1
<1> HIDE DEF r, g, w
<1>5. w \in Views
  BY Zenon, <1>2, <1>3 DEF Views
<1>6. /\ w.cur = v.cur /\ w.conf = v.conf /\ w.importing = v.importing
      /\ w.slaveof = r /\ w.slots = g
  BY Zenon, <1>3 DEF Views
<1> QED BY Zenon, <1>2, <1>4, <1>5, <1>6 DEF w

\* Claims of n change nobody's epochs, and no role but that of i, who may turn into a
\* replica of n when it has no slots.
LEMMA UpdateSlotsFacts ==
  ASSUME NEW i \in Nodes, NEW v \in Views, NEW n \in Nodes, NEW e \in Epochs,
         NEW claimed \in SUBSET Slots
  PROVE  LET w == UpdateSlots(i, v, n, e, claimed) IN
         /\ w \in Views /\ w.cur = v.cur /\ w.conf = v.conf
         /\ \A j \in Nodes \ {i} : w.slaveof[j] = v.slaveof[j]
         /\ w.slaveof[i] = v.slaveof[i] \/ (n # i /\ w.slaveof[i] = n)
         /\ \A s \in Slots : w.slots[s] = v.slots[s] \/ (n # i /\ w.slots[s] = n)
         /\ IsMaster(v, i) /\ ~IsMaster(w, i) => Served(w, i) = {}
<1> DEFINE w == UpdateSlots(i, v, n, e, claimed)
           curmaster == MasterOf(v, i)
           taken == {s \in claimed : v.slots[s] # n /\ s \notin v.importing /\ Accepts(v, s, e)}
           g == [s \in Slots |-> IF s \in taken THEN n ELSE v.slots[s]]
           after == [v EXCEPT !.slots = g]
           replaced == (\E s \in taken : v.slots[s] = curmaster) /\ LeftWithout(after, curmaster)
           imp == IF IsMaster(v, i) THEN {} ELSE v.importing
           lost == [after EXCEPT !.slaveof[i] = n, !.importing = imp]
<1>1. /\ v.slaveof \in [Nodes -> NodeOrNull] /\ v.slots \in [Slots -> NodeOrNull]
      /\ v.importing \in SUBSET Slots
  BY Zenon DEF Views
<1>2. w = IF n = i THEN v ELSE IF replaced THEN lost ELSE after
  BY Zenon DEF UpdateSlots
<1>3. g \in [Slots -> NodeOrNull] /\ \A s \in Slots : g[s] \in {n, v.slots[s]}
  BY Zenon, <1>1, NullFacts
<1> HIDE DEF g
<1>4. /\ after \in Views /\ after.cur = v.cur /\ after.conf = v.conf /\ after.slaveof = v.slaveof
      /\ after.slots = g /\ after.importing = v.importing
  BY Zenon, <1>3 DEF Views
<1> HIDE DEF after
<1>5. imp \in SUBSET Slots /\ [v.slaveof EXCEPT ![i] = n] \in [Nodes -> NodeOrNull]
  BY Zenon, <1>1, NullFacts
<1> HIDE DEF imp
<1>6. /\ lost \in Views /\ lost.cur = v.cur /\ lost.conf = v.conf /\ lost.slots = g
      /\ lost.slaveof = [v.slaveof EXCEPT ![i] = n]
  BY Zenon, <1>4, <1>5 DEF Views
<1> HIDE DEF lost, taken
<1>7. CASE n = i
  BY Zenon, <1>2, <1>7
<1>8. CASE n # i /\ ~replaced
  BY Zenon, <1>2, <1>3, <1>4, <1>8 DEF IsMaster
<1>9. CASE n # i /\ replaced
  <2>1. w = lost
    BY Zenon, <1>2, <1>9
  <2>2. /\ \A j \in Nodes \ {i} : lost.slaveof[j] = v.slaveof[j]
        /\ lost.slaveof[i] = n
    BY Zenon, <1>1, <1>6
  <2>3. IsMaster(v, i) => Served(lost, i) = {}
    <3>1. IsMaster(v, i) => curmaster = i
      BY Zenon DEF MasterOf
    <3>2. Served(after, curmaster) = {}
      BY Zenon, <1>9 DEF LeftWithout
    <3> QED BY <1>4, <1>6, <3>1, <3>2 DEF Served
  <2> QED BY Zenon, <1>3, <1>6, <1>9, <2>1, <2>2, <2>3
<1> QED BY Zenon, <1>7, <1>8, <1>9

\* What holds of the view of every node: no epoch is ahead of currentEpoch, and a
\* replica serves nothing.
Sound(i, v) ==
  /\ \A n \in Nodes : v.conf[n] <= v.cur
  /\ ~IsMaster(v, i) => Served(v, i) = {}

\* How the view of node i goes on, from v to w: epochs never decrease, and a replica
\* that turns into a master takes an epoch it has never sent.
Grows(i, v, w) ==
  /\ w.cur >= v.cur
  /\ IsMaster(w, i) => (IsMaster(v, i) /\ w.conf[i] >= v.conf[i]) \/ w.conf[i] >= v.cur

\* Heard of the header h, before the roles: a view stays sound.
LEMMA HearEpochsSound ==
  ASSUME NEW i \in Nodes, NEW v \in Views, NEW h \in Headers, h.conf <= h.cur, Sound(i, v)
  PROVE  Sound(i, HearEpochs(v, h))
<1> DEFINE w == HearEpochs(v, h)
<1>1. /\ w \in Views /\ w.slaveof = v.slaveof /\ w.slots = v.slots
      /\ w.cur >= v.cur /\ w.cur >= h.cur /\ w.conf[h.from] \in {v.conf[h.from], h.conf}
      /\ \A n \in Nodes \ {h.from} : w.conf[n] = v.conf[n]
  BY Zenon, HearEpochsFacts
<1> HIDE DEF w
<1>2. /\ v.cur \in Nat /\ w.cur \in Nat /\ h.cur \in Nat /\ h.conf \in Nat /\ h.from \in Nodes
      /\ \A n \in Nodes : v.conf[n] \in Nat
  BY <1>1, SlotsAssumption DEF Views, Headers, Epochs
<1>3. \A n \in Nodes : w.conf[n] <= w.cur
  BY <1>1, <1>2 DEF Sound
<1>4. ~IsMaster(w, i) => Served(w, i) = {}
  BY Zenon, <1>1 DEF Sound, IsMaster, Served
<1> QED BY Zenon, <1>3, <1>4 DEF Sound, w

\* The view after a heartbeat, before the collision is handled.
LEMMA ToldFacts ==
  ASSUME NEW i \in Nodes, view[i] \in Views, NEW h \in Headers, h.from # i, h.conf <= h.cur,
         Sound(i, view[i])
  PROVE  LET w == Told(i, h) IN
         /\ w \in Views /\ Sound(i, w) /\ w.cur >= view[i].cur
         /\ IsMaster(w, i) => IsMaster(view[i], i)
         /\ \A n \in Nodes \ {h.from} : w.conf[n] = view[i].conf[n]
         /\ w.conf[h.from] \in {view[i].conf[h.from], h.conf} /\ w.conf[h.from] >= h.conf
         /\ w.conf[h.from] >= view[i].conf[h.from]
         /\ w.slaveof[h.from] = h.slaveof
<1> DEFINE u == HearEpochs(view[i], h)
           v == HearRole(u, h)
           w == UpdateSlots(i, v, h.from, h.conf, h.slots)
<1>0. h.from \in Nodes /\ h.conf \in Epochs /\ h.slots \in SUBSET Slots
  BY Zenon DEF Headers
<1>1. /\ u \in Views /\ u.slaveof = view[i].slaveof /\ u.slots = view[i].slots /\ u.cur >= view[i].cur
      /\ u.conf[h.from] \in {view[i].conf[h.from], h.conf} /\ u.conf[h.from] >= h.conf
      /\ u.conf[h.from] >= view[i].conf[h.from]
      /\ \A n \in Nodes \ {h.from} : u.conf[n] = view[i].conf[n]
      /\ Sound(i, u)
  BY Zenon, HearEpochsFacts, HearEpochsSound
<1> HIDE DEF u
<1>2. /\ v \in Views /\ v.cur = u.cur /\ v.conf = u.conf /\ v.slaveof[h.from] = h.slaveof
      /\ \A n \in Nodes \ {h.from} : v.slaveof[n] = u.slaveof[n]
      /\ \A s \in Slots : v.slots[s] \in {NULL, u.slots[s]}
  BY ZenonT(60), <1>1, HearRoleFacts
<1> HIDE DEF v
<1>3. /\ w \in Views /\ w.cur = v.cur /\ w.conf = v.conf
      /\ \A j \in Nodes \ {i} : w.slaveof[j] = v.slaveof[j]
      /\ w.slaveof[i] = v.slaveof[i] \/ w.slaveof[i] = h.from
      /\ \A s \in Slots : w.slots[s] = v.slots[s] \/ w.slots[s] = h.from
      /\ IsMaster(v, i) /\ ~IsMaster(w, i) => Served(w, i) = {}
  BY <1>0, <1>2, UpdateSlotsFacts
<1> HIDE DEF w
<1>4. Told(i, h) = IF IsMaster(v, h.from) /\ Dirty(v, h) THEN w ELSE v
  BY Zenon DEF Told, u, v, w
<1>5. v.slaveof[i] = view[i].slaveof[i] /\ (w.slaveof[i] = NULL => v.slaveof[i] = NULL)
  BY ZenonT(60), <1>0, <1>1, <1>2, <1>3, NullFacts
<1>6. Sound(i, v)
  BY <1>1, <1>2, <1>5, NullFacts DEF Sound, IsMaster, Served
<1>7. Sound(i, w)
  <2>1. ~IsMaster(w, i) => Served(w, i) = {}
    <3>1. CASE IsMaster(v, i)
      BY Zenon, <3>1, <1>3
    <3>2. CASE ~IsMaster(v, i)
      BY Zenon, <3>2, <1>0, <1>3, <1>6 DEF Sound, Served
    <3> QED BY Zenon, <3>1, <3>2
  <2> QED BY Zenon, <2>1, <1>3, <1>6 DEF Sound
<1> QED BY <1>0, <1>1, <1>2, <1>3, <1>4, <1>5, <1>6, <1>7 DEF IsMaster

\* And once it is.
LEMMA CollideFacts ==
  ASSUME NEW i \in Nodes, NEW v \in Views, NEW h, Sound(i, v), Collide(i, v, h).cur <= MaxEpoch
  PROVE  LET w == Collide(i, v, h) IN
         /\ w \in Views /\ Sound(i, w) /\ w.cur >= v.cur /\ w.slaveof = v.slaveof
         /\ w.conf[i] >= v.conf[i] /\ \A n \in Nodes \ {i} : w.conf[n] = v.conf[n]
<1>1. /\ v.cur \in Epochs /\ v.conf \in [Nodes -> Epochs] /\ \A n \in Nodes : v.conf[n] <= v.cur
  BY Zenon DEF Views, Sound
<1> DEFINE f == [v.conf EXCEPT ![i] = v.cur + 1]
           w == [v EXCEPT !.cur = v.cur + 1, !.conf = f]
<1>2. Collide(i, v, h) \in {v, w}
  BY Zenon DEF Collide
<1>3. CASE Collide(i, v, h) = v
  <2>1. \A n \in Nodes : v.conf[n] \in Nat /\ v.cur \in Nat
    BY <1>1, SlotsAssumption DEF Epochs
  <2> QED BY <1>1, <1>3, <2>1
<1>4. CASE Collide(i, v, h) = w
  <2>1. w.cur = v.cur + 1 /\ w.conf = f /\ w.slaveof = v.slaveof /\ w.slots = v.slots
    BY Zenon DEF Views
  <2>2. v.cur \in Nat /\ v.cur + 1 \in Epochs
    BY <1>1, <1>4, <2>1, SlotsAssumption DEF Epochs
  <2>3. f \in [Nodes -> Epochs] /\ f[i] = v.cur + 1 /\ \A n \in Nodes \ {i} : f[n] = v.conf[n]
    BY Zenon, <1>1, <2>2
  <2>4. w \in Views
    BY Zenon, <2>2, <2>3 DEF Views
  <2>5. \A n \in Nodes : v.conf[n] \in Nat
    BY <1>1, SlotsAssumption DEF Epochs
  <2>6. Sound(i, w)
    BY <1>1, <2>1, <2>2, <2>3, <2>5 DEF Sound, IsMaster, Served
  <2> QED BY <1>1, <1>4, <2>1, <2>2, <2>3, <2>4, <2>5, <2>6
<1> QED BY Zenon, <1>2, <1>3, <1>4

\* A header carries the sender's epochs, or those of its master.
LEMMA HeaderFacts ==
  ASSUME NEW i \in Nodes, NEW v \in Views, Sound(i, v)
  PROVE  LET h == Header(i, v) IN
         /\ h \in Headers /\ h.from = i /\ h.cur = v.cur /\ h.conf <= h.cur
         /\ h.slaveof = v.slaveof[i] /\ (IsMaster(v, i) => h.conf = v.conf[i])
<1> DEFINE m == MasterOf(v, i)
<1>1. /\ v.cur \in Epochs /\ v.conf \in [Nodes -> Epochs] /\ v.slaveof \in [Nodes -> NodeOrNull]
  BY Zenon DEF Views
<1>2. m \in Nodes /\ (IsMaster(v, i) => m = i)
  BY Zenon, <1>1 DEF MasterOf, IsMaster, NodeOrNull
<1>3. Served(v, m) \in SUBSET Slots
  BY Zenon DEF Served
<1>4. v.conf[m] <= v.cur
  BY Zenon, <1>2 DEF Sound
<1> HIDE DEF m
<1> QED BY Zenon, <1>1, <1>2, <1>3, <1>4 DEF Header, Headers, m

\* The view after an UPDATE about another node.
LEMMA UpdatedFacts ==
  ASSUME NEW i \in Nodes, view[i] \in Views, Sound(i, view[i]), NEW m \in UpdateMessages,
         m.hdr.from # i, m.hdr.conf <= m.hdr.cur, m.node # i, m.conf <= m.hdr.cur
  PROVE  LET w == Updated(i, m) IN
         /\ w \in Views /\ Sound(i, w) /\ w.cur >= view[i].cur
         /\ IsMaster(w, i) => IsMaster(view[i], i)
         /\ w.conf[i] = view[i].conf[i]
         /\ \A n \in Nodes : \/ w.conf[n] = view[i].conf[n]
                             \/ n = m.hdr.from /\ w.conf[n] = m.hdr.conf
                             \/ n = m.node /\ w.conf[n] = m.conf
<1> DEFINE v == HearEpochs(view[i], m.hdr)
           u == [v EXCEPT !.slaveof[m.node] = NULL, !.conf[m.node] = m.conf]
           w == UpdateSlots(i, u, m.node, m.conf, m.slots)
<1>0. /\ m.hdr \in Headers /\ m.node \in Nodes /\ m.conf \in Epochs /\ m.slots \in SUBSET Slots
      /\ m.hdr.from \in Nodes
  BY Zenon DEF UpdateMessages, Headers
<1>1. /\ v \in Views /\ v.slaveof = view[i].slaveof /\ v.slots = view[i].slots
      /\ v.cur >= view[i].cur /\ v.cur >= m.hdr.cur
      /\ v.conf[m.hdr.from] \in {view[i].conf[m.hdr.from], m.hdr.conf}
      /\ \A n \in Nodes \ {m.hdr.from} : v.conf[n] = view[i].conf[n]
      /\ Sound(i, v)
  BY Zenon, <1>0, HearEpochsFacts, HearEpochsSound
<1> HIDE DEF v
<1>2. v.conf \in [Nodes -> Epochs] /\ v.slaveof \in [Nodes -> NodeOrNull] /\ v.cur \in Epochs
  BY Zenon, <1>1 DEF Views
<1>3. /\ [v.slaveof EXCEPT ![m.node] = NULL] \in [Nodes -> NodeOrNull]
      /\ [v.conf EXCEPT ![m.node] = m.conf] \in [Nodes -> Epochs]
  BY Zenon, <1>0, <1>2, NullFacts
<1>4. /\ u \in Views /\ u.cur = v.cur /\ u.slots = v.slots
      /\ u.slaveof = [v.slaveof EXCEPT ![m.node] = NULL]
      /\ u.conf = [v.conf EXCEPT ![m.node] = m.conf]
  BY Zenon, <1>1, <1>3 DEF Views
<1> HIDE DEF u
<1>5. /\ u.slaveof[i] = v.slaveof[i] /\ u.conf[m.node] = m.conf
      /\ \A n \in Nodes \ {m.node} : u.conf[n] = v.conf[n]
  BY Zenon, <1>0, <1>2, <1>4
<1>6. /\ w \in Views /\ w.cur = u.cur /\ w.conf = u.conf
      /\ w.slaveof[i] = u.slaveof[i] \/ w.slaveof[i] = m.node
      /\ \A s \in Slots : w.slots[s] = u.slots[s] \/ w.slots[s] = m.node
      /\ IsMaster(u, i) /\ ~IsMaster(w, i) => Served(w, i) = {}
  <2>1. i \in Nodes /\ u \in Views /\ m.node \in Nodes /\ m.conf \in Epochs /\ m.slots \in SUBSET Slots
    BY Zenon, <1>0, <1>4
  <2> QED BY ONLY <2>1, UpdateSlotsFacts
<1> HIDE DEF w
<1>7. Updated(i, m) = IF Known(v, m) THEN v ELSE w
  BY Zenon DEF Updated, u, v, w
<1>8. Sound(i, w)
  <2>1. \A n \in Nodes : w.conf[n] <= w.cur
    <3>1. m.conf <= v.cur
      BY <1>0, <1>1, <1>2, SlotsAssumption DEF Headers, Epochs
    <3> QED BY <1>1, <1>4, <1>5, <1>6, <3>1 DEF Sound
  <2>2. ~IsMaster(w, i) => Served(w, i) = {}
    <3>1. CASE IsMaster(u, i)
      BY Zenon, <3>1, <1>6
    <3>2. CASE ~IsMaster(u, i)
      <4>1. Served(v, i) = {}
        BY Zenon, <1>1, <1>5, <3>2 DEF Sound, IsMaster
      <4> QED BY <1>4, <1>6, <4>1 DEF Served
    <3> QED BY Zenon, <3>1, <3>2
  <2> QED BY Zenon, <2>1, <2>2 DEF Sound
<1>9. w.slaveof[i] = NULL => view[i].slaveof[i] = NULL
  BY Zenon, <1>0, <1>1, <1>5, <1>6, NullFacts
<1>10. \A n \in Nodes : \/ w.conf[n] = view[i].conf[n]
                        \/ n = m.hdr.from /\ w.conf[n] = m.hdr.conf
                        \/ n = m.node /\ w.conf[n] = m.conf
  BY ZenonT(60), <1>1, <1>5, <1>6
<1>11. CASE Known(v, m)
  BY Zenon, <1>1, <1>7, <1>11 DEF IsMaster
<1>12. CASE ~Known(v, m)
  <2>1. w.cur >= view[i].cur /\ w.conf[i] = view[i].conf[i]
    BY ZenonT(60), <1>1, <1>4, <1>5, <1>6
  <2> QED BY Zenon, <1>6, <1>7, <1>8, <1>9, <1>10, <1>12, <2>1 DEF IsMaster
<1> QED BY Zenon, <1>11, <1>12

\* The epoch of a node that does without an election is not behind currentEpoch.
LEMMA BumpedFacts ==
  ASSUME NEW i \in Nodes, NEW v \in Views, Sound(i, v)
  PROVE  Bumped(i, v) \in Nat /\ Bumped(i, v) >= v.cur
<1>1. v.cur \in Nat /\ \A n \in Nodes : v.conf[n] \in Nat /\ v.conf[n] <= v.cur
  BY SlotsAssumption DEF Views, Epochs, Sound
<1>2. MaxKnownEpoch(v) = v.cur
  <2> DEFINE S == {v.cur} \union {v.conf[n] : n \in Nodes}
  <2>1. v.cur \in S /\ \A y \in S : y \in Nat /\ v.cur >= y
    BY <1>1
  <2> HIDE DEF S
  <2>2. Max(S) \in S /\ \A y \in S : Max(S) >= y
    BY Zenon, <2>1 DEF Max
  <2>3. Max(S) = v.cur
    BY <2>1, <2>2
  <2> QED BY Zenon, <2>3 DEF MaxKnownEpoch, S
<1> QED BY <1>1, <1>2 DEF Bumped

\* A replica that replaces its master with an epoch that is not behind is sound.
LEMMA ReplaceFacts ==
  ASSUME NEW r \in Nodes, NEW v \in Views, Sound(r, v), NEW e \in Epochs, e >= v.cur
  PROVE  LET w == Replace(r, v, e) IN
         /\ w \in Views /\ Sound(r, w) /\ Grows(r, v, w)
         /\ \A n \in Nodes \ {r} : w.conf[n] = v.conf[n]
<1> DEFINE g == [s \in Slots |-> IF v.slots[s] = v.slaveof[r] THEN r ELSE v.slots[s]]
           w == [v EXCEPT !.slaveof = [v.slaveof EXCEPT ![r] = NULL], !.conf = [v.conf EXCEPT ![r] = e],
                          !.cur = AtLeast(v.cur, e), !.slots = g]
<1>1. /\ v.cur \in Epochs /\ v.conf \in [Nodes -> Epochs] /\ v.slaveof \in [Nodes -> NodeOrNull]
      /\ v.slots \in [Slots -> NodeOrNull]
  BY Zenon DEF Views
<1>2. /\ AtLeast(v.cur, e) \in Epochs /\ AtLeast(v.cur, e) >= v.cur /\ AtLeast(v.cur, e) >= e
      /\ [v.slaveof EXCEPT ![r] = NULL] \in [Nodes -> NodeOrNull]
      /\ [v.conf EXCEPT ![r] = e] \in [Nodes -> Epochs] /\ g \in [Slots -> NodeOrNull]
  BY Zenon, <1>1, AtLeastFacts, NullFacts
<1>3. Replace(r, v, e) = w
  BY Zenon DEF Replace
<1> HIDE DEF g
<1>4. /\ w \in Views /\ w.cur = AtLeast(v.cur, e) /\ w.conf = [v.conf EXCEPT ![r] = e]
      /\ w.slaveof = [v.slaveof EXCEPT ![r] = NULL]
  BY Zenon, <1>2 DEF Views
<1> HIDE DEF w
<1>5. /\ w.conf[r] = e /\ IsMaster(w, r) /\ \A n \in Nodes \ {r} : w.conf[n] = v.conf[n]
  BY Zenon, <1>1, <1>4 DEF IsMaster
<1>6. /\ v.cur \in Nat /\ e \in Nat /\ w.cur \in Nat /\ \A n \in Nodes : v.conf[n] \in Nat
  BY <1>1, <1>4, SlotsAssumption DEF Views, Epochs
<1>7. Sound(r, w)
  BY <1>2, <1>4, <1>5, <1>6 DEF Sound
<1>8. Grows(r, v, w)
  BY Zenon, <1>2, <1>4, <1>5 DEF Grows
<1> QED BY Zenon, <1>3, <1>4, <1>5, <1>7, <1>8

-----------------------------------------------------------------------------
(* The invariant. *)

\* What holds of every message.
Fit(m) ==
  /\ m.hdr.from # m.to /\ m.hdr.conf <= m.hdr.cur /\ Reached(m.hdr.from, m.hdr.conf)
  /\ m.type = "update" => m.node # m.to /\ m.conf <= m.hdr.cur /\ Reached(m.node, m.conf)

\* The invariant, view by view and message by message.
LEMMA IInvFacts ==
  ASSUME IInv
  PROVE  /\ view \in [Nodes -> Views] /\ \A i \in Nodes : view[i] \in Views /\ Sound(i, view[i])
         /\ \A i, n \in Nodes : Reached(n, view[i].conf[n])
         /\ \A m \in net : m \in Heartbeats \union UpdateMessages /\ m.to \in Nodes /\ m.hdr \in Headers /\ Fit(m)
         /\ \A m \in net : m.type = "update" => m \in UpdateMessages
BY Zenon DEF IInv, TypeOK, ReplicaServesNothing, Sound, Fit, Heartbeats, UpdateMessages

\* The epochs of a view are natural numbers.
LEMMA ViewNumbers ==
  ASSUME NEW v \in Views
  PROVE  v.cur \in Nat /\ \A n \in Nodes : v.conf[n] \in Nat
BY SlotsAssumption DEF Views, Epochs

\* What a node has reached stays reached.
LEMMA StaysReached ==
  ASSUME NEW n \in Nodes, view[n] \in Views, view'[n] \in Views, Grows(n, view[n], view'[n]),
         NEW e \in Nat, Reached(n, e)
  PROVE  Reached(n, e)'
BY ViewNumbers DEF Reached, Grows, IsMaster

\* A step in which views stay sound and grow, and every epoch that is new in a view or
\* a message has been reached.
LEMMA StepKeeps ==
  ASSUME IInv, situation' = situation, view' \in [Nodes -> Views],
         \A i \in Nodes : Sound(i, view'[i]) /\ Grows(i, view[i], view'[i]),
         \A i, n \in Nodes, e \in Nat : view'[i].conf[n] = e =>
           n = i \/ e = view[i].conf[n] \/ Reached(n, e) \/ Reached(n, e)',
         \A m \in net' : m \in net \/ (m \in Heartbeats \union UpdateMessages /\ Fit(m)')
  PROVE  IInv'
<1>1. /\ \A i \in Nodes : view[i] \in Views /\ view'[i] \in Views
      /\ \A i, n \in Nodes : Reached(n, view[i].conf[n])
      /\ \A m \in net : m \in Heartbeats \union UpdateMessages /\ m.hdr \in Headers /\ Fit(m)
      /\ \A m \in net : m.type = "update" => m \in UpdateMessages
  BY Zenon, IInvFacts
<1>2. \A i, n \in Nodes : view'[i].conf[n] \in Nat /\ view'[i].cur \in Nat /\ view[i].conf[n] \in Nat
  BY Zenon, <1>1, ViewNumbers
<1>3. \A i, n \in Nodes, e \in Nat : view'[i].conf[n] = e => Reached(n, e)'
  <2> SUFFICES ASSUME NEW i \in Nodes, NEW n \in Nodes, NEW e \in Nat, view'[i].conf[n] = e
               PROVE  Reached(n, e)'
    BY Zenon
  <2>1. CASE n = i
    BY <1>2, <2>1 DEF Sound, Reached
  <2>2. CASE e = view[i].conf[n] \/ Reached(n, e)
    BY Zenon, <1>1, <2>2, StaysReached
  <2> QED BY Zenon, <2>1, <2>2
<1>4. \A m \in net : Fit(m)'
  <2> SUFFICES ASSUME NEW m \in net
               PROVE  Fit(m)'
    BY Zenon
  <2>1. /\ m.hdr \in Headers /\ m.hdr.from \in Nodes /\ m.hdr.conf \in Nat /\ Fit(m)
    BY <1>1, SlotsAssumption DEF Headers, Epochs
  <2>2. Reached(m.hdr.from, m.hdr.conf)'
    BY Zenon, <1>1, <2>1, StaysReached DEF Fit
  <2>3. ASSUME m.type = "update"
        PROVE  m.node # m.to /\ m.conf <= m.hdr.cur /\ Reached(m.node, m.conf)'
    <3>1. m.node \in Nodes /\ m.conf \in Nat
      BY <1>1, <2>3, SlotsAssumption DEF UpdateMessages, Epochs
    <3>2. Reached(m.node, m.conf) /\ m.node # m.to /\ m.conf <= m.hdr.cur
      BY Zenon, <2>1, <2>3 DEF Fit
    <3>3. Reached(m.node, m.conf)'
      BY Zenon, <1>1, <3>1, <3>2, StaysReached
    <3> QED BY Zenon, <3>2, <3>3
  <2> QED BY Zenon, <2>1, <2>2, <2>3 DEF Fit
<1>5. TypeOK'
  <2>1. net' \subseteq Heartbeats \union UpdateMessages
    BY Zenon, <1>1
  <2> QED BY Zenon, <2>1 DEF IInv, TypeOK
<1>6. ReplicaServesNothing'
  BY Zenon DEF Sound, ReplicaServesNothing
<1>7. \A m \in net' : Fit(m)'
  BY Zenon, <1>4
<1>8. \A i, n \in Nodes : view'[i].conf[n] <= view'[i].cur
  BY Zenon DEF Sound
<1>9. (\A i, n \in Nodes : Reached(n, view[i].conf[n]))'
  BY Zenon, <1>2, <1>3 DEF Reached
<1> QED BY Zenon, <1>5, <1>6, <1>7, <1>8, <1>9 DEF IInv, Fit

\* A step of node i alone, in which it makes up no epoch but its own.
LEMMA OwnStepKeeps ==
  ASSUME IInv, situation' = situation, NEW i \in Nodes, NEW w \in Views,
         view' = [view EXCEPT ![i] = w], Sound(i, w), Grows(i, view[i], w),
         \A n \in Nodes : n = i \/ w.conf[n] = view[i].conf[n] \/ Reached(n, w.conf[n]),
         \A m \in net' : m \in net \/ (m \in Heartbeats \union UpdateMessages /\ Fit(m)')
  PROVE  IInv'
<1>1. /\ view \in [Nodes -> Views] /\ \A j \in Nodes : view[j] \in Views /\ Sound(j, view[j])
  BY Zenon, IInvFacts
<1>2. /\ view' \in [Nodes -> Views] /\ view'[i] = w /\ \A j \in Nodes \ {i} : view'[j] = view[j]
  BY Zenon, <1>1
<1>3. \A j \in Nodes \ {i} : Grows(j, view[j], view[j])
  BY <1>1, ViewNumbers DEF Grows
<1>4. \A j \in Nodes : Sound(j, view'[j]) /\ Grows(j, view[j], view'[j])
  BY Zenon, <1>1, <1>2, <1>3
<1>5. \A j, n \in Nodes, e \in Nat : view'[j].conf[n] = e =>
        n = j \/ e = view[j].conf[n] \/ Reached(n, e)
  BY <1>2
<1> QED BY Zenon, <1>2, <1>4, <1>5, StepKeeps

\* The invariant holds initially.
LEMMA InitIInv == Init => IInv
<1> SUFFICES ASSUME Init PROVE IInv
  BY Zenon
<1>1. /\ situation \in SituationShape /\ net = {} /\ view = [i \in Nodes |-> situation.start]
  BY Zenon, SlotsAssumption DEF Init
<1>2. situation.start \in StartViews
  BY Zenon, <1>1 DEF SituationShape
<1> DEFINE v == situation.start
<1>3. v \in Views /\ \A n \in Nodes :
        v.conf[n] <= v.cur /\ (v.slaveof[n] # NULL => \A s \in Slots : v.slots[s] # n)
  BY Zenon, <1>2 DEF StartViews
<1> HIDE DEF v
<1>4. \A i \in Nodes : view[i] = v
  BY Zenon, <1>1 DEF v
<1>5. TypeOK
  BY Zenon, <1>1, <1>3 DEF TypeOK, v
<1>6. ReplicaServesNothing
  BY Zenon, <1>3, <1>4 DEF ReplicaServesNothing, IsMaster, Served
<1>7. \A i, n \in Nodes : view[i].conf[n] <= view[i].cur /\ Reached(n, view[i].conf[n])
  BY <1>3, <1>4, ViewNumbers DEF Reached
<1> QED BY Zenon, <1>1, <1>5, <1>6, <1>7 DEF IInv

-----------------------------------------------------------------------------
(* The actions keep it. *)

\* A header that node i sends in view v does not run ahead of i's next view.
LEMMA HeaderReached ==
  ASSUME NEW i \in Nodes, NEW v \in Views, Sound(i, v), view'[i] \in Views,
         view'[i].cur >= v.cur, IsMaster(view'[i], i) => IsMaster(v, i) /\ view'[i].conf[i] >= v.conf[i],
         NEW h, h = Header(i, v)
  PROVE  Reached(i, h.conf)'
<1>1. h \in Headers /\ h.conf <= v.cur /\ (IsMaster(v, i) => h.conf = v.conf[i])
  BY Zenon, HeaderFacts
<1>2. /\ h.conf \in Nat /\ v.cur \in Nat /\ v.conf[i] \in Nat
      /\ view'[i].cur \in Nat /\ view'[i].conf[i] \in Nat
  BY <1>1, ViewNumbers, SlotsAssumption DEF Headers, Epochs
<1> QED BY <1>1, <1>2 DEF Reached

\* clusterSendPing.
LEMMA SendKeeps ==
  ASSUME IInv, situation' = situation, NEW i \in Nodes, NEW j \in Nodes, SendHeartbeat(i, j)
  PROVE  IInv'
<1>1. view' = view /\ view[i] \in Views /\ Sound(i, view[i]) /\ i # j
  BY Zenon, IInvFacts DEF SendHeartbeat
<1>2. PICK h : h = Header(i, view[i])
  BY Zenon
<1>3. h \in Headers /\ h.from = i /\ h.conf <= h.cur
  BY Zenon, <1>1, <1>2, HeaderFacts
<1>4. Reached(i, h.conf)'
  BY <1>1, <1>2, HeaderReached, ViewNumbers
<1> DEFINE m == [type |-> "heartbeat", to |-> j, hdr |-> h]
<1>5. net' = net \union {m}
  BY Zenon, <1>2 DEF SendHeartbeat
<1>6. m \in Heartbeats /\ Fit(m)'
  BY Zenon, <1>1, <1>3, <1>4 DEF Heartbeats, Fit
<1> HIDE DEF m
<1>7. /\ view \in [Nodes -> Views] /\ view' = [view EXCEPT ![i] = view[i]] /\ Grows(i, view[i], view[i])
  BY <1>1, IInvFacts, ViewNumbers DEF Grows
<1>8. \A x \in net' : x \in net \/ (x \in Heartbeats \union UpdateMessages /\ Fit(x)')
  BY Zenon, <1>5, <1>6
<1> QED BY Zenon, <1>1, <1>7, <1>8, OwnStepKeeps

\* A message is lost.
LEMMA LoseKeeps ==
  ASSUME IInv, situation' = situation, NEW m \in net, Lose(m)
  PROVE  IInv'
BY Zenon DEF IInv, Lose, TypeOK, ReplicaServesNothing, Reached

\* The least of some natural numbers is one of them.
LEMMA MinFacts ==
  ASSUME NEW S \in SUBSET Nat, S # {}
  PROVE  Min(S) \in S
<1> DEFINE R == OpToRel(<, Nat)
<1>1. PICK x \in S : \A y \in S : ~(<<y, x>> \in R)
  <2> HIDE DEF R
  <2> QED BY Zenon, NatLessThanWellFounded, WFMin DEF R
<1>2. \A y \in S : ~(y < x)
  BY Zenon, <1>1 DEF OpToRel
<1> HIDE DEF R
<1>3. \A y \in S : x <= y
  BY <1>2
<1> QED BY Zenon, <1>3 DEF Min

\* An UPDATE is about a third node.
LEMMA UpdatesFacts ==
  ASSUME NEW i \in Nodes, NEW h \in Headers, Told(i, h) \in Views, NEW m \in Updates(i, h)
  PROVE  \E o \in Nodes \ {h.from} :
           m = [type |-> "update", to |-> h.from, hdr |-> Header(i, Told(i, h)), node |-> o,
                conf |-> Told(i, h).conf[o], slots |-> Served(Told(i, h), o)]
<1> DEFINE v == Told(i, h)
           S == Outdated(v, h)
           o == v.slots[Min(S)]
<1>1. S # {} /\ m = [type |-> "update", to |-> h.from, hdr |-> Header(i, v), node |-> o, conf |-> v.conf[o],
                     slots |-> Served(v, o)]
  BY Zenon DEF Updates
<1>2. v.slots \in [Slots -> NodeOrNull] /\ h.slots \in SUBSET Slots
  BY Zenon DEF Views, Headers
<1>3. S \in SUBSET Nat /\ S \in SUBSET Slots /\ \A s \in S : v.slots[s] \notin {h.from, NULL}
  BY Zenon, <1>2, SlotsAssumption DEF Outdated
<1> HIDE DEF v, S
<1>4. Min(S) \in S
  BY Zenon, <1>1, <1>3, MinFacts
<1>5. o \in Nodes \ {h.from}
  BY Zenon, <1>2, <1>3, <1>4 DEF NodeOrNull
<1> QED BY Zenon, <1>1, <1>5 DEF v

\* clusterProcessPacket, PING and PONG.
LEMMA HeartbeatKeeps ==
  ASSUME IInv, situation' = situation, NEW m \in net, m.type = "heartbeat", Receive(m)
  PROVE  IInv'
<1>1. PICK i \in Nodes, h \in Headers : i = m.to /\ h = m.hdr
  BY Zenon, IInvFacts
<1>2. /\ view[i] \in Views /\ Sound(i, view[i]) /\ view \in [Nodes -> Views]
      /\ h.from \in Nodes /\ h.from # i /\ h.conf <= h.cur /\ Reached(h.from, h.conf)
      /\ \A n \in Nodes : Reached(n, view[i].conf[n])
  BY Zenon, <1>1, IInvFacts DEF Fit, Headers
<1>3. PICK v : v = Told(i, h)
  BY Zenon
<1>4. /\ v \in Views /\ Sound(i, v) /\ v.cur >= view[i].cur
      /\ IsMaster(v, i) => IsMaster(view[i], i)
      /\ \A n \in Nodes \ {h.from} : v.conf[n] = view[i].conf[n]
      /\ v.conf[h.from] \in {view[i].conf[h.from], h.conf}
  BY ZenonT(60), <1>2, <1>3, ToldFacts
<1>5. PICK w : w = Heard(i, h)
  BY Zenon
<1>6. w.cur <= MaxEpoch /\ view' = [view EXCEPT ![i] = w] /\ net' = (net \ {m}) \union Updates(i, h)
  BY Zenon, <1>1, <1>5 DEF Receive
<1>7. w = Collide(i, v, h)
  BY Zenon, <1>3, <1>5 DEF Heard
<1>8. /\ w \in Views /\ Sound(i, w) /\ w.cur >= v.cur /\ w.slaveof = v.slaveof
      /\ w.conf[i] >= v.conf[i] /\ \A n \in Nodes \ {i} : w.conf[n] = v.conf[n]
  BY <1>4, <1>6, <1>7, CollideFacts
<1>9. view'[i] = w /\ \A j \in Nodes \ {i} : view'[j] = view[j]
  BY Zenon, <1>2, <1>6
<1>10. /\ view[i].cur \in Nat /\ v.cur \in Nat /\ w.cur \in Nat
       /\ view[i].conf[i] \in Nat /\ v.conf[i] \in Nat /\ w.conf[i] \in Nat
  BY Zenon, <1>2, <1>4, <1>8, ViewNumbers
<1>11. Grows(i, view[i], w)
  BY <1>2, <1>4, <1>8, <1>10 DEF Grows, IsMaster
<1>12. \A n \in Nodes : n = i \/ w.conf[n] = view[i].conf[n] \/ Reached(n, w.conf[n])
  BY ZenonT(60), <1>2, <1>4, <1>8
<1>13. \A x \in Updates(i, h) : x \in UpdateMessages /\ Fit(x)'
  <2> SUFFICES ASSUME NEW x \in Updates(i, h)
               PROVE  x \in UpdateMessages /\ Fit(x)'
    BY Zenon
  <2>1. PICK g : g = Header(i, v)
    BY Zenon
  <2>2. PICK o \in Nodes \ {h.from} :
          x = [type |-> "update", to |-> h.from, hdr |-> g, node |-> o, conf |-> v.conf[o],
               slots |-> Served(v, o)]
    BY <1>3, <1>4, <2>1, UpdatesFacts
  <2>3. g \in Headers /\ g.from = i /\ g.cur = v.cur /\ g.conf <= g.cur
    BY Zenon, <1>4, <2>1, HeaderFacts
  <2>4. Reached(i, g.conf)'
    BY Zenon, <1>4, <1>8, <1>9, <2>1, HeaderReached DEF IsMaster
  <2>5. v.conf[o] \in Epochs /\ v.conf[o] \in Nat /\ v.conf[o] <= v.cur
    BY <1>4, SlotsAssumption DEF Views, Epochs, Sound
  <2>6. Reached(o, v.conf[o])'
    <3>1. CASE o = i
      BY <1>8, <1>9, <1>10, <2>5, <3>1 DEF Reached
    <3>2. CASE o # i
      BY Zenon, <1>2, <1>4, <1>9, <3>2 DEF Reached
    <3> QED BY Zenon, <3>1, <3>2
  <2>7. x \in UpdateMessages
    BY Zenon, <1>2, <2>2, <2>3, <2>5 DEF UpdateMessages, Served
  <2>8. /\ x.hdr = g /\ x.to = h.from /\ x.node = o /\ x.conf = v.conf[o]
    BY Zenon, <2>2
  <2> QED BY Zenon, <1>2, <2>3, <2>4, <2>5, <2>6, <2>7, <2>8 DEF Fit
<1>14. \A x \in net' : x \in net \/ (x \in Heartbeats \union UpdateMessages /\ Fit(x)')
  BY Zenon, <1>6, <1>13
<1> QED BY Zenon, <1>6, <1>8, <1>11, <1>12, <1>14, OwnStepKeeps

\* clusterProcessPacket, UPDATE.
LEMMA UpdateKeeps ==
  ASSUME IInv, situation' = situation, NEW m \in net, m.type = "update", Receive(m)
  PROVE  IInv'
<1>1. PICK i \in Nodes : i = m.to
  BY Zenon, IInvFacts
<1>2. /\ view[i] \in Views /\ Sound(i, view[i]) /\ m \in UpdateMessages /\ Fit(m)
  BY Zenon, IInvFacts
<1>3. PICK w : w = Updated(i, m)
  BY Zenon
<1>4. /\ w \in Views /\ Sound(i, w) /\ w.cur >= view[i].cur
      /\ IsMaster(w, i) => IsMaster(view[i], i)
      /\ w.conf[i] = view[i].conf[i]
      /\ \A n \in Nodes : \/ w.conf[n] = view[i].conf[n]
                          \/ n = m.hdr.from /\ w.conf[n] = m.hdr.conf
                          \/ n = m.node /\ w.conf[n] = m.conf
  <2>1. m.hdr.from # i /\ m.hdr.conf <= m.hdr.cur /\ m.node # i /\ m.conf <= m.hdr.cur
    BY Zenon, <1>1, <1>2 DEF Fit
  <2> QED BY <1>2, <1>3, <2>1, UpdatedFacts
<1>5. view' = [view EXCEPT ![i] = w] /\ net' = net \ {m}
  BY Zenon, <1>1, <1>3 DEF Receive
<1>6. Grows(i, view[i], w)
  <2>1. view[i].conf[i] \in Nat
    BY Zenon, <1>2, ViewNumbers
  <2> QED BY <1>4, <2>1 DEF Grows
<1>7. \A n \in Nodes : n = i \/ w.conf[n] = view[i].conf[n] \/ Reached(n, w.conf[n])
  BY Zenon, <1>2, <1>4 DEF Fit
<1> QED BY Zenon, <1>4, <1>5, <1>6, <1>7, OwnStepKeeps

\* CLUSTER FAILOVER TAKEOVER.
LEMMA TakeoverKeeps ==
  ASSUME IInv, situation' = situation, NEW r \in Nodes, Takeover(r)
  PROVE  IInv'
<1>1. view[r] \in Views /\ Sound(r, view[r])
  BY Zenon, IInvFacts
<1>2. PICK e : e = Bumped(r, view[r])
  BY Zenon
<1>3. e \in Nat /\ e >= view[r].cur /\ e <= MaxEpoch
  BY Zenon, <1>1, <1>2, BumpedFacts DEF Takeover
<1>4. e \in Epochs
  BY <1>3, SlotsAssumption DEF Epochs
<1>5. PICK w : w = Replace(r, view[r], e)
  BY Zenon
<1>6. /\ w \in Views /\ Sound(r, w) /\ Grows(r, view[r], w)
      /\ \A n \in Nodes \ {r} : w.conf[n] = view[r].conf[n]
  BY Zenon, <1>1, <1>3, <1>4, <1>5, ReplaceFacts
<1>7. view' = [view EXCEPT ![r] = w] /\ net' = net
  BY Zenon, <1>2, <1>5 DEF Takeover
<1>8. \A n \in Nodes : n = r \/ w.conf[n] = view[r].conf[n] \/ Reached(n, w.conf[n])
  BY Zenon, <1>6
<1>9. \A m \in net' : m \in net \/ (m \in Heartbeats \union UpdateMessages /\ Fit(m)')
  BY Zenon, <1>7
<1> QED BY Zenon, <1>6, <1>7, <1>8, <1>9, OwnStepKeeps

\* The view of node n after its vote.
Voted(n, h, e) == [HearEpochs(view[n], h) EXCEPT !.cur = e, !.voted = e]

\* The voters of an election learn the replica's epochs, and vote for the next one.
LEMMA VoteFacts ==
  ASSUME NEW n \in Nodes, view[n] \in Views, Sound(n, view[n]), NEW h \in Headers, h.conf <= h.cur,
         h.from # n, NEW e \in Epochs, WouldVote(n, h, e)
  PROVE  LET w == Voted(n, h, e) IN
         /\ w \in Views /\ Sound(n, w) /\ Grows(n, view[n], w)
         /\ \A j \in Nodes : w.conf[j] = view[n].conf[j] \/ (j = h.from /\ w.conf[j] = h.conf)
<1> DEFINE v == HearEpochs(view[n], h)
           w == Voted(n, h, e)
<1>1. /\ v \in Views /\ v.slaveof = view[n].slaveof /\ v.cur >= view[n].cur /\ v.slots = view[n].slots
      /\ v.conf[h.from] \in {view[n].conf[h.from], h.conf}
      /\ \A j \in Nodes \ {h.from} : v.conf[j] = view[n].conf[j]
      /\ Sound(n, v)
  BY Zenon, HearEpochsFacts, HearEpochsSound
<1>2. v.cur <= e
  BY Zenon DEF WouldVote
<1>3. w = [v EXCEPT !.cur = e, !.voted = e]
  BY Zenon DEF Voted
<1> HIDE DEF v, w
<1>4. /\ w \in Views /\ w.cur = e /\ w.conf = v.conf /\ w.slaveof = v.slaveof /\ w.slots = v.slots
  BY Zenon, <1>1, <1>3 DEF Views
<1>5. /\ v.cur \in Nat /\ view[n].cur \in Nat /\ e \in Nat
      /\ \A j \in Nodes : v.conf[j] \in Nat /\ view[n].conf[j] \in Nat
  BY <1>1, ViewNumbers, SlotsAssumption DEF Epochs
<1>6. Sound(n, w)
  BY <1>1, <1>2, <1>4, <1>5 DEF Sound, IsMaster, Served
<1>7. Grows(n, view[n], w)
  BY <1>1, <1>2, <1>4, <1>5 DEF Grows, IsMaster
<1>8. \A j \in Nodes : w.conf[j] = view[n].conf[j] \/ (j = h.from /\ w.conf[j] = h.conf)
  BY Zenon, <1>1, <1>4
<1> QED BY Zenon, <1>4, <1>6, <1>7, <1>8 DEF w

\* An election is won.
LEMMA FailoverKeeps ==
  ASSUME IInv, situation' = situation, NEW r \in Nodes, Failover(r)
  PROVE  IInv'
<1>1. /\ view \in [Nodes -> Views] /\ \A n \in Nodes : view[n] \in Views /\ Sound(n, view[n])
  BY Zenon, IInvFacts
<1>2. PICK v \in Views : v = view[r]
  BY Zenon, <1>1
<1>3. PICK h : h = Header(r, v)
  BY Zenon
<1>4. PICK e : e = v.cur + 1
  BY Zenon
<1>5. ~IsMaster(v, r) /\ e <= MaxEpoch /\ net' = net
  BY Zenon, <1>2, <1>4 DEF Failover
<1>6. PICK Q \in SUBSET {n \in Electorate(v) \ {r} : WouldVote(n, h, e)} :
        view' = [n \in Nodes |->
            IF n = r THEN Replace(r, v, AtLeast(v.conf[r], e))
            ELSE IF n \in Q THEN [HearEpochs(view[n], h) EXCEPT !.cur = e, !.voted = e]
            ELSE view[n]]
  BY ZenonT(60), <1>2, <1>3, <1>4 DEF Failover
<1>7. /\ v.cur \in Nat /\ e \in Epochs /\ e \in Nat /\ e >= v.cur /\ v.conf[r] \in Epochs
      /\ v.conf[r] \in Nat /\ v.conf[r] <= v.cur /\ Sound(r, v)
  BY <1>1, <1>2, <1>4, <1>5, ViewNumbers, SlotsAssumption DEF Epochs, Views, Sound
<1>8. AtLeast(v.conf[r], e) \in Epochs /\ AtLeast(v.conf[r], e) = e
  BY <1>4, <1>7 DEF AtLeast
<1>9. PICK w : w = Replace(r, v, e)
  BY Zenon
<1>10. /\ w \in Views /\ Sound(r, w) /\ Grows(r, v, w)
       /\ \A n \in Nodes \ {r} : w.conf[n] = v.conf[n]
  BY ZenonT(60), <1>7, <1>9, ReplaceFacts
<1>11. h \in Headers /\ h.from = r /\ h.conf <= h.cur /\ h.cur = v.cur
  BY Zenon, <1>3, <1>7, HeaderFacts
<1>12. view'[r] = w /\ \A n \in Nodes \ {r} :
          view'[n] = IF n \in Q THEN [HearEpochs(view[n], h) EXCEPT !.cur = e, !.voted = e] ELSE view[n]
  BY Zenon, <1>6, <1>8, <1>9
<1>13. \A n \in Nodes \ {r} :
         /\ view'[n] \in Views /\ Sound(n, view'[n]) /\ Grows(n, view[n], view'[n])
         /\ \A j \in Nodes : view'[n].conf[j] = view[n].conf[j] \/ (j = r /\ view'[n].conf[j] = h.conf)
  <2> SUFFICES ASSUME NEW n \in Nodes \ {r}
               PROVE  /\ view'[n] \in Views /\ Sound(n, view'[n]) /\ Grows(n, view[n], view'[n])
                      /\ \A j \in Nodes : \/ view'[n].conf[j] = view[n].conf[j]
                                          \/ j = r /\ view'[n].conf[j] = h.conf
    BY Zenon
  <2>1. CASE n \in Q
    <3>1. WouldVote(n, h, e)
      BY Zenon, <1>6, <2>1
    <3>2. PICK u : u = Voted(n, h, e)
      BY Zenon
    <3>3. view'[n] = u
      BY Zenon, <1>12, <2>1, <3>2 DEF Voted
    <3>4. /\ n \in Nodes /\ view[n] \in Views /\ Sound(n, view[n]) /\ h \in Headers /\ h.conf <= h.cur
          /\ h.from = r /\ h.from # n /\ e \in Epochs
      BY Zenon, <1>1, <1>7, <1>11
    <3>5. /\ u \in Views /\ Sound(n, u) /\ Grows(n, view[n], u)
          /\ \A j \in Nodes : u.conf[j] = view[n].conf[j] \/ (j = r /\ u.conf[j] = h.conf)
      BY ONLY <3>1, <3>2, <3>4, VoteFacts
    <3> QED BY Zenon, <3>3, <3>5
  <2>2. CASE n \notin Q
    <3>1. view'[n] = view[n]
      BY Zenon, <1>12, <2>2
    <3> QED BY SMTT(30), <1>1, <3>1, ViewNumbers DEF Grows
  <2> QED BY Zenon, <2>1, <2>2
<1>14. h.conf \in Nat /\ Reached(r, h.conf)
  BY <1>2, <1>5, <1>7, <1>11, SlotsAssumption DEF Reached, Headers, Epochs
<1>15. view' \in [Nodes -> Views]
  <2>1. DOMAIN view' = Nodes /\ view' = [n \in DOMAIN view' |-> view'[n]]
    BY Zenon, <1>6
  <2> QED BY Zenon, <1>10, <1>12, <1>13, <2>1
<1>16. \A n \in Nodes : Sound(n, view'[n]) /\ Grows(n, view[n], view'[n])
  BY Zenon, <1>2, <1>10, <1>12, <1>13
<1>17. \A i, n \in Nodes, x \in Nat : view'[i].conf[n] = x =>
         n = i \/ x = view[i].conf[n] \/ Reached(n, x)
  <2> SUFFICES ASSUME NEW i \in Nodes, NEW n \in Nodes, NEW x \in Nat, view'[i].conf[n] = x, n # i
               PROVE  x = view[i].conf[n] \/ Reached(n, x)
    BY Zenon
  <2>1. CASE i = r
    BY Zenon, <1>2, <1>10, <1>12, <2>1
  <2>2. CASE i # r
    BY Zenon, <1>13, <1>14, <2>2
  <2> QED BY Zenon, <2>1, <2>2
<1> QED BY Zenon, <1>5, <1>15, <1>16, <1>17, StepKeeps

\* CLUSTER SETSLOT IMPORTING and STABLE: no epoch and no owner changes.
LEMMA ImportingKeeps ==
  ASSUME IInv, situation' = situation, NEW i \in Nodes, NEW s \in Slots,
         SetSlotImporting(i, s) \/ SetSlotStable(i, s)
  PROVE  IInv'
<1>1. /\ view[i] \in Views /\ Sound(i, view[i]) /\ IsMaster(view[i], i) /\ net' = net
      /\ view \in [Nodes -> Views]
  BY Zenon, IInvFacts DEF SetSlotImporting, SetSlotStable
<1>2. PICK S \in SUBSET Slots : view' = [view EXCEPT ![i].importing = S]
  <2>1. view[i].importing \in SUBSET Slots
    BY Zenon, <1>1 DEF Views
  <2> QED BY Zenon, <2>1 DEF SetSlotImporting, SetSlotStable
<1> DEFINE w == [view[i] EXCEPT !.importing = S]
<1>3. /\ w \in Views /\ w.cur = view[i].cur /\ w.conf = view[i].conf /\ w.slaveof = view[i].slaveof
      /\ w.slots = view[i].slots
  BY Zenon, <1>1 DEF Views
<1>4. view' = [view EXCEPT ![i] = w]
  BY Zenon, <1>2
<1> HIDE DEF w
<1>5. /\ view[i].cur \in Nat /\ view[i].conf[i] \in Nat
  BY Zenon, <1>1, ViewNumbers
<1>6. Sound(i, w) /\ Grows(i, view[i], w)
  BY <1>1, <1>3, <1>5 DEF Sound, Grows, IsMaster
<1>7. \A n \in Nodes : n = i \/ w.conf[n] = view[i].conf[n] \/ Reached(n, w.conf[n])
  BY Zenon, <1>3
<1>8. \A m \in net' : m \in net \/ (m \in Heartbeats \union UpdateMessages /\ Fit(m)')
  BY Zenon, <1>1
<1> QED BY Zenon, <1>3, <1>4, <1>6, <1>7, <1>8, OwnStepKeeps

\* CLUSTER SETSLOT NODE: the importing node takes the slot with an epoch of its own.
LEMMA SetSlotNodeKeeps ==
  ASSUME IInv, situation' = situation, NEW i \in Nodes, NEW s \in Slots, SetSlotNode(i, s)
  PROVE  IInv'
<1>1. /\ view[i] \in Views /\ Sound(i, view[i]) /\ IsMaster(view[i], i) /\ net' = net
      /\ view \in [Nodes -> Views]
  BY Zenon, IInvFacts DEF SetSlotNode
<1>2. PICK e : e = Bumped(i, view[i])
  BY Zenon
<1>3. e \in Nat /\ e >= view[i].cur /\ e <= MaxEpoch
  BY Zenon, <1>1, <1>2, BumpedFacts DEF SetSlotNode
<1>4. /\ e \in Epochs /\ view[i].cur \in Epochs /\ view[i].conf \in [Nodes -> Epochs]
      /\ view[i].slots \in [Slots -> NodeOrNull] /\ view[i].importing \in SUBSET Slots
  BY <1>1, <1>3, SlotsAssumption DEF Epochs, Views
<1> DEFINE c == AtLeast(view[i].cur, e)
           f == [view[i].conf EXCEPT ![i] = e]
           g == [view[i].slots EXCEPT ![s] = i]
           w == [view[i] EXCEPT !.importing = @ \ {s}, !.slots = g, !.conf = f, !.cur = c]
<1>5. /\ c \in Epochs /\ c >= view[i].cur /\ c >= e /\ f \in [Nodes -> Epochs]
      /\ g \in [Slots -> NodeOrNull] /\ f[i] = e /\ \A n \in Nodes \ {i} : f[n] = view[i].conf[n]
  BY Zenon, <1>4, AtLeastFacts, NullFacts
<1>6. view' = [view EXCEPT ![i] = w]
  BY ZenonT(60), <1>1, <1>2 DEF SetSlotNode
<1> HIDE DEF c, f, g
<1>7. w \in Views /\ w.cur = c /\ w.conf = f /\ w.slaveof = view[i].slaveof
  BY Zenon, <1>1, <1>5 DEF Views
<1> HIDE DEF w
<1>8. /\ c \in Nat /\ view[i].cur \in Nat /\ \A n \in Nodes : view[i].conf[n] \in Nat
  BY <1>1, <1>5, ViewNumbers, SlotsAssumption DEF Epochs
<1>9. Sound(i, w) /\ Grows(i, view[i], w)
  BY <1>1, <1>3, <1>5, <1>7, <1>8 DEF Sound, Grows, IsMaster
<1>10. \A n \in Nodes : n = i \/ w.conf[n] = view[i].conf[n] \/ Reached(n, w.conf[n])
  BY Zenon, <1>5, <1>7
<1>11. \A m \in net' : m \in net \/ (m \in Heartbeats \union UpdateMessages /\ Fit(m)')
  BY Zenon, <1>1
<1> QED BY Zenon, <1>6, <1>7, <1>9, <1>10, <1>11, OwnStepKeeps

\* Every step keeps the invariant.
LEMMA NextIInv == IInv /\ [Next]_vars => IInv'
<1> SUFFICES ASSUME IInv, [Next]_vars PROVE IInv'
  BY Zenon
<1>1. CASE Next
  <2>0. situation' = situation
    BY Zenon, <1>1 DEF Next
  <2>1. ASSUME NEW i \in Nodes, NEW j \in Nodes, SendHeartbeat(i, j)
        PROVE  IInv'
    BY Zenon, <2>0, <2>1, SendKeeps
  <2>2. ASSUME NEW m \in net, Receive(m)
        PROVE  IInv'
    <3>1. m.type = "heartbeat" \/ m.type = "update"
      BY Zenon, <2>2 DEF Receive
    <3> QED BY Zenon, <2>0, <2>2, <3>1, HeartbeatKeeps, UpdateKeeps
  <2>3. ASSUME NEW m \in net, Lose(m)
        PROVE  IInv'
    BY Zenon, <2>0, <2>3, LoseKeeps
  <2>4. ASSUME NEW r \in Nodes, Failover(r)
        PROVE  IInv'
    BY Zenon, <2>0, <2>4, FailoverKeeps
  <2>5. ASSUME NEW r \in Nodes, Takeover(r)
        PROVE  IInv'
    BY Zenon, <2>0, <2>5, TakeoverKeeps
  <2>6. ASSUME NEW i \in Nodes, NEW s \in Slots, SetSlotImporting(i, s) \/ SetSlotStable(i, s)
        PROVE  IInv'
    BY Zenon, <2>0, <2>6, ImportingKeeps
  <2>7. ASSUME NEW i \in Nodes, NEW s \in Slots, SetSlotNode(i, s)
        PROVE  IInv'
    BY Zenon, <2>0, <2>7, SetSlotNodeKeeps
  <2> QED BY Zenon, <1>1, <2>1, <2>2, <2>3, <2>4, <2>5, <2>6, <2>7 DEF Next
<1>2. CASE UNCHANGED vars
  BY Zenon, <1>2 DEF vars, IInv, TypeOK, ReplicaServesNothing, Reached
<1> QED BY Zenon, <1>1, <1>2

-----------------------------------------------------------------------------
(* The theorems. *)

\* The invariant holds in every reachable state.
THEOREM SlotsInvariant == Spec => []IInv
BY InitIInv, NextIInv, PTL DEF Spec

\* A replica serves no slots in its own view, whatever it is told and in whichever
\* order: the assertion of clusterSetMaster never fails.
THEOREM ReplicasServeNothing == Spec => []ReplicaServesNothing
<1>1. IInv => ReplicaServesNothing
  BY Zenon DEF IInv
<1> QED BY <1>1, SlotsInvariant, PTL

\* Of two masters with one epoch, the one with the smaller name changes its view when it
\* hears from the other.
LEMMA CollisionIsNoticed ==
  ASSUME IInv, NEW i \in Nodes, NEW j \in Nodes, i < j, IsMaster(view[i], i), IsMaster(view[j], j),
         view[i].conf[i] = view[j].conf[j]
  PROVE  Heard(i, Header(j, view[j])) # view[i]
<1>1. /\ view[i] \in Views /\ Sound(i, view[i]) /\ view[j] \in Views /\ Sound(j, view[j])
      /\ Reached(j, view[i].conf[j])
  BY Zenon, IInvFacts
<1>2. PICK h : h = Header(j, view[j])
  BY Zenon
<1>3. PICK e : e = view[j].conf[j]
  BY Zenon
<1>4. h \in Headers /\ h.from = j /\ h.conf = e /\ h.conf <= h.cur /\ h.slaveof = NULL
  BY Zenon, <1>1, <1>2, <1>3, HeaderFacts DEF IsMaster
<1>5. i # j
  BY SlotsAssumption
<1>6. PICK w : w = Told(i, h)
  BY Zenon
<1>7. /\ w \in Views /\ w.cur >= view[i].cur /\ w.conf[i] = e
      /\ w.conf[j] \in {view[i].conf[j], e} /\ w.conf[j] >= e /\ w.slaveof[j] = NULL
  BY <1>1, <1>3, <1>4, <1>5, <1>6, ToldFacts
<1>8. view[i].conf[j] <= e
  BY Zenon, <1>1, <1>3 DEF Reached
<1>9. e \in Nat /\ view[i].conf[j] \in Nat /\ view[i].cur \in Nat /\ w.cur \in Nat
  BY Zenon, <1>1, <1>3, <1>7, ViewNumbers
<1>10. w.conf[j] = e
  BY <1>7, <1>8, <1>9
<1>11. Heard(i, h) = Collide(i, w, h)
  BY Zenon, <1>6 DEF Heard
<1>12. CASE IsMaster(w, i)
  <2>1. Collide(i, w, h) = [w EXCEPT !.cur = @ + 1, !.conf[i] = w.cur + 1]
    BY Zenon, <1>4, <1>7, <1>10, <1>12, SlotsAssumption DEF Collide, Resolves, IsMaster
  <2>2. Collide(i, w, h).cur = w.cur + 1
    BY Zenon, <1>7, <2>1 DEF Views
  <2> QED BY <1>2, <1>7, <1>9, <1>11, <2>2
<1>13. CASE ~IsMaster(w, i)
  BY Zenon, <1>2, <1>11, <1>13 DEF Collide
<1> QED BY Zenon, <1>12, <1>13

\* Once heartbeats change nothing, different masters have different epochs, however they
\* came by them (elections, takeovers or imports): clusterHandleConfigEpochCollision
\* leaves no collision behind.
THEOREM EpochsDiffer == Spec => []StableEpochsDiffer
<1>1. IInv => StableEpochsDiffer
  <2> SUFFICES ASSUME IInv, Stable, NEW i \in Nodes, NEW j \in Nodes, i # j,
                      IsMaster(view[i], i), IsMaster(view[j], j), view[i].conf[i] = view[j].conf[j]
               PROVE  FALSE
    BY Zenon DEF StableEpochsDiffer
  <2>1. i < j \/ j < i
    BY SlotsAssumption
  <2>2. /\ Heard(i, Header(j, view[j])) = view[i]
        /\ Heard(j, Header(i, view[i])) = view[j]
    BY Zenon DEF Stable
  <2> QED BY Zenon, <2>1, <2>2, CollisionIsNoticed
<1> QED BY <1>1, SlotsInvariant, PTL
=============================================================================
