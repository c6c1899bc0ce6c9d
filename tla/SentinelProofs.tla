--------------------------- MODULE SentinelProofs ---------------------------
(***************************************************************************)
(* Proofs about Sentinel, for every number of sentinels, instances and     *)
(* epochs: what a restart keeps, that no sentinel votes twice in an epoch, *)
(* that an epoch elects one leader, and that an epoch names one master.    *)
(***************************************************************************)
EXTENDS Sentinel, FiniteSetTheorems, TLAPS

\* The initial states satisfy the invariant.
LEMMA InitInv == Init => IInv
BY DEF Init, IInv, RestartKeepsMaster, CurrentAddress, NoVote, SentinelOrNull

\* A vote changes only to a later epoch, the one it was asked for.
LEMMA VoteFacts ==
  ASSUME NEW v \in [leader : SentinelOrNull, epoch : Nat], NEW k \in Nat, NEW e \in Nat,
         NEW c \in Sentinels
  PROVE  /\ VoteAfter(v, k, c, e) \in [leader : SentinelOrNull, epoch : Nat]
         /\ \/ VoteAfter(v, k, c, e) = v /\ (v.epoch >= e \/ k > e)
            \/ /\ VoteAfter(v, k, c, e) = [leader |-> c, epoch |-> e]
               /\ v.epoch < e
BY DEF VoteAfter, SentinelOrNull

\* What a vote of a sentinel may become.
LaterVote(v, w) == w.epoch >= v.epoch /\ (w.leader \notin {NULL, v.leader} => w.epoch > v.epoch)

\* The election of a sentinel in epoch e, with current epoch k, keeps the invariant if
\* it is not in the last phase and e is not ahead.
LEMMA WaitStartKeeps ==
  ASSUME IInv, NEW s \in Sentinels, NEW k \in Nat, NEW e \in Nat,
         WaitStart(s, k, e), e <= k, phase[s] # "reconf",
         cur' = [cur EXCEPT ![s] = k],
         k = cur[s] \/ (k = cur[s] + 1 /\ e = k)
  PROVE  IInv' /\ \A t \in Sentinels : LaterVote(vote[t], vote'[t])
<1>1. PICK c \in IF MostVoted(s, k) = {} THEN {s} ELSE MostVoted(s, k) :
        LET v == VoteAfter(vote[s], k, c, e)
            wins == Enough(Votes(s, k, s, v, e))
        IN
        /\ vote' = [vote EXCEPT ![s] = v]
        /\ \E abort \in BOOLEAN :
             /\ phase' = [phase EXCEPT ![s] = IF wins THEN "select" ELSE IF abort THEN "none" ELSE "wait"]
             /\ epoch' = [epoch EXCEPT ![s] = IF ~wins /\ abort THEN 0 ELSE e]
             /\ WaitsAfter(s, v # vote[s] /\ c # s, wins \/ abort)
        /\ elected' = IF wins THEN elected \union {[leader |-> s, epoch |-> e, timely |-> e = k]} ELSE elected
        /\ UNCHANGED <<conf, addr, promoted, mixed>>
        /\ IF v # vote[s] THEN Flush(s) ELSE UNCHANGED saved
  BY Zenon DEF WaitStart
<1> DEFINE v == VoteAfter(vote[s], k, c, e)
<1>2. c \in Sentinels
  BY Zenon DEF MostVoted
<1>3. vote[s] \in [leader : SentinelOrNull, epoch : Nat] /\ cur[s] \in Nat
  BY Zenon DEF IInv
<1>4. /\ v \in [leader : SentinelOrNull, epoch : Nat]
      /\ \/ v = vote[s] /\ (vote[s].epoch >= e \/ k > e)
         \/ v = [leader |-> c, epoch |-> e] /\ vote[s].epoch < e
  <2> DEFINE w == vote[s]
  <2>1. w \in [leader : SentinelOrNull, epoch : Nat]
    BY Zenon, <1>3
  <2> HIDE DEF w
  <2>2. /\ VoteAfter(w, k, c, e) \in [leader : SentinelOrNull, epoch : Nat]
        /\ \/ VoteAfter(w, k, c, e) = w /\ (w.epoch >= e \/ k > e)
           \/ VoteAfter(w, k, c, e) = [leader |-> c, epoch |-> e] /\ w.epoch < e
    BY ONLY Zenon, <2>1, <1>2, k \in Nat, e \in Nat, VoteFacts
  <2> QED BY ONLY Zenon, <2>2 DEF w
<1>5. vote' = [vote EXCEPT ![s] = v] /\ UNCHANGED <<conf, addr, promoted>>
  BY Zenon, <1>1
<1>6. PICK p \in {"select", "none", "wait"}, f \in {0, e} :
        phase' = [phase EXCEPT ![s] = p] /\ epoch' = [epoch EXCEPT ![s] = f]
  BY Zenon, <1>1
<1>7. IF v # vote[s] THEN Flush(s) ELSE UNCHANGED saved
  BY Zenon, <1>1
<1> HIDE DEF v
<1>8. /\ cur' \in [Sentinels -> Nat] /\ epoch' \in [Sentinels -> Nat]
      /\ vote' \in [Sentinels -> [leader : SentinelOrNull, epoch : Nat]]
  BY <1>4, <1>5, <1>6 DEF IInv
<1>9. /\ DOMAIN conf' = Sentinels /\ DOMAIN addr' = Sentinels /\ DOMAIN phase' = Sentinels
      /\ DOMAIN promoted' = Sentinels /\ DOMAIN saved' = Sentinels
  BY Zenon, <1>5, <1>6, <1>7 DEF IInv, Flush
<1>10. \A t \in Sentinels : epoch'[t] <= cur'[t] /\ vote'[t].epoch <= cur'[t]
  BY <1>3, <1>4, <1>5, <1>6 DEF IInv
<1>11. CurrentAddress(s)' = addr[s] /\ CurrentAddress(s) = addr[s]
  BY Zenon, <1>5, <1>6 DEF CurrentAddress, IInv
<1>12. RestartKeepsMaster'
  <2>1. SUFFICES ASSUME NEW t \in Sentinels
                 PROVE  /\ saved'[t].cur = cur'[t] /\ saved'[t].voted = vote'[t].epoch
                        /\ saved'[t].addr = CurrentAddress(t)'
    BY Zenon DEF RestartKeepsMaster
  <2>2. CASE t # s
    BY ZenonT(60), <2>2, <1>5, <1>6, <1>7 DEF IInv, RestartKeepsMaster, Flush, CurrentAddress
  <2>3. CASE t = s /\ v # vote[s]
    BY <2>3, <1>7, <1>9 DEF IInv, Flush
  <2>4. CASE t = s /\ v = vote[s]
    <3>1. k = cur[s]
      BY <2>4, <1>3, <1>4 DEF IInv
    <3> QED BY Zenon, <3>1, <2>4, <1>5, <1>7, <1>11 DEF IInv, RestartKeepsMaster
  <2> QED BY Zenon, <2>2, <2>3, <2>4
<1>13. \A t \in Sentinels : LaterVote(vote[t], vote'[t])
  BY <1>3, <1>4, <1>5 DEF IInv, LaterVote
<1> QED BY Zenon, <1>8, <1>9, <1>10, <1>12, <1>13 DEF IInv

\* A switch of sentinel s to instance i keeps it, with current epoch k and once the
\* configuration is flushed.
LEMMA SwitchKeeps ==
  ASSUME IInv, NEW s \in Sentinels, NEW i, SwitchTo(s, i), Flush(s),
         NEW k \in Nat, k >= cur[s], cur' = [cur EXCEPT ![s] = k], DOMAIN conf' = Sentinels
  PROVE  IInv' /\ \A t \in Sentinels : LaterVote(vote[t], vote'[t])
<1>1. /\ addr' = [addr EXCEPT ![s] = i] /\ phase' = [phase EXCEPT ![s] = "none"]
      /\ promoted' = [promoted EXCEPT ![s] = NULL] /\ epoch' = [epoch EXCEPT ![s] = 0]
      /\ vote' = [vote EXCEPT ![s].leader = NULL]
  BY Zenon DEF SwitchTo
<1>2. \A t \in Sentinels : /\ vote'[t] \in [leader : SentinelOrNull, epoch : Nat]
                           /\ vote'[t].epoch = vote[t].epoch
                           /\ vote'[t].leader \in {NULL, vote[t].leader}
  BY <1>1 DEF IInv, SentinelOrNull
<1>3. vote' \in [Sentinels -> [leader : SentinelOrNull, epoch : Nat]]
  BY Zenon, <1>1, <1>2 DEF IInv
<1>4. /\ cur' \in [Sentinels -> Nat] /\ epoch' \in [Sentinels -> Nat]
      /\ \A t \in Sentinels : epoch'[t] <= cur'[t] /\ vote'[t].epoch <= cur'[t]
  BY <1>1, <1>2 DEF IInv
<1>5. /\ DOMAIN addr' = Sentinels /\ DOMAIN phase' = Sentinels
      /\ DOMAIN promoted' = Sentinels /\ DOMAIN saved' = Sentinels
  BY Zenon, <1>1 DEF IInv, Flush
<1>6. ASSUME NEW t \in Sentinels
      PROVE  /\ saved'[t].cur = cur'[t] /\ saved'[t].voted = vote'[t].epoch
             /\ saved'[t].addr = CurrentAddress(t)'
  <2>1. CASE t = s
    BY Zenon, <2>1, <1>5 DEF Flush, IInv
  <2>2. CASE t # s
    <3>1. saved'[t] = saved[t] /\ cur'[t] = cur[t] /\ CurrentAddress(t)' = CurrentAddress(t)
      BY Zenon, <2>2, <1>1 DEF Flush, IInv, CurrentAddress
    <3> QED BY ZenonT(60), <3>1, <1>2 DEF IInv, RestartKeepsMaster
  <2> QED BY Zenon, <2>1, <2>2
<1>7. \A t \in Sentinels : LaterVote(vote[t], vote'[t])
  BY <1>2 DEF LaterVote, IInv
<1> QED BY Zenon, <1>3, <1>4, <1>5, <1>6, <1>7 DEF IInv, RestartKeepsMaster

\* A step that leaves the epochs, the votes, the address named and the file alone.
LEMMA QuietKeeps ==
  ASSUME IInv, UNCHANGED <<cur, vote, saved>>,
         epoch' \in [Sentinels -> Nat], \A t \in Sentinels : epoch'[t] <= cur[t],
         DOMAIN conf' = Sentinels, DOMAIN addr' = Sentinels, DOMAIN phase' = Sentinels,
         DOMAIN promoted' = Sentinels,
         \A t \in Sentinels : CurrentAddress(t)' = CurrentAddress(t)
  PROVE  IInv' /\ \A t \in Sentinels : LaterVote(vote[t], vote'[t])
<1>1. \A t \in Sentinels : LaterVote(vote[t], vote'[t])
  BY DEF LaterVote, IInv
<1>2. RestartKeepsMaster'
  BY Zenon DEF IInv, RestartKeepsMaster
<1> QED BY Zenon, <1>1, <1>2 DEF IInv

\* Every step keeps the invariant, and makes votes only later ones.
LEMMA NextInv ==
  ASSUME IInv, [Next]_vars
  PROVE  IInv' /\ \A t \in Sentinels : LaterVote(vote[t], vote'[t])
<1>1. CASE UNCHANGED vars
  BY Zenon, <1>1, QuietKeeps DEF vars, IInv, CurrentAddress
<1>2. ASSUME NEW s \in Sentinels, TickStart(s)
      PROVE  IInv' /\ \A t \in Sentinels : LaterVote(vote[t], vote'[t])
  <2> DEFINE k == cur[s] + 1
  <2>1. k \in Nat /\ k <= k /\ k = cur[s] + 1
    BY DEF IInv
  <2>2. phase[s] # "reconf" /\ cur' = [cur EXCEPT ![s] = k] /\ WaitStart(s, k, k)
    BY Zenon, <1>2 DEF TickStart
  <2> HIDE DEF k
  <2> QED BY Zenon, <2>1, <2>2, WaitStartKeeps
<1>3. ASSUME NEW s \in Sentinels, TickWait(s)
      PROVE  IInv' /\ \A t \in Sentinels : LaterVote(vote[t], vote'[t])
  <2>1. cur[s] \in Nat /\ epoch[s] \in Nat /\ epoch[s] <= cur[s]
    BY Zenon DEF IInv
  <2>2. /\ phase[s] # "reconf" /\ cur' = [cur EXCEPT ![s] = cur[s]]
        /\ WaitStart(s, cur[s], epoch[s])
    BY Zenon, <1>3 DEF TickWait, IInv
  <2> QED BY Zenon, <2>1, <2>2, WaitStartKeeps
<1>4. ASSUME NEW s \in Sentinels, TickSelect(s) \/ TickPromotion(s)
      PROVE  IInv' /\ \A t \in Sentinels : LaterVote(vote[t], vote'[t])
  <2>1. UNCHANGED <<cur, conf, addr, vote, saved>>
    BY Zenon, <1>4 DEF TickSelect, TickPromotion
  <2>2. PICK p \in {"none", "promotion"} : phase' = [phase EXCEPT ![s] = p]
    BY Zenon, <1>4 DEF TickSelect, TickPromotion, Abort
  <2>8. PICK i : promoted' = [promoted EXCEPT ![s] = i]
    BY Zenon, <1>4 DEF TickSelect, TickPromotion, Abort
  <2>3. epoch' = epoch \/ epoch' = [epoch EXCEPT ![s] = 0]
    BY Zenon, <1>4 DEF TickSelect, TickPromotion, Abort
  <2>4. phase[s] # "reconf"
    BY Zenon, <1>4 DEF TickSelect, TickPromotion
  <2>5. \A t \in Sentinels : CurrentAddress(t)' = CurrentAddress(t)
    BY Zenon, <2>1, <2>2, <2>4, <2>8 DEF CurrentAddress, IInv
  <2>6. epoch' \in [Sentinels -> Nat] /\ \A t \in Sentinels : epoch'[t] <= cur[t]
    BY <2>3 DEF IInv
  <2>7. /\ DOMAIN conf' = Sentinels /\ DOMAIN addr' = Sentinels
        /\ DOMAIN phase' = Sentinels /\ DOMAIN promoted' = Sentinels
    BY Zenon, <2>1, <2>2, <2>8 DEF IInv
  <2> QED BY Zenon, <2>1, <2>5, <2>6, <2>7, QuietKeeps
<1>5. ASSUME NEW s \in Sentinels, TickReconf(s)
      PROVE  IInv' /\ \A t \in Sentinels : LaterVote(vote[t], vote'[t])
  <2>1. SwitchTo(s, promoted[s]) /\ Flush(s) /\ UNCHANGED <<cur, conf>>
    BY Zenon, <1>5 DEF TickReconf
  <2>2. cur[s] \in Nat /\ cur[s] >= cur[s] /\ cur' = [cur EXCEPT ![s] = cur[s]] /\ DOMAIN conf' = Sentinels
    BY <2>1 DEF IInv
  <2> QED BY Zenon, <2>1, <2>2, SwitchKeeps
<1>6. ASSUME NEW s \in Sentinels, InfoPromoted(s)
      PROVE  IInv' /\ \A t \in Sentinels : LaterVote(vote[t], vote'[t])
  <2>1. /\ UNCHANGED <<cur, addr, epoch, promoted, vote>> /\ Flush(s)
        /\ conf' = [conf EXCEPT ![s] = epoch[s]] /\ phase' = [phase EXCEPT ![s] = "reconf"]
    BY Zenon, <1>6 DEF InfoPromoted
  <2>2. \A t \in Sentinels \ {s} : saved'[t] = saved[t] /\ CurrentAddress(t)' = CurrentAddress(t)
    BY Zenon, <2>1 DEF Flush, CurrentAddress, IInv
  <2>3. RestartKeepsMaster'
    BY Zenon, <2>1, <2>2 DEF RestartKeepsMaster, IInv, Flush
  <2>4. \A t \in Sentinels : LaterVote(vote[t], vote'[t])
    BY <2>1 DEF LaterVote, IInv
  <2> QED BY Zenon, <2>1, <2>3, <2>4 DEF IInv, Flush
<1>7. ASSUME NEW s \in Sentinels, NEW t \in Others(s), Ask(s, t)
      PROVE  IInv' /\ \A u \in Sentinels : LaterVote(vote[u], vote'[u])
  <2> DEFINE k == IF cur[s] > cur[t] THEN cur[s] ELSE cur[t]
             v == VoteAfter(vote[t], k, s, cur[s])
  <2>1. /\ UNCHANGED <<conf, addr, phase, epoch, promoted>>
        /\ cur' = [cur EXCEPT ![t] = k] /\ vote' = [vote EXCEPT ![t] = v]
        /\ IF k # cur[t] \/ v # vote[t] THEN Flush(t) ELSE UNCHANGED saved
    BY Zenon, <1>7 DEF Ask, AskedEpoch, Answer
  <2>2. /\ t \in Sentinels /\ k \in Nat /\ k >= cur[t] /\ k >= cur[s]
        /\ vote[t] \in [leader : SentinelOrNull, epoch : Nat] /\ cur[s] \in Nat /\ cur[t] \in Nat
    BY DEF IInv, Others
  <2> HIDE DEF k
  <2>3. /\ v \in [leader : SentinelOrNull, epoch : Nat]
        /\ \/ v = vote[t]
           \/ v = [leader |-> s, epoch |-> cur[s]] /\ vote[t].epoch < cur[s]
    BY Zenon, <2>2, VoteFacts
  <2> HIDE DEF v
  <2>4. /\ cur' \in [Sentinels -> Nat]
        /\ vote' \in [Sentinels -> [leader : SentinelOrNull, epoch : Nat]]
    BY Zenon, <2>1, <2>2, <2>3 DEF IInv
  <2>5. \A u \in Sentinels : epoch'[u] <= cur'[u] /\ vote'[u].epoch <= cur'[u]
    BY <2>1, <2>2, <2>3 DEF IInv
  <2>6. DOMAIN saved' = Sentinels
    BY Zenon, <2>1 DEF IInv, Flush
  <2>7. \A u \in Sentinels : CurrentAddress(u)' = CurrentAddress(u)
    BY Zenon, <2>1 DEF CurrentAddress
  <2>8. RestartKeepsMaster'
    <3>1. SUFFICES ASSUME NEW u \in Sentinels
                   PROVE  /\ saved'[u].cur = cur'[u] /\ saved'[u].voted = vote'[u].epoch
                          /\ saved'[u].addr = CurrentAddress(u)'
      BY Zenon DEF RestartKeepsMaster
    <3>2. CASE u # t
      BY <3>2, <2>1, <2>2, <2>7 DEF IInv, RestartKeepsMaster, Flush
    <3>3. CASE u = t /\ (k # cur[t] \/ v # vote[t])
      BY <3>3, <2>1, <2>2 DEF IInv, Flush
    <3>4. CASE u = t /\ k = cur[t] /\ v = vote[t]
      BY Zenon, <3>4, <2>1, <2>2, <2>7 DEF IInv, RestartKeepsMaster
    <3> QED BY Zenon, <3>2, <3>3, <3>4
  <2>9. \A u \in Sentinels : LaterVote(vote[u], vote'[u])
    BY <2>1, <2>2, <2>3 DEF IInv, LaterVote
  <2> QED BY Zenon, <2>1, <2>4, <2>5, <2>6, <2>8, <2>9 DEF IInv
<1>8. ASSUME NEW s \in Sentinels, NEW t \in Others(s), Forget(s, t)
      PROVE  IInv' /\ \A u \in Sentinels : LaterVote(vote[u], vote'[u])
  BY Zenon, <1>8, QuietKeeps DEF Forget, own, IInv, CurrentAddress
<1>9. ASSUME NEW s \in Sentinels, NEW t \in Others(s), Hello(s, t)
      PROVE  IInv' /\ \A u \in Sentinels : LaterVote(vote[u], vote'[u])
  <2> DEFINE i == CurrentAddress(s)
             newer == Newer(s, t)
             k == IF cur[s] > cur[t] THEN cur[s] ELSE cur[t]
  <2>1. /\ cur' = [cur EXCEPT ![t] = k] /\ DOMAIN conf' = Sentinels
        /\ IF newer /\ i # addr[t] THEN SwitchTo(t, i)
                                   ELSE UNCHANGED <<addr, phase, promoted, epoch, vote>>
        /\ IF cur[s] > cur[t] \/ (newer /\ i # addr[t]) THEN Flush(t) ELSE UNCHANGED saved
    BY Zenon, <1>9 DEF Hello, IInv
  <2>2. /\ t \in Sentinels /\ k \in Nat /\ k >= cur[t] /\ cur[s] \in Nat /\ cur[t] \in Nat
    BY DEF IInv, Others
  <2>3. CASE newer /\ i # addr[t]
    BY Zenon, <2>1, <2>2, <2>3, SwitchKeeps
  <2>4. CASE ~(newer /\ i # addr[t])
    <3>1. UNCHANGED <<addr, phase, promoted, epoch, vote>>
      BY Zenon, <2>1, <2>4
    <3>2. \A u \in Sentinels : CurrentAddress(u)' = CurrentAddress(u)
      BY Zenon, <3>1 DEF CurrentAddress
    <3>3. CASE cur[s] > cur[t]
      <4>1. Flush(t) /\ cur' = [cur EXCEPT ![t] = k]
        BY Zenon, <3>3, <2>1
      <4>2. \A u \in Sentinels \ {t} : saved'[u] = saved[u] /\ cur'[u] = cur[u]
        BY Zenon, <4>1 DEF Flush, IInv
      <4>3. RestartKeepsMaster'
        BY ZenonT(60), <4>1, <4>2, <3>1, <3>2, <2>2 DEF RestartKeepsMaster, IInv, Flush
      <4>4. cur' \in [Sentinels -> Nat] /\ \A u \in Sentinels : epoch'[u] <= cur'[u] /\ vote'[u].epoch <= cur'[u]
        BY <4>1, <3>1, <2>2 DEF IInv
      <4>5. \A u \in Sentinels : LaterVote(vote[u], vote'[u])
        BY <3>1 DEF LaterVote, IInv
      <4> QED BY Zenon, <4>1, <4>3, <4>4, <4>5, <3>1, <2>1 DEF IInv, Flush
    <3>4. CASE ~(cur[s] > cur[t])
      <4>1. UNCHANGED <<cur, vote, saved, epoch, addr, phase, promoted>>
        BY Zenon, <3>1, <3>4, <2>1, <2>4, <2>2 DEF IInv
      <4> QED BY Zenon, <4>1, <3>2, <2>1, QuietKeeps DEF IInv
    <3> QED BY Zenon, <3>3, <3>4
  <2> QED BY Zenon, <2>3, <2>4
<1>10. ASSUME NEW s \in Sentinels, Restart(s)
       PROVE  IInv' /\ \A t \in Sentinels : LaterVote(vote[t], vote'[t])
  <2>1. /\ cur' = [cur EXCEPT ![s] = saved[s].cur] /\ conf' = [conf EXCEPT ![s] = saved[s].conf]
        /\ addr' = [addr EXCEPT ![s] = saved[s].addr]
        /\ vote' = [vote EXCEPT ![s] = [leader |-> NULL, epoch |-> saved[s].voted]]
        /\ phase' = [phase EXCEPT ![s] = "none"] /\ promoted' = [promoted EXCEPT ![s] = NULL]
        /\ epoch' = [epoch EXCEPT ![s] = 0] /\ UNCHANGED saved
    BY Zenon, <1>10 DEF Restart
  <2>2. /\ saved[s].cur = cur[s] /\ saved[s].voted = vote[s].epoch
        /\ saved[s].addr = CurrentAddress(s)
    BY Zenon DEF IInv, RestartKeepsMaster
  <2>3. cur' = cur
    BY Zenon, <2>1, <2>2 DEF IInv
  <2>4. \A t \in Sentinels : /\ vote'[t] \in [leader : SentinelOrNull, epoch : Nat]
                             /\ vote'[t].epoch = vote[t].epoch
                             /\ vote'[t].leader \in {NULL, vote[t].leader}
    BY Zenon, <2>1, <2>2 DEF IInv, SentinelOrNull
  <2>5. vote' \in [Sentinels -> [leader : SentinelOrNull, epoch : Nat]]
    BY Zenon, <2>1, <2>4 DEF IInv
  <2>6. \A t \in Sentinels : CurrentAddress(t)' = CurrentAddress(t)
    BY Zenon, <2>1, <2>2 DEF CurrentAddress, IInv
  <2>7. RestartKeepsMaster'
    BY ZenonT(60), <2>1, <2>3, <2>4, <2>6 DEF RestartKeepsMaster, IInv
  <2>8. \A t \in Sentinels : LaterVote(vote[t], vote'[t])
    BY <2>4 DEF LaterVote, IInv
  <2>9. epoch' \in [Sentinels -> Nat] /\ \A t \in Sentinels : epoch'[t] <= cur'[t] /\ vote'[t].epoch <= cur'[t]
    BY <2>1, <2>3, <2>4 DEF IInv
  <2> QED BY Zenon, <2>1, <2>3, <2>5, <2>7, <2>8, <2>9 DEF IInv
<1> QED BY Zenon, <1>1, <1>2, <1>3, <1>4, <1>5, <1>6, <1>7, <1>8, <1>9, <1>10 DEF Next

\* In every behaviour the configuration file of a sentinel holds its current epoch, its
\* vote and the master it names: sentinelFlushConfig is called wherever one changes.
THEOREM SentinelRestarts == Spec => []RestartKeepsMaster
<1>1. IInv => RestartKeepsMaster
  BY Zenon DEF IInv
<1>2. IInv /\ [Next]_vars => IInv'
  BY Zenon, NextInv
<1> QED BY InitInv, <1>1, <1>2, PTL DEF Spec

\* In every behaviour a sentinel votes once in an epoch, restarts included
\* (sentinelVoteLeader).
THEOREM SentinelVotes == Spec => OneVotePerEpoch
<1>1. IInv /\ [Next]_vars => IInv'
  BY Zenon, NextInv
<1>2. IInv /\ [Next]_vars =>
        [\A s \in Sentinels :
           /\ vote'[s].epoch >= vote[s].epoch
           /\ vote'[s].leader \notin {NULL, vote[s].leader} => vote'[s].epoch > vote[s].epoch]_vars
  BY Zenon, NextInv DEF LaterVote
<1> QED BY InitInv, <1>1, <1>2, PTL DEF Spec, OneVotePerEpoch

-----------------------------------------------------------------------------
(* Elections. *)

\* Forgetting votes of earlier epochs leaves the others as they were.
LEMMA LiveFacts ==
  ASSUME NEW S, NEW h \in [S -> [leader : SentinelOrNull, epoch : Nat]], NEW k \in Nat
  PROVE  /\ Live(h, k) \in [S -> [leader : SentinelOrNull, epoch : Nat]]
         /\ \A t \in S : Live(h, k)[t] \in {NoVote, h[t]}
BY Zenon DEF Live, NoVote, SentinelOrNull

\* What a sentinel has heard of another one after a step: nothing, what it had heard
\* before, or the vote itself.
HearsOnlyVotes ==
  /\ DOMAIN heard' = Sentinels
  /\ \A s \in Sentinels :
       /\ heard'[s] \in [Others(s) -> [leader : SentinelOrNull, epoch : Nat]]
       /\ \A t \in Others(s) : heard'[s][t] \in {NoVote, heard[s][t], vote'[t]}

\* A step in which no sentinel hears anything new.
LEMMA ForgettingHears ==
  ASSUME ElectionInv, NEW s \in Sentinels, NEW k \in Nat,
         heard' = heard \/ heard' = [heard EXCEPT ![s] = Live(@, k)]
  PROVE  HearsOnlyVotes
<1>1. DOMAIN heard = Sentinels /\ \A t \in Sentinels : heard[t] \in [Others(t) -> [leader : SentinelOrNull, epoch : Nat]]
  BY Zenon DEF ElectionInv
<1>2. CASE heard' = heard
  BY Zenon, <1>1, <1>2 DEF HearsOnlyVotes
<1>3. CASE heard' = [heard EXCEPT ![s] = Live(@, k)]
  <2>1. /\ Live(heard[s], k) \in [Others(s) -> [leader : SentinelOrNull, epoch : Nat]]
        /\ \A t \in Others(s) : Live(heard[s], k)[t] \in {NoVote, heard[s][t]}
    BY Zenon, <1>1, LiveFacts
  <2>2. heard'[s] = Live(heard[s], k) /\ \A t \in Sentinels \ {s} : heard'[t] = heard[t]
    BY Zenon, <1>1, <1>3
  <2> QED BY Zenon, <1>1, <1>3, <2>1, <2>2 DEF HearsOnlyVotes
<1> QED BY Zenon, <1>2, <1>3

\* No step makes a sentinel hear anything but votes.
LEMMA NextHears ==
  ASSUME IInv, ElectionInv, [Next]_vars
  PROVE  HearsOnlyVotes
<1>0. /\ cur \in [Sentinels -> Nat] /\ vote \in [Sentinels -> [leader : SentinelOrNull, epoch : Nat]]
      /\ DOMAIN heard = Sentinels
      /\ \A t \in Sentinels : heard[t] \in [Others(t) -> [leader : SentinelOrNull, epoch : Nat]]
  BY Zenon DEF IInv, ElectionInv
<1>1. CASE heard' = heard
  BY Zenon, <1>0, <1>1 DEF HearsOnlyVotes
<1>2. ASSUME NEW s \in Sentinels,
             \/ TickStart(s) \/ TickWait(s) \/ TickSelect(s) \/ TickPromotion(s)
             \/ TickReconf(s) \/ InfoPromoted(s)
      PROVE  HearsOnlyVotes
  <2>1. heard' = heard \/ heard' = [heard EXCEPT ![s] = Live(@, cur[s] + 1)]
    BY Zenon, <1>2 DEF TickStart, TickWait, TickSelect, TickPromotion, TickReconf, InfoPromoted
  <2>2. cur[s] + 1 \in Nat
    BY <1>0
  <2> QED BY Zenon, <2>1, <2>2, ForgettingHears
<1>3. ASSUME NEW s \in Sentinels, Restart(s)
      PROVE  HearsOnlyVotes
  <2>1. heard' = [heard EXCEPT ![s] = [t \in Others(s) |-> NoVote]]
    BY Zenon, <1>3 DEF Restart
  <2> QED BY Zenon, <1>0, <2>1 DEF HearsOnlyVotes, NoVote, SentinelOrNull
<1>4. ASSUME NEW s \in Sentinels, NEW t \in Others(s), Ask(s, t)
      PROVE  HearsOnlyVotes
  <2> DEFINE k == IF cur[s] > cur[t] THEN cur[s] ELSE cur[t]
             v == VoteAfter(vote[t], k, s, cur[s])
             h == [heard EXCEPT ![t] = Live(@, k)]
  <2>1. /\ vote' = [vote EXCEPT ![t] = v]
        /\ heard' = h \/ heard' = [h EXCEPT ![s][t] = v]
    BY Zenon, <1>4 DEF Ask, AskedEpoch, Answer
  <2>2. t \in Sentinels /\ t # s /\ k \in Nat /\ cur[s] \in Nat
    BY Zenon, <1>0 DEF Others
  <2>3. v \in [leader : SentinelOrNull, epoch : Nat]
    BY Zenon, <1>0, <2>2, VoteFacts
  <2> HIDE DEF k, v
  <2>4. /\ Live(heard[t], k) \in [Others(t) -> [leader : SentinelOrNull, epoch : Nat]]
        /\ \A u \in Others(t) : Live(heard[t], k)[u] \in {NoVote, heard[t][u]}
    BY Zenon, <1>0, <2>2, LiveFacts
  <2>5. /\ DOMAIN h = Sentinels /\ h[t] = Live(heard[t], k)
        /\ \A u \in Sentinels \ {t} : h[u] = heard[u]
    BY Zenon, <1>0, <2>2
  <2>6. /\ \A u \in Sentinels : h[u] \in [Others(u) -> [leader : SentinelOrNull, epoch : Nat]]
        /\ \A u \in Sentinels : \A w \in Others(u) : h[u][w] \in {NoVote, heard[u][w]}
    BY Zenon, <1>0, <2>4, <2>5
  <2> HIDE DEF h
  <2>7. vote'[t] = v
    BY Zenon, <1>0, <2>1, <2>2
  <2>8. CASE heard' = h
    BY Zenon, <2>8, <2>5, <2>6 DEF HearsOnlyVotes
  <2>9. CASE heard' = [h EXCEPT ![s][t] = v]
    <3>1. /\ DOMAIN heard' = Sentinels /\ heard'[s] = [h[s] EXCEPT ![t] = v]
          /\ \A u \in Sentinels \ {s} : heard'[u] = h[u]
      BY Zenon, <2>9, <2>5
    <3>2. /\ heard'[s] \in [Others(s) -> [leader : SentinelOrNull, epoch : Nat]]
          /\ \A w \in Others(s) : heard'[s][w] \in {NoVote, heard[s][w], vote'[w]}
      BY <3>1, <2>3, <2>6, <2>7
    <3> QED BY <3>1, <3>2, <2>6 DEF HearsOnlyVotes
  <2> QED BY Zenon, <2>1, <2>8, <2>9
<1>5. ASSUME NEW s \in Sentinels, NEW t \in Others(s), Forget(s, t)
      PROVE  HearsOnlyVotes
  <2>1. heard' = [heard EXCEPT ![s][t] = NoVote]
    BY Zenon, <1>5 DEF Forget
  <2>2. /\ heard'[s] = [heard[s] EXCEPT ![t] = NoVote]
        /\ DOMAIN heard' = Sentinels /\ \A u \in Sentinels \ {s} : heard'[u] = heard[u]
    BY Zenon, <1>0, <2>1
  <2>3. NoVote \in [leader : SentinelOrNull, epoch : Nat]
    BY Zenon DEF NoVote, SentinelOrNull
  <2>4. /\ heard'[s] \in [Others(s) -> [leader : SentinelOrNull, epoch : Nat]]
        /\ \A u \in Others(s) : heard'[s][u] \in {NoVote, heard[s][u]}
    BY ZenonT(60), <1>0, <2>2, <2>3
  <2> QED BY Zenon, <1>0, <2>2, <2>4 DEF HearsOnlyVotes
<1>6. ASSUME NEW s \in Sentinels, NEW t \in Others(s), Hello(s, t)
      PROVE  HearsOnlyVotes
  <2>1. t \in Sentinels /\ heard' = [heard EXCEPT ![t] = Live(@, cur'[t])]
    BY Zenon, <1>6 DEF Hello, Others
  <2>2. cur'[t] \in Nat
    BY Zenon, NextInv, <2>1 DEF IInv
  <2> QED BY Zenon, <2>1, <2>2, ForgettingHears
<1> QED BY Zenon, <1>1, <1>2, <1>3, <1>4, <1>5, <1>6 DEF Next, vars

\* What a sentinel says after a step is what it said, or a vote in a later epoch.
LEMMA SaidStep ==
  ASSUME IInv, ElectionInv, [Next]_vars, NEW t \in Sentinels, NEW w \in Said(t)'
  PROVE  /\ vote'[t].epoch \in Nat /\ vote[t].epoch \in Nat /\ vote'[t].epoch >= vote[t].epoch
         /\ \/ w.leader = NULL \/ w \in Said(t)
            \/ w = vote'[t] /\ w.epoch > vote[t].epoch
<1>1. /\ vote[t] \in [leader : SentinelOrNull, epoch : Nat]
      /\ vote'[t] \in [leader : SentinelOrNull, epoch : Nat]
      /\ LaterVote(vote[t], vote'[t])
  BY Zenon, NextInv DEF IInv
<1>2. \/ vote'[t].leader = NULL \/ vote'[t] = vote[t] \/ vote'[t].epoch > vote[t].epoch
  BY <1>1 DEF LaterVote
<1>3. w = vote'[t] \/ \E s \in Others(t) : w \in {NoVote, heard[s][t], vote'[t]}
  <2>1. w = vote'[t] \/ \E s \in Others(t) : w = heard'[s][t]
    BY Zenon DEF Said
  <2>2. \A s \in Others(t) : s \in Sentinels /\ t \in Others(s)
    BY Zenon DEF Others
  <2> QED BY Zenon, <2>1, <2>2, NextHears DEF HearsOnlyVotes
<1>4. NoVote.leader = NULL
  BY Zenon DEF NoVote
<1> QED BY Zenon, <1>1, <1>2, <1>3, <1>4 DEF LaterVote, Said

\* So votes keep agreeing, and who stands behind a leader goes on doing so.
LEMMA NextAgree ==
  ASSUME IInv, ElectionInv, [Next]_vars
  PROVE  VotesAgree' /\ \A x \in elected, t \in Sentinels : Backs(t, x) => Backs(t, x)'
<1>1. VotesAgree'
  <2> SUFFICES ASSUME NEW t \in Sentinels, NEW v \in Said(t)', NEW w \in Said(t)', v.leader # NULL
               PROVE  /\ v.epoch <= vote'[t].epoch
                      /\ w.leader # NULL /\ v.epoch = w.epoch => v.leader = w.leader
    BY Zenon DEF VotesAgree
  <2>1. /\ vote'[t].epoch \in Nat /\ vote[t].epoch \in Nat /\ vote'[t].epoch >= vote[t].epoch
        /\ v \in Said(t) \/ (v = vote'[t] /\ v.epoch > vote[t].epoch)
        /\ w.leader = NULL \/ w \in Said(t) \/ (w = vote'[t] /\ w.epoch > vote[t].epoch)
    BY Zenon, SaidStep
  <2>2. \A a, b \in Said(t) : a.leader # NULL =>
          /\ a.epoch <= vote[t].epoch
          /\ b.leader # NULL /\ a.epoch = b.epoch => a.leader = b.leader
    BY Zenon DEF ElectionInv, VotesAgree
  <2>3. \A a \in Said(t) : a.epoch \in Nat
    <3>1. \A s \in Others(t) : s \in Sentinels /\ t \in Others(s)
      BY Zenon DEF Others
    <3> QED BY <3>1 DEF Said, ElectionInv, IInv
  <2> QED BY <2>1, <2>2, <2>3
<1>2. ASSUME NEW x \in elected, NEW t \in Sentinels, Backs(t, x)
      PROVE  Backs(t, x)'
  <2>1. x.epoch \in Nat
    BY Zenon DEF ElectionInv
  <2>2. vote'[t].epoch \in Nat /\ vote[t].epoch \in Nat /\ vote'[t].epoch >= vote[t].epoch
    BY Zenon, SaidStep DEF Said
  <2>3. \A v \in Said(t)' : v.leader = NULL \/ v \in Said(t) \/ v.epoch > vote[t].epoch
    BY Zenon, SaidStep
  <2> QED BY <1>2, <2>1, <2>2, <2>3 DEF Backs
<1> QED BY Zenon, <1>1, <1>2

\* The sentinels that stand behind a leader.
Backers(x) == {t \in Sentinels : Backs(t, x)}

\* How many votes elect a leader.
Majority == Cardinality(Sentinels) \div 2 + 1

\* Two majorities of the sentinels have one in common.
LEMMA MajoritiesMeet ==
  ASSUME NEW P \in SUBSET Sentinels, NEW Q \in SUBSET Sentinels,
         Cardinality(P) >= Majority, Cardinality(Q) >= Majority
  PROVE  P \intersect Q # {}
<1>1. Cardinality(P) \in Nat /\ Cardinality(Q) \in Nat /\ Cardinality(Sentinels) \in Nat
  BY Zenon, FS_Subset, FS_CardinalityType, SentinelAssumption
<1>2. Cardinality(P) + Cardinality(Q) > Cardinality(Sentinels)
  BY <1>1 DEF Majority
<1> QED BY Zenon, <1>2, FS_MajoritiesIntersect, SentinelAssumption

\* The votes sentinel s counts for itself come from as many sentinels.
LEMMA CountedVotes ==
  ASSUME NEW s \in Sentinels, NEW k, NEW v, NEW e, Enough(Votes(s, k, s, v, e))
  PROVE  \E Q \in SUBSET Sentinels :
           /\ Cardinality(Q) >= Majority
           /\ \A t \in Q : t \in Voters(s, k, s) \/ (t = s /\ v.leader = s /\ v.epoch = e)
<1> DEFINE V == Voters(s, k, s)
<1>1. V \subseteq Sentinels /\ s \notin V
  BY Zenon DEF Voters, Others
<1>2. IsFiniteSet(V) /\ Cardinality(V) \in Nat
  BY Zenon, <1>1, FS_Subset, FS_CardinalityType, SentinelAssumption
<1>3. CASE v.leader = s /\ v.epoch = e
  <2>1. Cardinality(V \union {s}) = Cardinality(V) + 1
    BY Zenon, <1>1, <1>2, FS_AddElement
  <2>2. Cardinality(V) + 1 >= Majority
    BY Zenon, <1>3 DEF Enough, Votes, Majority
  <2>3. V \union {s} \in SUBSET Sentinels
    BY Zenon, <1>1
  <2> QED BY Zenon, <1>3, <2>1, <2>2, <2>3
<1>4. CASE ~(v.leader = s /\ v.epoch = e)
  <2>1. Cardinality(V) + 0 >= Majority
    BY Zenon, <1>4 DEF Enough, Votes, Majority
  <2> QED BY <1>1, <1>2, <2>1
<1> QED BY Zenon, <1>3, <1>4

\* Sentinel s, in an election of epoch e with current epoch k, is elected.
Elected(s, k, e) ==
  /\ elected' = elected \union {[leader |-> s, epoch |-> e, timely |-> e = k]}
  /\ Enough(Votes(s, k, s, vote'[s], e))
  /\ (phase[s] = "none" /\ k = cur[s] + 1 /\ e = k) \/ (phase[s] = "wait" /\ k = cur[s] /\ e = epoch[s])

\* A step elects nobody, or one sentinel.
LEMMA NextElects ==
  ASSUME IInv, [Next]_vars
  PROVE  elected' = elected \/ \E s \in Sentinels, k \in Nat, e \in Nat : Elected(s, k, e)
<1>0. cur \in [Sentinels -> Nat] /\ epoch \in [Sentinels -> Nat] /\ DOMAIN vote = Sentinels
  BY Zenon DEF IInv
<1>1. ASSUME NEW s \in Sentinels, NEW k \in Nat, NEW e \in Nat, WaitStart(s, k, e),
             (phase[s] = "none" /\ k = cur[s] + 1 /\ e = k) \/ (phase[s] = "wait" /\ k = cur[s] /\ e = epoch[s])
      PROVE  elected' = elected \/ Elected(s, k, e)
  <2>1. PICK c \in IF MostVoted(s, k) = {} THEN {s} ELSE MostVoted(s, k) :
          LET v == VoteAfter(vote[s], k, c, e)
              wins == Enough(Votes(s, k, s, v, e))
          IN /\ vote' = [vote EXCEPT ![s] = v]
             /\ elected' = IF wins THEN elected \union {[leader |-> s, epoch |-> e, timely |-> e = k]}
                           ELSE elected
    BY Zenon, <1>1 DEF WaitStart
  <2>2. vote'[s] = VoteAfter(vote[s], k, c, e)
    BY Zenon, <1>0, <2>1
  <2> QED BY Zenon, <1>1, <2>1, <2>2 DEF Elected
<1>2. ASSUME NEW s \in Sentinels, TickStart(s)
      PROVE  elected' = elected \/ \E k \in Nat, e \in Nat : Elected(s, k, e)
  <2>1. cur[s] + 1 \in Nat /\ phase[s] = "none" /\ WaitStart(s, cur[s] + 1, cur[s] + 1)
    BY <1>0, <1>2 DEF TickStart
  <2> QED BY Zenon, <1>1, <2>1
<1>3. ASSUME NEW s \in Sentinels, TickWait(s)
      PROVE  elected' = elected \/ \E k \in Nat, e \in Nat : Elected(s, k, e)
  <2>1. cur[s] \in Nat /\ epoch[s] \in Nat /\ phase[s] = "wait" /\ WaitStart(s, cur[s], epoch[s])
    BY Zenon, <1>0, <1>3 DEF TickWait
  <2> QED BY Zenon, <1>1, <2>1
<1>4. ASSUME NEW s \in Sentinels,
             TickSelect(s) \/ TickPromotion(s) \/ TickReconf(s) \/ InfoPromoted(s) \/ Restart(s)
      PROVE  elected' = elected
  BY Zenon, <1>4 DEF TickSelect, TickPromotion, TickReconf, InfoPromoted, Restart
<1>5. ASSUME NEW s \in Sentinels, NEW t \in Others(s), Ask(s, t) \/ Forget(s, t) \/ Hello(s, t)
      PROVE  elected' = elected
  BY Zenon, <1>5 DEF Ask, AskedEpoch, Answer, Forget, Hello
<1> QED BY Zenon, <1>2, <1>3, <1>4, <1>5 DEF Next, vars

\* A majority stands behind whoever is elected in time, and behind nobody else.
LEMMA ElectedBacked ==
  ASSUME IInv, ElectionInv, [Next]_vars, NEW s \in Sentinels, NEW e \in Nat, Elected(s, e, e)
  PROVE  /\ Cardinality(Backers([leader |-> s, epoch |-> e, timely |-> TRUE])') >= Majority
         /\ \A x \in elected : x.timely /\ x.epoch = e => x.leader = s
<1> DEFINE y == [leader |-> s, epoch |-> e, timely |-> TRUE]
<1>1. PICK Q \in SUBSET Sentinels :
        /\ Cardinality(Q) >= Majority
        /\ \A t \in Q : t \in Voters(s, e, s) \/ (t = s /\ vote'[s].leader = s /\ vote'[s].epoch = e)
  BY CountedVotes DEF Elected
<1>2. s # NULL
  BY Zenon, SentinelAssumption
<1>3. VotesAgree /\ VotesAgree'
  BY Zenon, NextAgree DEF ElectionInv
<1>4. ASSUME NEW t \in Voters(s, e, s)
      PROVE  /\ t \in Sentinels /\ heard[s][t] \in Said(t)
             /\ heard[s][t].leader = s /\ heard[s][t].epoch = e
  BY Zenon, <1>4 DEF Voters, Others, Said
<1>5. ASSUME NEW t \in Q
      PROVE  Backs(t, y)'
  <2>1. y.leader = s /\ y.epoch = e
    BY Zenon
  <2> HIDE DEF y
  <2>2. CASE t \in Voters(s, e, s)
    <3>1. e <= vote[t].epoch /\ \A v \in Said(t) : v.leader # NULL /\ v.epoch = e => v.leader = s
      BY <1>2, <1>3, <1>4, <2>2 DEF VotesAgree
    <3>2. /\ vote'[t].epoch \in Nat /\ vote[t].epoch \in Nat /\ vote'[t].epoch >= vote[t].epoch
          /\ \A v \in Said(t)' : v.leader = NULL \/ v \in Said(t) \/ v.epoch > vote[t].epoch
      <4>1. vote'[t] \in Said(t)'
        BY Zenon DEF Said
      <4> QED BY Zenon, <4>1, SaidStep
    <3> QED BY <2>1, <3>1, <3>2 DEF Backs
  <2>3. CASE t = s /\ vote'[s].leader = s /\ vote'[s].epoch = e
    <3>1. vote'[s] \in Said(s)'
      BY Zenon DEF Said
    <3>2. \A v \in Said(s)' : v.leader # NULL /\ v.epoch = e => v.leader = s
      BY <1>2, <1>3, <2>3, <3>1 DEF VotesAgree
    <3> QED BY <2>1, <2>3, <3>2 DEF Backs
  <2> QED BY Zenon, <1>1, <2>2, <2>3
<1>6. Cardinality(Backers(y)') >= Majority
  <2> DEFINE B == Backers(y)'
  <2>1. Q \subseteq B /\ B \subseteq Sentinels
    BY Zenon, <1>5 DEF Backers
  <2> HIDE DEF B
  <2>2. IsFiniteSet(B) /\ Cardinality(Q) <= Cardinality(B) /\ Cardinality(Q) \in Nat
          /\ Cardinality(B) \in Nat /\ Cardinality(Sentinels) \in Nat
    BY Zenon, <2>1, FS_Subset, FS_CardinalityType, SentinelAssumption
  <2>3. Cardinality(B) >= Majority
    BY <1>1, <2>2 DEF Majority
  <2> QED BY Zenon, <2>3 DEF B
<1>7. ASSUME NEW x \in elected, x.timely, x.epoch = e
      PROVE  x.leader = s
  <2>1. Backers(x) \in SUBSET Sentinels /\ Cardinality(Backers(x)) >= Majority
    BY Zenon, <1>7 DEF Backers, ElectionInv, Majority
  <2>2. PICK t \in Q : t \in Backers(x)
    BY Zenon, <1>1, <2>1, MajoritiesMeet
  <2>3. Backs(t, x) /\ Backs(t, x)' /\ t \in Sentinels
    BY Zenon, <2>2, NextAgree DEF Backers
  <2>4. CASE t \in Voters(s, e, s)
    BY <1>2, <1>4, <1>7, <2>3, <2>4 DEF Backs
  <2>5. CASE t = s /\ vote'[s].leader = s /\ vote'[s].epoch = e
    BY Zenon, <1>2, <1>7, <2>3, <2>5 DEF Backs, Said
  <2> QED BY Zenon, <1>1, <2>4, <2>5
<1> QED BY Zenon, <1>6, <1>7

\* The invariant of elections holds initially and is kept by every step.
LEMMA InitElection == Init => ElectionInv
<1> SUFFICES ASSUME Init PROVE ElectionInv
  BY Zenon
<1>1. /\ \A t \in Sentinels : vote[t] = NoVote /\ heard[t] = [u \in Others(t) |-> NoVote]
      /\ DOMAIN heard = Sentinels /\ elected = {}
  BY Zenon DEF Init
<1>2. \A t \in Sentinels : \A v \in Said(t) : v = NoVote
  <2>1. \A t \in Sentinels : \A u \in Others(t) : u \in Sentinels /\ t \in Others(u)
    BY Zenon DEF Others
  <2>2. \A t \in Sentinels : \A u \in Others(t) : heard[u][t] = NoVote
    BY <1>1, <2>1
  <2> QED BY Zenon, <1>1, <2>2 DEF Said
<1>3. NoVote \in [leader : SentinelOrNull, epoch : Nat] /\ NoVote.leader = NULL
  BY Zenon DEF NoVote, SentinelOrNull
<1> QED BY <1>1, <1>2, <1>3 DEF ElectionInv, VotesAgree, OneTimelyLeader

\* Every step keeps ElectionInv.
LEMMA NextElection ==
  ASSUME IInv, ElectionInv, [Next]_vars
  PROVE  ElectionInv'
<1>1. /\ DOMAIN heard' = Sentinels
      /\ \A s \in Sentinels : heard'[s] \in [Others(s) -> [leader : SentinelOrNull, epoch : Nat]]
  BY Zenon, NextHears DEF HearsOnlyVotes
<1>2. VotesAgree'
  BY Zenon, NextAgree
<1>3. ASSUME NEW x \in elected, x.timely
      PROVE  Cardinality(Backers(x)') >= Majority
  <2> DEFINE B == Backers(x)
             C == Backers(x)'
  <2>1. B \subseteq C /\ C \subseteq Sentinels /\ Cardinality(B) >= Majority
    BY Zenon, <1>3, NextAgree DEF Backers, ElectionInv, Majority
  <2> HIDE DEF B, C
  <2>2. IsFiniteSet(C) /\ Cardinality(B) <= Cardinality(C) /\ Cardinality(B) \in Nat
          /\ Cardinality(C) \in Nat /\ Cardinality(Sentinels) \in Nat
    BY Zenon, <2>1, FS_Subset, FS_CardinalityType, SentinelAssumption
  <2>3. Cardinality(C) >= Majority
    BY <2>1, <2>2 DEF Majority
  <2> QED BY Zenon, <2>3 DEF C
<1>4. CASE elected' = elected
  <2>1. OneTimelyLeader'
    BY Zenon, <1>4 DEF ElectionInv, OneTimelyLeader
  <2>2. \A x \in elected' : x.timely =>
          Cardinality({t \in Sentinels : Backs(t, x)'}) >= Cardinality(Sentinels) \div 2 + 1
    BY Zenon, <1>3, <1>4 DEF Backers, Majority
  <2>3. elected' \subseteq [leader : Sentinels, epoch : Nat, timely : BOOLEAN]
    BY Zenon, <1>4 DEF ElectionInv
  <2> QED BY Zenon, <1>1, <1>2, <2>1, <2>2, <2>3 DEF ElectionInv
<1>5. ASSUME NEW s \in Sentinels, NEW k \in Nat, NEW e \in Nat, Elected(s, k, e)
      PROVE  ElectionInv'
  <2> DEFINE y == [leader |-> s, epoch |-> e, timely |-> e = k]
  <2>1. elected' = elected \union {y}
    BY Zenon, <1>5 DEF Elected
  <2>2. y \in [leader : Sentinels, epoch : Nat, timely : BOOLEAN]
    BY Zenon
  <2>3. y.leader = s /\ y.epoch = e /\ (y.timely => e = k)
    BY Zenon
  <2>4. ASSUME e = k
        PROVE  /\ Cardinality(Backers(y)') >= Majority
               /\ \A x \in elected : x.timely /\ x.epoch = e => x.leader = s
    <3>1. y = [leader |-> s, epoch |-> e, timely |-> TRUE] /\ Elected(s, e, e)
      BY Zenon, <1>5, <2>4
    <3> QED BY Zenon, <3>1, ElectedBacked
  <2> HIDE DEF y
  <2>5. OneTimelyLeader'
    BY <2>1, <2>3, <2>4 DEF ElectionInv, OneTimelyLeader
  <2>6. \A x \in elected' : x.timely =>
          Cardinality({t \in Sentinels : Backs(t, x)'}) >= Cardinality(Sentinels) \div 2 + 1
    BY Zenon, <1>3, <2>1, <2>3, <2>4 DEF Backers, Majority
  <2>7. elected' \subseteq [leader : Sentinels, epoch : Nat, timely : BOOLEAN]
    BY Zenon, <2>1, <2>2 DEF ElectionInv
  <2> QED BY Zenon, <1>1, <1>2, <2>5, <2>6, <2>7 DEF ElectionInv
<1> QED BY Zenon, <1>4, <1>5, NextElects

\* In every behaviour no two sentinels are elected in one epoch before they learn of a
\* later one, whatever messages are lost and sentinels restarted (sentinelGetLeader).
THEOREM SentinelElects == Spec => []OneTimelyLeader
<1>1. IInv /\ ElectionInv /\ [Next]_vars => (IInv /\ ElectionInv)'
  BY Zenon, NextInv, NextElection
<1>2. ElectionInv => OneTimelyLeader
  BY Zenon DEF ElectionInv
<1> QED BY InitInv, InitElection, <1>1, <1>2, PTL DEF Spec

-----------------------------------------------------------------------------
(* Configurations. *)

\* What sentinel s names, and what it would restart with.
Named(s) == [epoch |-> conf[s], master |-> CurrentAddress(s)]
Stored(s) == [epoch |-> saved[s].conf, master |-> saved[s].addr]

\* The configurations are those that sentinels name or would restart with.
LEMMA ConfigsFacts ==
  /\ \A s \in Sentinels : Named(s) \in Configs /\ Stored(s) \in Configs
  /\ \A c \in Configs : \E s \in Sentinels : c \in {Named(s), Stored(s)}
BY Zenon DEF Configs, Named, Stored

\* After sentinelFlushConfig a restart finds what the sentinel names.
LEMMA FlushStores ==
  ASSUME NEW s \in Sentinels, DOMAIN saved = Sentinels, Flush(s)
  PROVE  Stored(s)' = Named(s)' /\ \A t \in Sentinels \ {s} : saved'[t] = saved[t]
BY Zenon DEF Flush, Stored, Named

\* A step that brings up no configuration and no election, and ends or goes on with
\* those there are.
LEMMA QuietConfig ==
  ASSUME ConfigInv, IInv, IInv', elected' = elected, mixed => mixed',
         elected \subseteq [leader : Sentinels, epoch : Nat, timely : BOOLEAN],
         ~mixed' => \A s \in Sentinels : Named(s)' \in Configs /\ Stored(s)' \in Configs,
         \A s \in Sentinels :
           /\ cur'[s] >= cur[s]
           /\ phase'[s] # "none" => phase[s] # "none" /\ epoch'[s] = epoch[s]
           /\ phase'[s] = "wait" => phase[s] = "wait"
           /\ Leads(s)' => Leads(s)
  PROVE  ConfigInv'
<1>1. \A x \in elected' : x.epoch <= cur'[x.leader]
  BY DEF ConfigInv, IInv
<1>2. \A s \in Sentinels : phase'[s] # "none" => epoch'[s] > 0
  BY Zenon DEF ConfigInv
<1>3. \A s \in Sentinels : phase'[s] = "wait" => \A x \in elected' : x.leader = s => x.epoch < epoch'[s]
  BY Zenon DEF ConfigInv
<1>4. \A s \in Sentinels : Leads(s)' => epoch'[s] = epoch[s] /\ Leads(s)
  BY Zenon DEF Leads
<1>5. \A s \in Sentinels : Leads(s)' => \E x \in elected' : x.leader = s /\ x.epoch = epoch'[s]
  BY <1>4 DEF ConfigInv
<1>6. ASSUME \A x \in elected' : x.timely, ~mixed'
      PROVE  /\ \A c, d \in Configs' : c.epoch = d.epoch => c.master = d.master
             /\ \A c \in Configs' : c.epoch # 0 => \E x \in elected' : x.epoch = c.epoch
             /\ \A c \in Configs', s \in Sentinels : Leads(s)' => c.epoch # epoch'[s]
  <2>1. \A c \in Configs' : c \in Configs
    <3>1. \A c \in Configs' : \E s \in Sentinels : c \in {Named(s)', Stored(s)'}
      BY Zenon DEF Configs, Named, Stored
    <3> QED BY Zenon, <1>6, <3>1
  <2> QED BY <1>4, <1>6, <2>1 DEF ConfigInv
<1> QED BY Zenon, <1>1, <1>2, <1>3, <1>5, <1>6 DEF ConfigInv

\* An election of epoch e, later than those sentinel s has won.
LEMMA WaitStartConfig ==
  ASSUME IInv, ElectionInv, ConfigInv, [Next]_vars,
         NEW s \in Sentinels, NEW k \in Nat, NEW e \in Nat, e > 0, e <= k, k >= cur[s],
         WaitStart(s, k, e), cur' = [cur EXCEPT ![s] = k], phase[s] \in {"none", "wait"},
         \A x \in elected : x.leader = s => x.epoch < e
  PROVE  ConfigInv'
<1>0. /\ DOMAIN conf = Sentinels /\ DOMAIN addr = Sentinels /\ DOMAIN phase = Sentinels
      /\ DOMAIN promoted = Sentinels /\ DOMAIN saved = Sentinels
      /\ epoch \in [Sentinels -> Nat] /\ cur \in [Sentinels -> Nat]
      /\ elected \subseteq [leader : Sentinels, epoch : Nat, timely : BOOLEAN]
  BY Zenon DEF IInv, ElectionInv
<1>1. /\ UNCHANGED <<conf, addr, promoted, mixed>>
      /\ Flush(s) \/ UNCHANGED saved
      /\ \/ /\ phase' = [phase EXCEPT ![s] = "select"] /\ epoch' = [epoch EXCEPT ![s] = e]
            /\ elected' = elected \union {[leader |-> s, epoch |-> e, timely |-> e = k]}
         \/ /\ phase' = [phase EXCEPT ![s] = "none"] /\ elected' = elected
            /\ epoch' = [epoch EXCEPT ![s] = 0]
         \/ /\ phase' = [phase EXCEPT ![s] = "wait"] /\ epoch' = [epoch EXCEPT ![s] = e]
            /\ elected' = elected
  BY ZenonT(60) DEF WaitStart
<1>2. PICK p \in {"select", "none", "wait"}, f \in Nat :
        phase' = [phase EXCEPT ![s] = p] /\ epoch' = [epoch EXCEPT ![s] = f]
  BY Zenon, <1>1
<1>3. \A t \in Sentinels : Named(t)' = Named(t) /\ Stored(t)' \in {Stored(t), Named(t)}
  <2>1. \A t \in Sentinels : Named(t)' = Named(t)
    <3>1. \A t \in Sentinels : phase'[t] = phase[t] \/ "reconf" \notin {phase[t], phase'[t]}
      BY Zenon, <1>0, <1>2
    <3>2. \A t \in Sentinels : CurrentAddress(t)' = CurrentAddress(t)
      BY Zenon, <1>1, <3>1 DEF CurrentAddress
    <3> QED BY Zenon, <1>1, <3>2 DEF Named
  <2>2. CASE UNCHANGED saved
    BY Zenon, <2>1, <2>2 DEF Stored
  <2>3. CASE Flush(s)
    BY Zenon, <1>0, <2>1, <2>3, FlushStores DEF Stored
  <2> QED BY Zenon, <1>1, <2>1, <2>2, <2>3
<1>4. Configs' \subseteq Configs
  <2>1. \A c \in Configs' : \E t \in Sentinels : c \in {Named(t)', Stored(t)'}
    BY Zenon DEF Configs, Named, Stored
  <2> QED BY SMTT(30), <1>3, <2>1, ConfigsFacts
<1>5. \A t \in Sentinels \ {s} : phase'[t] = phase[t] /\ epoch'[t] = epoch[t] /\ cur'[t] = cur[t]
  BY Zenon, <1>0, <1>2
<1>6. cur'[s] = k /\ phase'[s] = p /\ epoch'[s] = f
  BY Zenon, <1>0, <1>2
<1>7. CASE elected' = elected
  <2>1. phase'[s] \in {"none", "wait"} /\ (phase'[s] = "wait" => epoch'[s] = e)
    <3> DEFINE y == [leader |-> s, epoch |-> e, timely |-> e = k]
    <3>1. elected' # elected \union {y}
      <4>1. y.leader = s /\ y.epoch = e
        BY Zenon
      <4>2. y \notin elected
        BY SMTT(30), <4>1
      <4> QED BY Zenon, <1>7, <4>2
    <3> QED BY Zenon, <1>0, <1>1, <3>1
  <2>2. \A x \in elected' : x.epoch <= cur'[x.leader]
    BY SMTT(30), <1>0, <1>5, <1>6, <1>7 DEF ConfigInv
  <2>3. \A t \in Sentinels : phase'[t] # "none" => epoch'[t] > 0
    BY <1>5, <2>1 DEF ConfigInv
  <2>4. \A t \in Sentinels : phase'[t] = "wait" => \A x \in elected' : x.leader = t => x.epoch < epoch'[t]
    BY <1>5, <1>7, <2>1 DEF ConfigInv
  <2>5. \A t \in Sentinels : Leads(t)' => Leads(t) /\ epoch'[t] = epoch[t]
    BY Zenon, <1>5, <2>1 DEF Leads
  <2>6. ASSUME \A x \in elected' : x.timely, ~mixed'
        PROVE  /\ \A c, d \in Configs' : c.epoch = d.epoch => c.master = d.master
               /\ \A c \in Configs' : c.epoch # 0 => \E x \in elected' : x.epoch = c.epoch
               /\ \A c \in Configs', t \in Sentinels : Leads(t)' => c.epoch # epoch'[t]
    <3>1. \A c \in Configs' : c \in Configs
      BY Zenon, <1>4
    <3>2. (\A x \in elected : x.timely) /\ ~mixed
      BY Zenon, <1>1, <1>7, <2>6
    <3> QED BY <1>7, <2>5, <3>1, <3>2 DEF ConfigInv
  <2>7. \A t \in Sentinels : Leads(t)' => \E x \in elected' : x.leader = t /\ x.epoch = epoch'[t]
    BY SMTT(30), <1>7, <2>5 DEF ConfigInv
  <2> QED BY Zenon, <2>2, <2>3, <2>4, <2>6, <2>7 DEF ConfigInv
<1>8. CASE elected' # elected
  <2> DEFINE y == [leader |-> s, epoch |-> e, timely |-> e = k]
  <2>1. phase'[s] = "select" /\ epoch'[s] = e /\ elected' = elected \union {y}
    BY Zenon, <1>0, <1>1, <1>8
  <2>2. y.leader = s /\ y.epoch = e
    BY Zenon
  <2> HIDE DEF y
  <2>3. \A x \in elected' : x.epoch <= cur'[x.leader]
    BY SMTT(30), <1>0, <1>5, <1>6, <2>1, <2>2 DEF ConfigInv
  <2>4. \A t \in Sentinels : phase'[t] # "none" => epoch'[t] > 0
    BY Zenon, <1>5, <2>1 DEF ConfigInv
  <2>5. \A t \in Sentinels : phase'[t] = "wait" => \A x \in elected' : x.leader = t => x.epoch < epoch'[t]
    BY ZenonT(60), <1>5, <2>1, <2>2 DEF ConfigInv
  <2>6. \A t \in Sentinels : Leads(t)' => t = s \/ (Leads(t) /\ epoch'[t] = epoch[t])
    BY Zenon, <1>5 DEF Leads
  <2>7. \A t \in Sentinels : Leads(t)' => \E x \in elected' : x.leader = t /\ x.epoch = epoch'[t]
    BY SMTT(30), <2>1, <2>2, <2>6 DEF ConfigInv
  <2>8. ASSUME \A x \in elected' : x.timely, ~mixed'
        PROVE  /\ \A c, d \in Configs' : c.epoch = d.epoch => c.master = d.master
               /\ \A c \in Configs' : c.epoch # 0 => \E x \in elected' : x.epoch = c.epoch
               /\ \A c \in Configs', t \in Sentinels : Leads(t)' => c.epoch # epoch'[t]
    <3>1. OneTimelyLeader'
      BY Zenon, NextElection DEF ElectionInv
    <3>2. \A x \in elected : x.epoch # e
      BY SMTT(30), <1>0, <2>1, <2>2, <2>8, <3>1 DEF OneTimelyLeader
    <3>3. \A c \in Configs : c.epoch # e
      BY SMTT(30), <1>1, <2>1, <2>8, <3>2 DEF ConfigInv
    <3>4. \A c \in Configs' : c \in Configs
      BY Zenon, <1>4
    <3>5. (\A x \in elected : x.timely) /\ ~mixed
      BY Zenon, <1>1, <2>1, <2>8
    <3> QED BY SMTT(30), <2>1, <2>6, <3>3, <3>4, <3>5 DEF ConfigInv
  <2> QED BY Zenon, <2>3, <2>4, <2>5, <2>7, <2>8 DEF ConfigInv
<1> QED BY Zenon, <1>7, <1>8

\* The leader's replica is a master: the first configuration with the leader's epoch.
LEMMA InfoPromotedConfig ==
  ASSUME IInv, ElectionInv, ConfigInv, [Next]_vars, NEW s \in Sentinels, InfoPromoted(s)
  PROVE  ConfigInv'
<1>0. /\ DOMAIN conf = Sentinels /\ DOMAIN addr = Sentinels /\ DOMAIN phase = Sentinels
      /\ DOMAIN promoted = Sentinels /\ DOMAIN saved = Sentinels
      /\ epoch \in [Sentinels -> Nat] /\ cur \in [Sentinels -> Nat]
  BY Zenon DEF IInv
<1>1. /\ phase[s] = "promotion" /\ UNCHANGED <<cur, addr, epoch, promoted, elected, mixed>>
      /\ conf' = [conf EXCEPT ![s] = epoch[s]] /\ phase' = [phase EXCEPT ![s] = "reconf"]
      /\ Flush(s)
  BY Zenon DEF InfoPromoted
<1>2. /\ conf'[s] = epoch[s] /\ phase'[s] = "reconf"
      /\ \A t \in Sentinels \ {s} : conf'[t] = conf[t] /\ phase'[t] = phase[t]
  BY Zenon, <1>0, <1>1
<1>3. /\ Stored(s)' = Named(s)' /\ Named(s)'.epoch = epoch[s]
      /\ \A t \in Sentinels \ {s} : Stored(t)' = Stored(t) /\ Named(t)' = Named(t)
  <2>1. \A t \in Sentinels \ {s} : CurrentAddress(t)' = CurrentAddress(t)
    BY Zenon, <1>1, <1>2 DEF CurrentAddress
  <2> QED BY ZenonT(60), <1>0, <1>1, <1>2, <2>1, FlushStores DEF Stored, Named
<1>4. \A c \in Configs' : c = Named(s)' \/ c \in Configs
  <2>1. \A c \in Configs' : \E t \in Sentinels : c \in {Named(t)', Stored(t)'}
    BY Zenon DEF Configs, Named, Stored
  <2> QED BY <1>3, <2>1, ConfigsFacts
<1>5. /\ \A x \in elected' : x.epoch <= cur'[x.leader]
      /\ \A t \in Sentinels : phase'[t] # "none" => epoch'[t] > 0
      /\ \A t \in Sentinels : phase'[t] = "wait" => \A x \in elected' : x.leader = t => x.epoch < epoch'[t]
  BY Zenon, <1>1, <1>2 DEF ConfigInv
<1>6. \A t \in Sentinels : Leads(t)' => t # s /\ Leads(t) /\ epoch'[t] = epoch[t]
  BY Zenon, <1>1, <1>2 DEF Leads
<1>7. \A t \in Sentinels : Leads(t)' => \E x \in elected' : x.leader = t /\ x.epoch = epoch'[t]
  BY Zenon, <1>1, <1>6 DEF ConfigInv
<1>8. PICK y \in elected : y.leader = s /\ y.epoch = epoch[s]
  BY Zenon, <1>1 DEF ConfigInv, Leads
<1>9. ASSUME \A x \in elected' : x.timely, ~mixed'
      PROVE  /\ \A c, d \in Configs' : c.epoch = d.epoch => c.master = d.master
             /\ \A c \in Configs' : c.epoch # 0 => \E x \in elected' : x.epoch = c.epoch
             /\ \A c \in Configs', t \in Sentinels : Leads(t)' => c.epoch # epoch'[t]
  <2>1. (\A x \in elected : x.timely) /\ ~mixed
    BY Zenon, <1>1, <1>9
  <2>2. /\ \A c \in Configs : c.epoch # epoch[s]
        /\ \A c, d \in Configs : c.epoch = d.epoch => c.master = d.master
        /\ \A c \in Configs : c.epoch # 0 => \E x \in elected : x.epoch = c.epoch
        /\ \A c \in Configs, t \in Sentinels : Leads(t) => c.epoch # epoch[t]
    BY Zenon, <1>1, <2>1 DEF ConfigInv, Leads
  <2>3. \A t \in Sentinels : Leads(t)' => epoch'[t] # epoch[s]
    <3>1. OneTimelyLeader
      BY Zenon DEF ElectionInv
    <3> QED BY <1>1, <1>6, <1>7, <1>8, <2>1, <3>1 DEF OneTimelyLeader
  <2>4. \A c, d \in Configs' : c.epoch = d.epoch => c.master = d.master
    BY ZenonT(60), <1>3, <1>4, <2>2
  <2>5. \A c \in Configs' : c.epoch # 0 => \E x \in elected' : x.epoch = c.epoch
    BY Zenon, <1>1, <1>3, <1>4, <1>8, <2>2
  <2>6. \A c \in Configs', t \in Sentinels : Leads(t)' => c.epoch # epoch'[t]
    BY ZenonT(60), <1>3, <1>4, <1>6, <2>2, <2>3
  <2> QED BY Zenon, <2>4, <2>5, <2>6
<1> QED BY Zenon, <1>5, <1>7, <1>9 DEF ConfigInv

\* A leader gives up, or selects a replica.
LEMMA LeaderConfig ==
  ASSUME IInv, IInv', ElectionInv, ConfigInv, NEW s \in Sentinels, TickSelect(s) \/ TickPromotion(s)
  PROVE  ConfigInv'
<1>0. /\ DOMAIN phase = Sentinels /\ DOMAIN promoted = Sentinels /\ epoch \in [Sentinels -> Nat]
      /\ cur \in [Sentinels -> Nat]
      /\ elected \subseteq [leader : Sentinels, epoch : Nat, timely : BOOLEAN]
  BY Zenon DEF IInv, ElectionInv
<1>1. UNCHANGED <<cur, conf, addr, saved, elected, mixed>> /\ Leads(s)
  BY Zenon DEF TickSelect, TickPromotion, Leads
<1>2. PICK i : promoted' = [promoted EXCEPT ![s] = i]
  BY Zenon DEF TickSelect, TickPromotion, Abort
<1>3. \/ phase' = [phase EXCEPT ![s] = "none"]
      \/ phase' = [phase EXCEPT ![s] = "promotion"] /\ epoch' = epoch
  BY Zenon DEF TickSelect, TickPromotion, Abort
<1>4. \A t \in Sentinels \ {s} : phase'[t] = phase[t] /\ epoch'[t] = epoch[t] /\ promoted'[t] = promoted[t]
  BY Zenon, <1>0, <1>2 DEF TickSelect, TickPromotion, Abort
<1>5. phase'[s] = "none" \/ (phase'[s] = "promotion" /\ epoch'[s] = epoch[s])
  BY Zenon, <1>0, <1>3
<1>6. \A t \in Sentinels : Named(t)' = Named(t) /\ Stored(t)' = Stored(t)
  <2>1. \A t \in Sentinels : CurrentAddress(t)' = CurrentAddress(t)
    BY Zenon, <1>1, <1>4, <1>5 DEF CurrentAddress, Leads
  <2> QED BY Zenon, <1>1, <2>1 DEF Named, Stored
<1>7. \A t \in Sentinels :
        /\ cur'[t] >= cur[t]
        /\ phase'[t] # "none" => phase[t] # "none" /\ epoch'[t] = epoch[t]
        /\ phase'[t] = "wait" => phase[t] = "wait"
        /\ Leads(t)' => Leads(t)
  BY <1>0, <1>1, <1>4, <1>5 DEF Leads
<1> QED BY Zenon, <1>0, <1>1, <1>6, <1>7, QuietConfig, ConfigsFacts

\* A sentinel switches to a master that goes with its configuration epoch.
LEMMA SwitchConfig ==
  ASSUME IInv, IInv', ElectionInv, ConfigInv, NEW s \in Sentinels, NEW i, SwitchTo(s, i),
         Flush(s), elected' = elected, mixed => mixed',
         [epoch |-> conf'[s], master |-> i] \in Configs,
         \A t \in Sentinels : cur'[t] >= cur[t],
         \A t \in Sentinels \ {s} : conf'[t] = conf[t]
  PROVE  ConfigInv'
<1>0. /\ DOMAIN phase = Sentinels /\ DOMAIN promoted = Sentinels /\ DOMAIN epoch = Sentinels
      /\ DOMAIN addr = Sentinels /\ DOMAIN saved = Sentinels
      /\ elected \subseteq [leader : Sentinels, epoch : Nat, timely : BOOLEAN]
  BY Zenon DEF IInv, ElectionInv
<1>1. /\ addr' = [addr EXCEPT ![s] = i] /\ phase' = [phase EXCEPT ![s] = "none"]
      /\ promoted' = [promoted EXCEPT ![s] = NULL] /\ epoch' = [epoch EXCEPT ![s] = 0]
  BY Zenon DEF SwitchTo
<1>2. addr'[s] = i /\ phase'[s] = "none"
  BY Zenon, <1>0, <1>1
<1>3. \A t \in Sentinels \ {s} :
        phase'[t] = phase[t] /\ epoch'[t] = epoch[t] /\ promoted'[t] = promoted[t] /\ addr'[t] = addr[t]
  BY Zenon, <1>0, <1>1
<1>4. \A t \in Sentinels : Named(t)' \in Configs /\ Stored(t)' \in Configs
  <2>1. \A t \in Sentinels \ {s} : Named(t)' = Named(t) /\ Stored(t)' = Stored(t)
    BY ZenonT(60), <1>0, <1>3, FlushStores DEF Named, Stored, CurrentAddress
  <2>2. Named(s)' = [epoch |-> conf'[s], master |-> i] /\ Stored(s)' = Named(s)'
    BY Zenon, <1>0, <1>2, FlushStores DEF Named, CurrentAddress
  <2> QED BY Zenon, <2>1, <2>2, ConfigsFacts
<1>5. \A t \in Sentinels :
        /\ phase'[t] # "none" => phase[t] # "none" /\ epoch'[t] = epoch[t]
        /\ phase'[t] = "wait" => phase[t] = "wait"
        /\ Leads(t)' => Leads(t)
  BY Zenon, <1>2, <1>3 DEF Leads
<1> QED BY Zenon, <1>0, <1>4, <1>5, QuietConfig

\* A step that leaves the elections, the epochs of configurations and the masters named
\* alone, and writes at most what sentinel s names.
LEMMA SameConfig ==
  ASSUME IInv, IInv', ElectionInv, ConfigInv, NEW s \in Sentinels,
         UNCHANGED <<addr, phase, epoch, promoted, elected>>, mixed => mixed',
         Flush(s) \/ UNCHANGED saved,
         \A t \in Sentinels : cur'[t] >= cur[t] /\ conf'[t] = conf[t]
  PROVE  ConfigInv'
<1>0. /\ DOMAIN saved = Sentinels
      /\ elected \subseteq [leader : Sentinels, epoch : Nat, timely : BOOLEAN]
  BY Zenon DEF IInv, ElectionInv
<1>1. \A t \in Sentinels : Named(t)' = Named(t)
  BY Zenon DEF Named, CurrentAddress
<1>2. \A t \in Sentinels : Stored(t)' \in {Stored(t), Named(t)}
  <2>1. CASE UNCHANGED saved
    BY Zenon, <2>1 DEF Stored
  <2>2. CASE Flush(s)
    BY Zenon, <1>0, <1>1, <2>2, FlushStores DEF Stored
  <2> QED BY Zenon, <2>1, <2>2
<1> QED BY Zenon, <1>0, <1>1, <1>2, QuietConfig, ConfigsFacts DEF Leads

\* A hello message with a later configuration.
LEMMA HelloConfig ==
  ASSUME IInv, IInv', ElectionInv, ConfigInv, NEW s \in Sentinels, NEW t \in Others(s), Hello(s, t)
  PROVE  ConfigInv'
<1> DEFINE i == CurrentAddress(s)
           newer == Newer(s, t)
<1>0. /\ cur \in [Sentinels -> Nat] /\ DOMAIN conf = Sentinels /\ DOMAIN saved = Sentinels
      /\ t \in Sentinels
      /\ elected \subseteq [leader : Sentinels, epoch : Nat, timely : BOOLEAN]
  BY Zenon DEF IInv, ElectionInv, Others
<1>1. /\ cur' = [cur EXCEPT ![t] = IF cur[s] > @ THEN cur[s] ELSE @]
      /\ conf' = [conf EXCEPT ![t] = IF newer THEN conf[s] ELSE @]
      /\ IF newer /\ i # addr[t]
         THEN SwitchTo(t, i)
         ELSE UNCHANGED <<addr, phase, promoted, epoch, vote, waits>>
      /\ mixed' = (mixed \/ (newer /\ i = addr[t] /\ phase[t] = "reconf"))
      /\ UNCHANGED elected
      /\ IF cur[s] > cur[t] \/ (newer /\ i # addr[t]) THEN Flush(t) ELSE UNCHANGED saved
  BY Zenon DEF Hello
<1>2. \A u \in Sentinels : cur'[u] >= cur[u]
  BY <1>0, <1>1
<1>3. /\ conf'[t] = (IF newer THEN conf[s] ELSE conf[t])
      /\ \A u \in Sentinels \ {t} : conf'[u] = conf[u]
  BY Zenon, <1>0, <1>1
<1>4. mixed => mixed'
  BY Zenon, <1>1
<1>5. CASE newer /\ i # addr[t]
  <2>1. SwitchTo(t, i) /\ Flush(t) /\ conf'[t] = conf[s]
    BY Zenon, <1>1, <1>3, <1>5
  <2>2. [epoch |-> conf'[t], master |-> i] \in Configs
    BY Zenon, <2>1, ConfigsFacts DEF Named
  <2> QED BY Zenon, <1>0, <1>1, <1>2, <1>3, <1>4, <2>1, <2>2, SwitchConfig
<1>6. CASE ~newer
  <2>1. /\ \A u \in Sentinels : conf'[u] = conf[u]
        /\ Flush(t) \/ UNCHANGED saved
        /\ UNCHANGED <<addr, phase, promoted, epoch>>
    BY Zenon, <1>1, <1>3, <1>6
  <2> QED BY Zenon, <1>0, <1>1, <1>2, <1>4, <2>1, SameConfig
<1>7. CASE newer /\ i = addr[t]
  <2>1. UNCHANGED <<addr, phase, promoted, epoch>> /\ conf'[t] = conf[s]
    BY Zenon, <1>1, <1>3, <1>7
  <2>2. Flush(t) \/ UNCHANGED saved
    BY Zenon, <1>1
  <2>3. \A u \in Sentinels : CurrentAddress(u)' = CurrentAddress(u)
    BY Zenon, <2>1 DEF CurrentAddress
  <2>4. ASSUME ~mixed'
        PROVE  \A u \in Sentinels : Named(u)' \in Configs /\ Stored(u)' \in Configs
    <3>1. CurrentAddress(t) = i
      BY Zenon, <1>1, <1>7, <2>4 DEF CurrentAddress
    <3>2. Named(t)' = Named(s)
      BY Zenon, <1>0, <2>1, <2>3, <3>1 DEF Named
    <3>5. \A u \in Sentinels \ {t} : Named(u)' = Named(u)
      BY Zenon, <1>3, <2>3 DEF Named
    <3>3. \A u \in Sentinels \ {t} : Stored(u)' = Stored(u)
      BY Zenon, <1>0, <2>2, FlushStores DEF Stored
    <3>4. Stored(t)' \in {Stored(t), Named(t)'}
      BY Zenon, <1>0, <2>2, FlushStores DEF Stored
    <3> QED BY Zenon, <3>2, <3>3, <3>4, <3>5, ConfigsFacts
  <2>5. \A u \in Sentinels :
          /\ phase'[u] # "none" => phase[u] # "none" /\ epoch'[u] = epoch[u]
          /\ phase'[u] = "wait" => phase[u] = "wait"
          /\ Leads(u)' => Leads(u)
    BY Zenon, <2>1 DEF Leads
  <2> QED BY Zenon, <1>0, <1>1, <1>2, <1>4, <2>4, <2>5, QuietConfig
<1> QED BY Zenon, <1>5, <1>6, <1>7

\* A restart brings back the configuration that was stored.
LEMMA RestartConfig ==
  ASSUME IInv, IInv', ElectionInv, ConfigInv, NEW s \in Sentinels, Restart(s)
  PROVE  ConfigInv'
<1>0. /\ DOMAIN phase = Sentinels /\ DOMAIN promoted = Sentinels /\ DOMAIN epoch = Sentinels
      /\ DOMAIN addr = Sentinels /\ DOMAIN saved = Sentinels /\ DOMAIN conf = Sentinels
      /\ cur \in [Sentinels -> Nat] /\ saved[s].cur = cur[s]
      /\ elected \subseteq [leader : Sentinels, epoch : Nat, timely : BOOLEAN]
  BY Zenon DEF IInv, ElectionInv, RestartKeepsMaster
<1>1. /\ cur' = [cur EXCEPT ![s] = saved[s].cur] /\ conf' = [conf EXCEPT ![s] = saved[s].conf]
      /\ addr' = [addr EXCEPT ![s] = saved[s].addr] /\ phase' = [phase EXCEPT ![s] = "none"]
      /\ promoted' = [promoted EXCEPT ![s] = NULL] /\ epoch' = [epoch EXCEPT ![s] = 0]
      /\ UNCHANGED <<saved, elected, mixed>>
  BY Zenon DEF Restart
<1>2. conf'[s] = saved[s].conf /\ addr'[s] = saved[s].addr /\ phase'[s] = "none"
  BY Zenon, <1>0, <1>1
<1>3. \A t \in Sentinels \ {s} :
        /\ phase'[t] = phase[t] /\ epoch'[t] = epoch[t] /\ promoted'[t] = promoted[t]
        /\ addr'[t] = addr[t] /\ conf'[t] = conf[t]
  BY Zenon, <1>0, <1>1
<1>4. \A t \in Sentinels : Named(t)' \in {Named(t), Stored(t)} /\ Stored(t)' = Stored(t)
  BY SMTT(30), <1>1, <1>2, <1>3 DEF Named, Stored, CurrentAddress
<1>5. \A t \in Sentinels :
        /\ cur'[t] >= cur[t]
        /\ phase'[t] # "none" => phase[t] # "none" /\ epoch'[t] = epoch[t]
        /\ phase'[t] = "wait" => phase[t] = "wait"
        /\ Leads(t)' => Leads(t)
  BY SMTT(30), <1>0, <1>1, <1>2, <1>3 DEF Leads
<1> QED BY ZenonT(60), <1>0, <1>1, <1>4, <1>5, QuietConfig, ConfigsFacts

\* The invariant of configurations holds initially and is kept by every step.
LEMMA InitConfig == Init => ConfigInv
<1> SUFFICES ASSUME Init PROVE ConfigInv
  BY Zenon
<1>1. /\ \A s \in Sentinels : phase[s] = "none" /\ ~Leads(s) /\ elected = {}
      /\ \A s \in Sentinels : Named(s) = [epoch |-> 0, master |-> Master] /\ Stored(s) = Named(s)
  BY Zenon DEF Init, Leads, Named, Stored, CurrentAddress
<1>2. \A c \in Configs : c = [epoch |-> 0, master |-> Master]
  BY Zenon, <1>1, ConfigsFacts
<1>3. elected = {}
  BY Zenon DEF Init
<1> QED BY SMTT(30), <1>1, <1>2, <1>3 DEF ConfigInv

\* Every step keeps ConfigInv.
LEMMA NextConfig ==
  ASSUME IInv, ElectionInv, ConfigInv, [Next]_vars
  PROVE  ConfigInv'
<1>0. IInv' /\ cur \in [Sentinels -> Nat] /\ epoch \in [Sentinels -> Nat]
  BY Zenon, NextInv DEF IInv
<1>1. CASE UNCHANGED vars
  <2>1. CASE Sentinels = {}
    BY Zenon, <1>1, <2>1 DEF ConfigInv, Configs, Leads, vars
  <2>2. CASE Sentinels # {}
    <3>1. \A t \in Sentinels : cur'[t] >= cur[t]
      BY <1>0, <1>1 DEF vars
    <3> QED BY Zenon, <1>0, <1>1, <2>2, <3>1, SameConfig DEF vars
  <2> QED BY Zenon, <2>1, <2>2
<1>2. ASSUME NEW s \in Sentinels, TickStart(s)
      PROVE  ConfigInv'
  <2>1. /\ phase[s] = "none" /\ cur' = [cur EXCEPT ![s] = cur[s] + 1]
        /\ WaitStart(s, cur[s] + 1, cur[s] + 1)
    BY Zenon, <1>2 DEF TickStart
  <2> DEFINE k == cur[s] + 1
  <2>2. k \in Nat /\ k > 0 /\ k >= cur[s] /\ k <= k
    BY <1>0
  <2>3. \A x \in elected : x.leader = s => x.epoch < k
    BY <1>0 DEF ConfigInv, ElectionInv
  <2>4. WaitStart(s, k, k) /\ cur' = [cur EXCEPT ![s] = k]
    BY Zenon, <2>1
  <2> HIDE DEF k
  <2> QED BY Zenon, <2>1, <2>2, <2>3, <2>4, WaitStartConfig
<1>3. ASSUME NEW s \in Sentinels, TickWait(s)
      PROVE  ConfigInv'
  <2>1. phase[s] = "wait" /\ cur' = [cur EXCEPT ![s] = cur[s]] /\ WaitStart(s, cur[s], epoch[s])
    BY Zenon, <1>0, <1>3 DEF TickWait
  <2>2. /\ cur[s] \in Nat /\ epoch[s] \in Nat /\ epoch[s] > 0 /\ epoch[s] <= cur[s] /\ cur[s] >= cur[s]
        /\ \A x \in elected : x.leader = s => x.epoch < epoch[s]
    BY <1>0, <2>1 DEF ConfigInv, IInv
  <2> QED BY Zenon, <2>1, <2>2, WaitStartConfig
<1>4. ASSUME NEW s \in Sentinels, TickReconf(s)
      PROVE  ConfigInv'
  <2>1. /\ phase[s] = "reconf" /\ SwitchTo(s, promoted[s]) /\ Flush(s)
        /\ UNCHANGED <<cur, conf, elected, mixed>>
    BY Zenon, <1>4 DEF TickReconf
  <2>2. Named(s) = [epoch |-> conf'[s], master |-> promoted[s]]
    BY Zenon, <2>1 DEF Named, CurrentAddress
  <2> QED BY <1>0, <2>1, <2>2, SwitchConfig, ConfigsFacts
<1>5. ASSUME NEW s \in Sentinels, NEW t \in Others(s), Ask(s, t)
      PROVE  ConfigInv'
  <2>1. /\ UNCHANGED <<conf, addr, phase, epoch, promoted, elected, mixed>>
        /\ cur' = [cur EXCEPT ![t] = IF cur[s] > cur[t] THEN cur[s] ELSE cur[t]]
        /\ Flush(t) \/ UNCHANGED saved
    BY Zenon, <1>5 DEF Ask, AskedEpoch, Answer
  <2>2. t \in Sentinels /\ \A u \in Sentinels : cur'[u] >= cur[u]
    BY <1>0, <2>1 DEF Others
  <2> QED BY Zenon, <1>0, <2>1, <2>2, SameConfig
<1>6. ASSUME NEW s \in Sentinels, NEW t \in Others(s), Forget(s, t)
      PROVE  ConfigInv'
  <2>1. \A u \in Sentinels : cur'[u] >= cur[u]
    BY <1>0, <1>6 DEF Forget, own
  <2> QED BY Zenon, <1>0, <1>6, <2>1, SameConfig DEF Forget, own
<1> QED
  BY Zenon, <1>0, <1>1, <1>2, <1>3, <1>4, <1>5, <1>6, LeaderConfig, InfoPromotedConfig, HelloConfig,
     RestartConfig DEF Next

\* In every behaviour in which leaders are elected in time, and none takes over an
\* epoch without its master, two sentinels whose configurations have the same epoch
\* name the same master: what sentinelProcessHelloMessage relies on.
THEOREM SentinelAgrees == Spec => []SameEpochSameMaster
<1>1. IInv /\ ElectionInv /\ ConfigInv /\ [Next]_vars => (IInv /\ ElectionInv /\ ConfigInv)'
  BY Zenon, NextInv, NextElection, NextConfig
<1>2. ConfigInv => SameEpochSameMaster
  <2> SUFFICES ASSUME ConfigInv, \A x \in elected : x.timely, ~mixed,
                      NEW s \in Sentinels, NEW t \in Sentinels, conf[s] = conf[t]
               PROVE  CurrentAddress(s) = CurrentAddress(t)
    BY Zenon DEF SameEpochSameMaster
  <2>1. Named(s).epoch = Named(t).epoch => Named(s).master = Named(t).master
    BY Zenon, ConfigsFacts DEF ConfigInv
  <2> QED BY Zenon, <2>1 DEF Named
<1> QED BY InitInv, InitElection, InitConfig, <1>1, <1>2, PTL DEF Spec
=============================================================================
