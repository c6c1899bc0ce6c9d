------------------------ MODULE ClusterElectionProofs ------------------------
(***************************************************************************)
(* Proofs about ClusterElection, for every number of voters, replicas and  *)
(* epochs: while no vote reaches a replica between two elections of its,   *)
(* no two replicas win the same epoch.                                     *)
(***************************************************************************)
EXTENDS ClusterElection, FiniteSetTheorems, TLAPS

\* Two majorities of the masters that serve slots have a voter in common.
LEMMA QuorumsIntersect ==
  ASSUME NEW P \in SUBSET Voters, NEW Q \in SUBSET Voters,
         Cardinality(P) >= NeededQuorum, Cardinality(Q) >= NeededQuorum
  PROVE  P \intersect Q # {}
<1>1. Cardinality(P) \in Nat /\ Cardinality(Q) \in Nat /\ Cardinality(Voters) \in Nat
  BY Zenon, FS_Subset, FS_CardinalityType, ElectionAssumption
<1>2. Size + 1 <= 2 * NeededQuorum
  BY ElectionAssumption DEF NeededQuorum
<1>3. Cardinality(P) + Cardinality(Q) > Cardinality(Voters)
  BY <1>1, <1>2, ElectionAssumption DEF NeededQuorum
<1> QED BY Zenon, <1>3, FS_MajoritiesIntersect, ElectionAssumption

\* The votes a replica counts, when all are of one epoch, come from as many voters.
LEMMA CountIsVoters ==
  ASSUME NEW C \in SUBSET (Voters \X Epochs), NEW e, \A x \in C : x[2] = e
  PROVE  Cardinality({x[1] : x \in C}) = Cardinality(C)
<1> DEFINE Q == {x[1] : x \in C}
           f == [v \in Q |-> <<v, e>>]
<1>1. Q \subseteq Voters /\ IsFiniteSet(Q)
  BY FS_Subset, ElectionAssumption
<1>2. \A v \in Q : <<v, e>> \in C
  OBVIOUS
<1>3. f \in Bijection(Q, C)
  <2>1. f \in [Q -> C]
    BY Zenon, <1>2
  <2>2. \A x \in C : \E v \in Q : f[v] = x
    OBVIOUS
  <2>3. IsInjective(f)
    BY Zenon DEF IsInjective
  <2> QED BY Zenon, <2>1, <2>2, <2>3 DEF Bijection, Injection, Surjection
<1>4. ExistsBijection(Q, C)
  BY Zenon, <1>3 DEF ExistsBijection
<1> QED BY Zenon, <1>1, <1>4, FS_Bijection

\* The initial states satisfy the invariant.
LEMMA InitInv == Init => IInv
BY ElectionAssumption DEF Init, IInv, TypeOK, Ages, OneVotePerEpoch, CountsOwnElection, EpochsSaved,
   AsksForNewEpoch, WonByMajority, Nodes, Epochs, Votes

\* currentEpoch never decreases when a message is received.
LEMMA SeenFacts ==
  ASSUME TypeOK, NEW n \in Nodes, NEW e \in Epochs
  PROVE  /\ Seen(n, e) \in [Nodes -> Epochs]
         /\ Seen(n, e)[n] >= e
         /\ \A m \in Nodes : cur[m] <= Seen(n, e)[m]
BY ElectionAssumption DEF TypeOK, Seen, Epochs

\* Setting up an election keeps the invariant: it counts nothing.
LEMMA ScheduleKeeps ==
  ASSUME IInv, NEW r \in Replicas, Schedule(r)
  PROVE  IInv'
BY ElectionAssumption DEF Schedule, FreshCount,
   IInv, TypeOK, Ages, OneVotePerEpoch, CountsOwnElection, EpochsSaved, AsksForNewEpoch,
   WonByMajority, Nodes, Epochs, Votes, authVars, netVars

\* A longer delay keeps the invariant.
LEMMA RankWorsensKeeps ==
  ASSUME IInv, NEW r \in Replicas, RankWorsens(r)
  PROVE  IInv'
BY ZenonT(60), ElectionAssumption DEF RankWorsens, 
   IInv, TypeOK, Ages, OneVotePerEpoch, CountsOwnElection, EpochsSaved, AsksForNewEpoch,
   WonByMajority, Nodes, Epochs, Votes, authVars, netVars

\* The passing of time keeps the invariant.
LEMMA LaterKeeps ==
  ASSUME IInv, NEW r \in Replicas, Later(r)
  PROVE  IInv'
BY ElectionAssumption DEF Later, 
   IInv, TypeOK, Ages, OneVotePerEpoch, CountsOwnElection, EpochsSaved, AsksForNewEpoch,
   WonByMajority, Nodes, Epochs, Votes, authVars, netVars

\* A request keeps the invariant: its epoch is higher than all that were saved.
LEMMA RequestFailoverAuthKeeps ==
  ASSUME IInv, NEW r \in Replicas, RequestFailoverAuth(r)
  PROVE  IInv'
BY SMTT(30), ElectionAssumption DEF RequestFailoverAuth, ElectionEpoch,
   IInv, TypeOK, Ages, OneVotePerEpoch, CountsOwnElection, EpochsSaved, AsksForNewEpoch,
   WonByMajority, Nodes, Epochs, Votes, authVars, netVars

\* A heartbeat keeps the invariant: it raises an epoch in memory.
LEMMA HeartbeatKeeps ==
  ASSUME IInv, NEW n \in Nodes, NEW m \in Nodes, NEW e \in Epochs, Heartbeat(n, m, e)
  PROVE  IInv'
BY ElectionAssumption DEF Heartbeat, 
   IInv, TypeOK, Ages, OneVotePerEpoch, CountsOwnElection, EpochsSaved, AsksForNewEpoch,
   WonByMajority, Nodes, Epochs, Votes, authVars, netVars

\* Saving keeps the invariant.
LEMMA SaveConfigKeeps ==
  ASSUME IInv, NEW n \in Nodes, SaveConfig(n)
  PROVE  IInv'
BY ElectionAssumption DEF SaveConfig, 
   IInv, TypeOK, Ages, OneVotePerEpoch, CountsOwnElection, EpochsSaved, AsksForNewEpoch,
   WonByMajority, Nodes, Epochs, Votes, authVars, netVars

\* A restart keeps the invariant: what it forgets was not saved, and promised
\* to no one.
LEMMA RestartKeeps ==
  ASSUME IInv, NEW n \in Nodes, Restart(n)
  PROVE  IInv'
<1>1. /\ UNCHANGED <<saved, lastVote, given, won>>
      /\ requests' \subseteq requests /\ acks' \subseteq acks
      /\ cur' = [cur EXCEPT ![n] = saved[n]]
  BY Zenon DEF Restart, LoadedVote
<1>2. /\ age' \in [Replicas -> Ages] /\ sent' \in [Replicas -> BOOLEAN]
      /\ epoch' \in [Replicas -> Epochs] /\ counted' \in [Replicas -> SUBSET (Voters \X Epochs)]
  <2>1. CASE UNCHANGED authVars
    BY Zenon, <2>1 DEF authVars, IInv, TypeOK
  <2>2. CASE n \in Replicas /\ ~UNCHANGED authVars
    <3>1. 0 \in Epochs /\ "retry" \in Ages
      BY ElectionAssumption DEF Epochs, Ages
    <3>2. counted' = [counted EXCEPT ![n] = {}] /\ counted \in [Replicas -> SUBSET (Voters \X Epochs)]
      BY Zenon, <2>2 DEF Restart, IInv, TypeOK
    <3>3. counted' \in [Replicas -> SUBSET (Voters \X Epochs)]
      BY Zenon, <3>2
    <3> QED BY ZenonT(60), <2>2, <3>1, <3>3 DEF Restart, IInv, TypeOK
  <2> QED BY Zenon, <2>1, <2>2 DEF Restart
<1>3. \A r \in Replicas : \/ ~sent'[r] /\ counted'[r] = {}
                          \/ sent'[r] = sent[r] /\ counted'[r] = counted[r] /\ epoch'[r] = epoch[r]
  <2>1. CASE UNCHANGED authVars
    BY Zenon, <2>1 DEF authVars
  <2>2. CASE n \in Replicas /\ ~UNCHANGED authVars
    BY ZenonT(60), <2>2 DEF Restart, IInv, TypeOK
  <2> QED BY Zenon, <2>1, <2>2 DEF Restart
<1>4. TypeOK' /\ (acks \subseteq given)'
  BY Zenon, <1>1, <1>2 DEF IInv, TypeOK
<1>5. EpochsSaved'
  BY <1>1, ElectionAssumption DEF IInv, TypeOK, EpochsSaved, Nodes, Epochs
<1>6. CountsOwnElection' /\ AsksForNewEpoch'
  BY <1>1, <1>3 DEF IInv, CountsOwnElection, AsksForNewEpoch
<1>7. OneVotePerEpoch' /\ WonByMajority'
  BY Zenon, <1>1 DEF IInv, OneVotePerEpoch, WonByMajority
<1> QED BY Zenon, <1>4, <1>5, <1>6, <1>7 DEF IInv

\* A refusal keeps the invariant.
LEMMA RefuseKeeps ==
  ASSUME IInv, NEW v \in Voters, NEW e \in Epochs, NEW r \in Replicas, Refuse(v, e, r)
  PROVE  IInv'
BY ElectionAssumption DEF Refuse, Seen,
   IInv, TypeOK, Ages, OneVotePerEpoch, CountsOwnElection, EpochsSaved, AsksForNewEpoch,
   WonByMajority, Nodes, Epochs, Votes, authVars, netVars

\* A vote keeps the invariant: the voter had not voted in this epoch.
LEMMA VoteKeeps ==
  ASSUME IInv, NEW v \in Voters, NEW e \in Epochs, NEW r \in Replicas, Vote(v, e, r)
  PROVE  IInv'
<1>1. Seen(v, e)[v] = e /\ lastVote[v] # e /\ cur[v] <= e
  BY ElectionAssumption DEF Vote, MayVote, IInv, TypeOK, Nodes, Epochs, Seen
<1>0. /\ cur' \in [Nodes -> Epochs] /\ cur'[v] = e /\ \A m \in Nodes : cur[m] <= cur'[m]
      /\ saved' = [saved EXCEPT ![v] = e] /\ lastVote' = [lastVote EXCEPT ![v] = e]
      /\ acks' = acks \union {<<v, e, r>>} /\ given' = given \union {<<v, e, r>>}
      /\ UNCHANGED <<age, sent, epoch, counted, requests, won>> /\ <<r, e>> \in requests
  <2>1. TypeOK /\ v \in Nodes
    BY Zenon DEF IInv, Nodes
  <2> QED BY Zenon, <1>1, <2>1, SeenFacts DEF Vote, authVars
<1>2. \A x \in given : x[1] = v => x[2] < e
  BY <1>1, ElectionAssumption DEF IInv, TypeOK, EpochsSaved, Nodes, Epochs, Votes
<1>3. TypeOK' /\ (acks \subseteq given)'
  BY <1>0, ElectionAssumption DEF IInv, TypeOK, Nodes, Votes
<1>4. OneVotePerEpoch'
  BY <1>0, <1>2, ElectionAssumption DEF IInv, TypeOK, OneVotePerEpoch, Epochs, Votes
<1>5. EpochsSaved'
  <2>1. e <= saved[r] /\ r # v
    BY Zenon, <1>0, ElectionAssumption DEF IInv, EpochsSaved
  <2> QED BY <1>0, <1>1, <1>2, <2>1, ElectionAssumption
          DEF IInv, TypeOK, EpochsSaved, Nodes, Epochs, Votes
<1>6. CountsOwnElection' /\ AsksForNewEpoch'
  BY <1>0, ElectionAssumption DEF IInv, TypeOK, CountsOwnElection, AsksForNewEpoch
<1>7. WonByMajority'
  BY Zenon, <1>0 DEF IInv, WonByMajority
<1> QED BY Zenon, <1>3, <1>4, <1>5, <1>6, <1>7 DEF IInv

\* Counting a vote keeps the invariant: it is of this election.
LEMMA ReceiveAckKeeps ==
  ASSUME IInv, ~LateAcks, NEW v \in Voters, NEW e \in Epochs, NEW r \in Replicas, ReceiveAck(v, e, r)
  PROVE  IInv'
<1>1. sent[r] /\ <<v, e, r>> \in given
  BY Zenon DEF ReceiveAck, IInv
<1>2. e <= epoch[r]
  BY Zenon, <1>1 DEF IInv, AsksForNewEpoch
<1>0. cur' \in [Nodes -> Epochs] /\ \A m \in Nodes : cur[m] <= cur'[m]
  <2>1. TypeOK /\ r \in Nodes
    BY Zenon DEF IInv, Nodes
  <2> QED BY Zenon, <2>1, SeenFacts DEF ReceiveAck
<1>3. TypeOK' /\ (acks \subseteq given)'
  <2>1. <<v, e>> \in Voters \X Epochs
    BY Zenon
  <2>2. counted' \in [Replicas -> SUBSET (Voters \X Epochs)]
    BY Zenon, <2>1 DEF ReceiveAck, IInv, TypeOK
  <2> QED BY Zenon, <1>0, <2>2 DEF ReceiveAck, IInv, TypeOK
<1>4. EpochsSaved'
  BY <1>0, ElectionAssumption DEF ReceiveAck, IInv, TypeOK, EpochsSaved, Nodes, Epochs, Votes
<1>5. CountsOwnElection'
  BY <1>1, <1>2, ElectionAssumption DEF ReceiveAck, IInv, TypeOK, CountsOwnElection, Epochs
<1>6. OneVotePerEpoch' /\ AsksForNewEpoch' /\ WonByMajority'
  BY ZenonT(60), <1>1, ElectionAssumption
     DEF ReceiveAck, IInv, TypeOK, OneVotePerEpoch, AsksForNewEpoch, WonByMajority
<1> QED BY Zenon, <1>3, <1>4, <1>5, <1>6 DEF IInv

\* A win keeps the invariant: the votes counted come from a majority.
LEMMA WinKeeps ==
  ASSUME IInv, NEW r \in Replicas, Win(r)
  PROVE  IInv'
<1> DEFINE Q == {x[1] : x \in counted[r]}
<1>1. \A x \in counted[r] : x[2] = epoch[r] /\ <<x[1], epoch[r], r>> \in given
  BY Zenon DEF Win, IInv, CountsOwnElection
<1>2. Q \in SUBSET Voters /\ Cardinality(Q) >= NeededQuorum
  <2>1. counted[r] \in SUBSET (Voters \X Epochs)
    BY Zenon DEF IInv, TypeOK
  <2>2. Cardinality(Q) = Cardinality(counted[r])
    BY Zenon, <1>1, <2>1, CountIsVoters
  <2> QED BY Zenon, <2>1, <2>2 DEF Win
<1>3. \A v \in Q : <<v, epoch[r], r>> \in given
  BY Zenon, <1>1
<1>4. WonByMajority'
  <2> SUFFICES ASSUME NEW w \in won'
               PROVE  \E P \in SUBSET Voters :
                        /\ Cardinality(P) >= NeededQuorum
                        /\ \A v \in P : <<v, w[1], w[2]>> \in given'
    BY Zenon DEF WonByMajority
  <2>1. CASE w \in won
    BY Zenon, <2>1 DEF Win, IInv, WonByMajority
  <2>2. CASE w = <<epoch[r], r>>
    <3> HIDE DEF Q
    <3> QED BY Zenon, <1>2, <1>3, <2>2 DEF Win
  <2> QED BY Zenon, <2>1, <2>2 DEF Win
<1>5. TypeOK' /\ (acks \subseteq given)' /\ EpochsSaved'
  BY ElectionAssumption DEF Win, IInv, TypeOK, EpochsSaved, Nodes, Epochs, Votes, authVars, netVars
<1>6. OneVotePerEpoch' /\ CountsOwnElection' /\ AsksForNewEpoch'
  BY Zenon DEF Win, IInv, OneVotePerEpoch, CountsOwnElection, AsksForNewEpoch, authVars, netVars
<1> QED BY Zenon, <1>4, <1>5, <1>6 DEF IInv

\* Every step keeps the invariant while no vote is late.
LEMMA NextKeeps ==
  ASSUME ~LateAcks, IInv, [Next]_vars
  PROVE  IInv'
<1>1. CASE UNCHANGED vars
  BY Zenon, <1>1
     DEF vars, authVars, netVars, IInv, TypeOK, OneVotePerEpoch, CountsOwnElection, EpochsSaved,
     AsksForNewEpoch, WonByMajority
<1>2. CASE Next
  BY Zenon, <1>2, ScheduleKeeps, RankWorsensKeeps, LaterKeeps, RequestFailoverAuthKeeps,
     HeartbeatKeeps,
     SaveConfigKeeps, RestartKeeps, RefuseKeeps, VoteKeeps, ReceiveAckKeeps, WinKeeps DEF Next
<1> QED BY Zenon, <1>1, <1>2

\* The invariant holds in every state while no vote is late.
THEOREM ElectionInvariance ==
  ASSUME ~LateAcks
  PROVE  Spec => []IInv
BY InitInv, NextKeeps, PTL DEF Spec

\* Two winners of one epoch would share a voter, who votes once per epoch.
LEMMA InvariantGivesOneWinner == IInv => OneWinnerPerEpoch
<1> SUFFICES ASSUME IInv, NEW x \in won, NEW y \in won, x[1] = y[1]
             PROVE  x = y
  BY Zenon DEF OneWinnerPerEpoch
<1>1. PICK P \in SUBSET Voters : /\ Cardinality(P) >= NeededQuorum
                                /\ \A v \in P : <<v, x[1], x[2]>> \in given
  BY Zenon DEF IInv, WonByMajority
<1>2. PICK Q \in SUBSET Voters : /\ Cardinality(Q) >= NeededQuorum
                                /\ \A v \in Q : <<v, y[1], y[2]>> \in given
  BY Zenon DEF IInv, WonByMajority
<1>3. PICK v \in Voters : v \in P /\ v \in Q
  BY Zenon, <1>1, <1>2, QuorumsIntersect
<1>4. x[2] = y[2]
  BY Zenon, <1>1, <1>2, <1>3 DEF IInv, OneVotePerEpoch
<1> QED BY <1>4 DEF IInv, TypeOK

\* Different replicas never win the same epoch, whatever is lost, delayed or
\* crashes, as long as no vote reaches a replica between two of its elections.
THEOREM ElectionSafety ==
  ASSUME ~LateAcks
  PROVE  Spec => []OneWinnerPerEpoch
BY ElectionInvariance, InvariantGivesOneWinner, PTL

=============================================================================
