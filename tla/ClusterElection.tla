--------------------------- MODULE ClusterElection ---------------------------
(***************************************************************************)
(* Who may replace a failed master: the failover elections of cluster.c.   *)
(*                                                                         *)
(* Replicas of one master ask the masters that serve slots for their vote. *)
(* A vote is given once per epoch; a replica that counts a majority takes  *)
(* the epoch of the election as its configEpoch.  Messages are delayed and *)
(* reordered, or lost, which is to be never received; nodes crash and      *)
(* restart from nodes.conf.                                                *)
(*                                                                         *)
(* A node's clock appears as the age of its election: how far its          *)
(* failover_auth_time lies ahead or behind, against auth_timeout and       *)
(* auth_retry_time.  The set of voters is fixed.                           *)
(***************************************************************************)
EXTENDS Naturals, FiniteSets

CONSTANTS
  Voters,     \* the masters that serve slots and can be asked
  Size,       \* server.cluster->size: all masters that serve slots
  Replicas,   \* the replicas of the failing master
  MaxEpoch,   \* bound of the model: no election is started beyond this epoch
  LateAcks    \* whether a vote may reach a replica whose next election is scheduled

Nodes == Voters \union Replicas
Epochs == 0..MaxEpoch
Votes == Voters \X Epochs \X Replicas

ASSUME ElectionAssumption ==
  /\ IsFiniteSet(Voters) /\ Size \in Nat /\ Cardinality(Voters) <= Size
  /\ Voters \intersect Replicas = {}
  /\ MaxEpoch \in Nat /\ LateAcks \in BOOLEAN

VARIABLES
  cur,        \* server.cluster->currentEpoch
  saved,      \* currentEpoch as nodes.conf has it
  lastVote,   \* server.cluster->lastVoteEpoch, which is saved whenever it changes
  age,        \* auth_age: ahead of failover_auth_time, in time, too old, or old enough to retry
  sent,       \* server.cluster->failover_auth_sent
  epoch,      \* server.cluster->failover_auth_epoch
  counted,    \* the votes that make up failover_auth_count: who gave them, in which epoch
  requests,   \* every FAILOVER_AUTH_REQUEST sent: <<replica, epoch>>
  acks,       \* FAILOVER_AUTH_ACK messages under way: <<voter, epoch, replica>>
  given,      \* every vote given so far
  won         \* every election won so far: <<epoch, replica>>

authVars == <<age, sent, epoch, counted>>
netVars == <<requests, acks>>
vars == <<cur, saved, lastVote, authVars, netVars, given, won>>

Ages == {"ahead", "open", "expired", "retry"}

Init ==
  /\ cur = [n \in Nodes |-> 0] /\ saved = [n \in Nodes |-> 0]
  /\ lastVote = [v \in Voters |-> 0]
  /\ age = [r \in Replicas |-> "retry"]   \* failover_auth_time = 0
  /\ sent = [r \in Replicas |-> FALSE]
  /\ epoch = [r \in Replicas |-> 0]
  /\ counted = [r \in Replicas |-> {}]
  /\ requests = {} /\ acks = {} /\ given = {} /\ won = {}

\* The header of every message raises currentEpoch, in memory only.
Seen(n, e) == IF e > cur[n] THEN [cur EXCEPT ![n] = e] ELSE cur

-----------------------------------------------------------------------------
(* The replica: clusterHandleSlaveFailover. *)

\* What an election that is set up anew starts to count from.
FreshCount(r) == {}

\* auth_age > auth_retry_time: the election is set up for later.  Its epoch stays
\* that of the previous one until the request is sent.
Schedule(r) ==
  /\ age[r] = "retry"
  /\ age' = [age EXCEPT ![r] = "ahead"]
  /\ sent' = [sent EXCEPT ![r] = FALSE]
  /\ counted' = [counted EXCEPT ![r] = FreshCount(r)]
  /\ UNCHANGED <<cur, saved, lastVote, epoch, netVars, given, won>>

\* Replicas with more data were heard of: the rank grows and with it the delay.
RankWorsens(r) ==
  /\ ~sent[r] /\ age[r] \in {"open", "expired"}
  /\ age' = [age EXCEPT ![r] = "ahead"]
  /\ UNCHANGED <<cur, saved, lastVote, sent, epoch, counted, netVars, given, won>>

\* currentEpoch++ before the request, saved with it by clusterBeforeSleep.
ElectionEpoch(r) == cur[r] + 1

\* The request goes to every node; only voters may answer it.
RequestFailoverAuth(r) ==
  LET e == ElectionEpoch(r) IN
  /\ age[r] = "open" /\ ~sent[r] /\ e <= MaxEpoch
  /\ cur' = [cur EXCEPT ![r] = e]
  /\ saved' = [saved EXCEPT ![r] = e]
  /\ epoch' = [epoch EXCEPT ![r] = e]
  /\ sent' = [sent EXCEPT ![r] = TRUE]
  /\ requests' = requests \union {<<r, e>>}
  /\ UNCHANGED <<lastVote, age, counted, acks, given, won>>

\* (server.cluster->size / 2) + 1
NeededQuorum == Size \div 2 + 1

\* The election is won: the replica takes its epoch as configEpoch, and its
\* master's slots.
Win(r) ==
  /\ age[r] = "open" /\ sent[r]
  /\ Cardinality(counted[r]) >= NeededQuorum
  /\ won' = won \union {<<epoch[r], r>>}
  /\ saved' = [saved EXCEPT ![r] = cur[r]]
  /\ UNCHANGED <<cur, lastVote, authVars, netVars, given>>

\* Time passes.
Later(r) ==
  /\ age[r] # "retry"
  /\ age' = [age EXCEPT ![r] = CASE age[r] = "ahead" -> "open" [] age[r] = "open" -> "expired"
                                 [] age[r] = "expired" -> "retry"]
  /\ UNCHANGED <<cur, saved, lastVote, sent, epoch, counted, netVars, given, won>>

\* A vote arrives and is counted unless its epoch is older than the election's.
ReceiveAck(v, e, r) ==
  /\ <<v, e, r>> \in acks /\ (LateAcks \/ sent[r])
  /\ acks' = acks \ {<<v, e, r>>}
  /\ cur' = Seen(r, e)
  /\ counted' = IF e >= epoch[r] THEN [counted EXCEPT ![r] = @ \union {<<v, e>>}] ELSE counted
  /\ UNCHANGED <<saved, lastVote, age, sent, epoch, requests, given, won>>

-----------------------------------------------------------------------------
(* The voter: clusterSendFailoverAuthIfNeeded. *)

\* The epochs of request and voter agree, and there was no vote in this one.
BugMayVote(v, e) == e >= Seen(v, e)[v]
MayVote(v, e) == e >= Seen(v, e)[v] /\ lastVote[v] # Seen(v, e)[v]

\* lastVoteEpoch and currentEpoch are saved before the answer leaves.  A request
\* may be read at any time; to read it twice makes no difference.
Vote(v, e, r) ==
  /\ <<r, e>> \in requests /\ MayVote(v, e)
  /\ cur' = Seen(v, e)
  /\ lastVote' = [lastVote EXCEPT ![v] = Seen(v, e)[v]]
  /\ saved' = [saved EXCEPT ![v] = Seen(v, e)[v]]
  /\ acks' = acks \union {<<v, Seen(v, e)[v], r>>}
  /\ given' = given \union {<<v, Seen(v, e)[v], r>>}
  /\ UNCHANGED <<authVars, requests, won>>

\* The vote is refused: as above, or because this voter does not think that the
\* master is down, has voted about it lately, or knows a newer owner of a slot.
Refuse(v, e, r) ==
  /\ <<r, e>> \in requests
  /\ cur' = Seen(v, e)
  /\ UNCHANGED <<saved, lastVote, authVars, netVars, given, won>>

-----------------------------------------------------------------------------
(* The rest of the world. *)

\* A heartbeat, sent at some time in the past, brings an epoch.
Heartbeat(n, m, e) ==
  /\ e <= cur[m] /\ e > cur[n]
  /\ cur' = [cur EXCEPT ![n] = e]
  /\ UNCHANGED <<saved, lastVote, authVars, netVars, given, won>>

\* nodes.conf is written for some other reason.
SaveConfig(n) ==
  /\ saved[n] # cur[n]
  /\ saved' = [saved EXCEPT ![n] = cur[n]]
  /\ UNCHANGED <<cur, lastVote, authVars, netVars, given, won>>

\* lastVoteEpoch after clusterLoadConfig.
BugLoadedVote(n) == IF n \in Voters THEN [lastVote EXCEPT ![n] = 0] ELSE lastVote
LoadedVote(n) == lastVote

\* A node crashes and comes back from nodes.conf, without its election.  With its
\* connections go the messages to it and the requests it made: a voter that still
\* reads one has no link for the answer.
Restart(n) ==
  /\ cur' = [cur EXCEPT ![n] = saved[n]]
  /\ lastVote' = LoadedVote(n)
  /\ \/ n \in Voters /\ UNCHANGED authVars
     \/ /\ n \in Replicas
        /\ age' = [age EXCEPT ![n] = "retry"]
        /\ sent' = [sent EXCEPT ![n] = FALSE]
        /\ epoch' = [epoch EXCEPT ![n] = 0]
        /\ counted' = [counted EXCEPT ![n] = {}]
  /\ requests' = {m \in requests : m[1] # n}
  /\ acks' = {m \in acks : m[3] # n}
  /\ UNCHANGED <<saved, given, won>>

-----------------------------------------------------------------------------

Next ==
  \/ \E r \in Replicas :
       Schedule(r) \/ RankWorsens(r) \/ RequestFailoverAuth(r) \/ Win(r) \/ Later(r)
  \/ \E v \in Voters, e \in Epochs, r \in Replicas :
       ReceiveAck(v, e, r) \/ Vote(v, e, r) \/ Refuse(v, e, r)
  \/ \E n, m \in Nodes, e \in Epochs : Heartbeat(n, m, e)
  \/ \E n \in Nodes : SaveConfig(n) \/ Restart(n)

Spec == Init /\ [][Next]_vars

-----------------------------------------------------------------------------
(* Safety. *)

\* Every variable has its type.
TypeOK ==
  /\ cur \in [Nodes -> Epochs] /\ saved \in [Nodes -> Epochs]
  /\ lastVote \in [Voters -> Epochs]
  /\ age \in [Replicas -> Ages] /\ sent \in [Replicas -> BOOLEAN]
  /\ epoch \in [Replicas -> Epochs]
  /\ counted \in [Replicas -> SUBSET (Voters \X Epochs)]
  /\ requests \subseteq Replicas \X Epochs
  /\ acks \subseteq Votes /\ given \subseteq Votes
  /\ won \subseteq Epochs \X Replicas

\* "It is not possible that different slaves get the same config epoch during a
\* failover election, because the slaves need to get voted by a majority."
OneWinnerPerEpoch == \A x, y \in won : x[1] = y[1] => x = y

\* A voter gives one vote per epoch, whatever it has forgotten in a crash.
OneVotePerEpoch == \A x, y \in given : x[1] = y[1] /\ x[2] = y[2] => x = y

\* A replica that is waiting for votes counts those of this election alone.
CountsOwnElection ==
  \A r \in Replicas : sent[r] =>
    \A x \in counted[r] : x[2] = epoch[r] /\ <<x[1], epoch[r], r>> \in given

\* nodes.conf is never ahead of memory, and has the epoch of every vote given and
\* asked for.
EpochsSaved ==
  /\ \A n \in Nodes : saved[n] <= cur[n]
  /\ \A v \in Voters : lastVote[v] <= saved[v]
  /\ \A x \in given : x[2] <= lastVote[x[1]] /\ x[2] <= saved[x[3]]
  /\ \A x \in requests : x[2] <= saved[x[1]]

\* Nothing is counted before a replica asks, and it asks for an epoch higher than
\* any it asked for before.
AsksForNewEpoch ==
  \A r \in Replicas :
    /\ ~sent[r] => counted[r] = {}
    /\ sent[r] => /\ \A x \in given : x[3] = r => x[2] <= epoch[r]
                  /\ \A x \in requests : x[1] = r => x[2] <= epoch[r]

\* An election that was won has a majority of the voters behind it.
WonByMajority ==
  \A w \in won : \E Q \in SUBSET Voters :
    /\ Cardinality(Q) >= NeededQuorum
    /\ \A v \in Q : <<v, w[1], w[2]>> \in given

\* The inductive invariant.
IInv ==
  /\ TypeOK /\ OneVotePerEpoch /\ CountsOwnElection
  /\ EpochsSaved /\ AsksForNewEpoch /\ WonByMajority
  /\ acks \subseteq given
=============================================================================
