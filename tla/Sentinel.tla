------------------------------ MODULE Sentinel ------------------------------
(***************************************************************************)
(* Redis Sentinel (sentinel.c): several sentinels watch one master and its *)
(* replicas, agree that the master is down, elect a leader that promotes a *)
(* replica, and spread the new address.                                    *)
(*                                                                         *)
(* Time is left out.  A timeout may expire whenever its timer runs, with   *)
(* one exception that the code's constants guarantee: whoever has voted    *)
(* for another sentinel waits longer (2 * failover_timeout) before it      *)
(* starts a failover than any election lasts that is on at that moment (at *)
(* most failover_timeout).                                                 *)
(***************************************************************************)
EXTENDS Naturals, FiniteSets, FiniteSetsExt

CONSTANTS
  Sentinels,
  Instances,   \* the Redis instances
  Master,      \* the one that is the master at first
  Quorum,      \* master->quorum
  NULL,
  MaxEpoch     \* bound of the model: the highest epoch

ASSUME SentinelAssumption ==
  /\ IsFiniteSet(Sentinels) /\ Master \in Instances
  /\ Quorum \in 1..Cardinality(Sentinels) /\ MaxEpoch \in Nat
  /\ NULL \notin Sentinels \union Instances

Epochs == 0..MaxEpoch
Others(s) == Sentinels \ {s}
SentinelOrNull == Sentinels \union {NULL}
InstanceOrNull == Instances \union {NULL}
Phases == {"none", "wait", "select", "promotion", "reconf"}

VARIABLES
  cur,        \* sentinel.current_epoch, by sentinel
  conf,       \* master->config_epoch
  addr,       \* master->addr
  phase,      \* master->failover_state
  epoch,      \* master->failover_epoch
  promoted,   \* master->promoted_slave
  vote,       \* master->leader and leader_epoch: the sentinel's own vote
  heard,      \* leader and leader_epoch of every other sentinel
  saved,      \* the configuration file
  waits,      \* the elections that end before failover_start_time allows the next failover
  elected,    \* history: who was elected leader in which epoch, and knew of no later one
  mixed       \* history: a leader took over an epoch without the master that goes with it

own == <<cur, conf, addr, phase, epoch, promoted, vote>>
vars == <<cur, conf, addr, phase, epoch, promoted, vote, heard, saved, waits,
          elected, mixed>>

NoVote == [leader |-> NULL, epoch |-> 0]

Init ==
  /\ cur = [s \in Sentinels |-> 0] /\ conf = [s \in Sentinels |-> 0]
  /\ addr = [s \in Sentinels |-> Master]
  /\ phase = [s \in Sentinels |-> "none"] /\ epoch = [s \in Sentinels |-> 0]
  /\ promoted = [s \in Sentinels |-> NULL] /\ vote = [s \in Sentinels |-> NoVote]
  /\ heard = [s \in Sentinels |-> [t \in Others(s) |-> NoVote]]
  /\ saved = [s \in Sentinels |-> [cur |-> 0, conf |-> 0, addr |-> Master, voted |-> 0]]
  /\ waits = [s \in Sentinels |-> {}]
  /\ elected = {} /\ mixed = FALSE

-----------------------------------------------------------------------------
(* What the handlers are made of. *)

\* sentinelGetCurrentMasterAddress.
CurrentAddress(s) == IF phase[s] = "reconf" THEN promoted[s] ELSE addr[s]

\* sentinelFlushConfig, of what the step has just made of sentinel s.
BugFlush(s) ==
  saved' = [saved EXCEPT ![s] =
    [cur |-> cur'[s], conf |-> conf'[s], addr |-> addr'[s], voted |-> vote'[s].epoch]]
Flush(s) ==
  saved' = [saved EXCEPT ![s] =
    [cur |-> cur'[s], conf |-> conf'[s], addr |-> CurrentAddress(s)', voted |-> vote'[s].epoch]]

\* sentinelVoteLeader for candidate c in epoch e, of a sentinel with current epoch k
\* and vote v.
BugVoteAfter(v, k, c, e) == IF k <= e THEN [leader |-> c, epoch |-> e] ELSE v
VoteAfter(v, k, c, e) ==
  IF v.epoch < e /\ k <= e THEN [leader |-> c, epoch |-> e] ELSE v

\* The votes s has heard that can still count when its current epoch is k: those of
\* earlier epochs never do, and the model forgets them at once.
Live(h, k) == [t \in DOMAIN h |-> IF h[t].epoch < k THEN NoVote ELSE h[t]]

\* Elections that are on.
Waiting == {t \in Sentinels : phase[t] = "wait"}

\* Who has voted for another sentinel must wait; an election of s that ends no
\* longer delays anybody.
WaitsAfter(s, votedOther, ends) ==
  waits' = [t \in Sentinels |->
    (IF t = s /\ votedOther THEN Waiting ELSE waits[t]) \ (IF ends THEN {s} ELSE {})]

\* The votes of other sentinels that sentinelGetLeader counts: those of epoch k.
Voters(s, k, c) == {t \in Others(s) : heard[s][t].leader = c /\ heard[s][t].epoch = k}

\* Candidates with the most votes; which one is met first is up to the dictionary.
MostVoted(s, k) ==
  LET n == Max({Cardinality(Voters(s, k, c)) : c \in Sentinels})
  IN IF n = 0 THEN {} ELSE {c \in Sentinels : Cardinality(Voters(s, k, c)) = n}

\* Votes of candidate c once s has voted: its own vote counts when it is of epoch e.
Votes(s, k, c, v, e) ==
  Cardinality(Voters(s, k, c)) + (IF v.leader = c /\ v.epoch = e THEN 1 ELSE 0)

\* The majority of the sentinels, and the quorum.
BugEnough(n) == n >= Quorum
Enough(n) == n >= Cardinality(Sentinels) \div 2 + 1 /\ n >= Quorum

-----------------------------------------------------------------------------
(* The timer: sentinelHandleRedisInstance of the master. *)

\* sentinelFailoverWaitStart in epoch e, with sentinelGetLeader: the sentinel votes
\* and counts, and may give up when it is not elected.
WaitStart(s, k, e) ==
  \E c \in IF MostVoted(s, k) = {} THEN {s} ELSE MostVoted(s, k) :
    LET v == VoteAfter(vote[s], k, c, e)
        wins == Enough(Votes(s, k, s, v, e))
    IN
    /\ vote' = [vote EXCEPT ![s] = v]
    /\ \E abort \in BOOLEAN :
         /\ phase' = [phase EXCEPT ![s] = IF wins THEN "select" ELSE IF abort THEN "none" ELSE "wait"]
         /\ epoch' = [epoch EXCEPT ![s] = IF ~wins /\ abort THEN 0 ELSE e]
         /\ WaitsAfter(s, v # vote[s] /\ c # s, wins \/ abort)
    /\ elected' = IF wins THEN elected \union {[leader |-> s, epoch |-> e, timely |-> e = k]} ELSE elected
    /\ UNCHANGED <<conf, addr, promoted, mixed>>
    /\ IF v # vote[s] THEN Flush(s) ELSE UNCHANGED saved

\* sentinelStartFailoverIfNeeded once the master is objectively down, after which
\* the election begins at once.
TickStart(s) ==
  /\ phase[s] = "none" /\ waits[s] = {} /\ cur[s] < MaxEpoch
  /\ cur' = [cur EXCEPT ![s] = @ + 1]
  /\ heard' = [heard EXCEPT ![s] = Live(@, cur[s] + 1)]
  /\ WaitStart(s, cur[s] + 1, cur[s] + 1)

\* The tick of a sentinel in an election.
TickWait(s) ==
  /\ phase[s] = "wait"
  /\ UNCHANGED <<cur, heard>>
  /\ WaitStart(s, cur[s], epoch[s])

\* sentinelAbortFailover.
Abort(s) ==
  /\ phase' = [phase EXCEPT ![s] = "none"]
  /\ promoted' = [promoted EXCEPT ![s] = NULL]
  /\ epoch' = [epoch EXCEPT ![s] = 0]

\* sentinelSelectSlave: the replicas that may be promoted, if any is suitable.
Selectable(s) == Instances \ {addr[s]}

\* The ticks of a leader: sentinelFailoverSelectSlave takes one of the suitable
\* replicas, and sentinelFailoverSendSlaveOfNoOne orders it to become a master, or
\* they give up.
TickSelect(s) ==
  /\ phase[s] = "select"
  /\ \/ \E i \in Selectable(s) :
          /\ promoted' = [promoted EXCEPT ![s] = i]
          /\ phase' = [phase EXCEPT ![s] = "promotion"]
          /\ UNCHANGED epoch
     \/ Abort(s)
  /\ UNCHANGED <<cur, conf, addr, vote, heard, saved, waits, elected, mixed>>

\* sentinelFailoverWaitPromotion gives up on a timeout.
TickPromotion(s) ==
  /\ phase[s] = "promotion"
  /\ Abort(s)
  /\ UNCHANGED <<cur, conf, addr, vote, heard, saved, waits, elected, mixed>>

\* sentinelResetMasterAndChangeAddress, of a sentinel s that switches to instance i.
SwitchTo(s, i) ==
  /\ addr' = [addr EXCEPT ![s] = i]
  /\ phase' = [phase EXCEPT ![s] = "none"]
  /\ promoted' = [promoted EXCEPT ![s] = NULL]
  /\ epoch' = [epoch EXCEPT ![s] = 0]
  /\ vote' = [vote EXCEPT ![s].leader = NULL]
  /\ waits' = [t \in Sentinels |-> IF t = s THEN {} ELSE waits[t] \ {s}]

\* sentinelFailoverReconfNextSlave and sentinelFailoverDetectEnd, once the replicas
\* follow the new master or on a timeout, and the switch.
TickReconf(s) ==
  /\ phase[s] = "reconf"
  /\ SwitchTo(s, promoted[s])
  /\ UNCHANGED <<cur, conf, heard, elected, mixed>>
  /\ Flush(s)

-----------------------------------------------------------------------------
(* Questions and answers between sentinels, and the hello messages. *)

\* SENTINEL IS-MASTER-DOWN-BY-ADDR of s at t: the epoch t takes over, and the vote it
\* answers with, which may be one it gave before.
AskedEpoch(s, t) == IF cur[s] > cur[t] THEN cur[s] ELSE cur[t]
Answer(s, t) == VoteAfter(vote[t], AskedEpoch(s, t), s, cur[s])

\* sentinelAskMasterStateToOtherSentinels asks t for its vote; with what becomes of t,
\* and what s makes of the answer, sentinelReceiveIsMasterDownReply.
Ask(s, t) ==
  LET k == AskedEpoch(s, t)
      v == Answer(s, t)
  IN
  /\ phase[s] # "none" /\ addr[s] = addr[t]
  /\ UNCHANGED <<conf, addr, phase, epoch, promoted, elected, mixed>>
  /\ cur' = [cur EXCEPT ![t] = k]
  /\ vote' = [vote EXCEPT ![t] = v]
  /\ WaitsAfter(t, v # vote[t], FALSE)
  /\ IF k # cur[t] \/ v # vote[t] THEN Flush(t) ELSE UNCHANGED saved
  /\ LET h == [heard EXCEPT ![t] = Live(@, k)]
     IN heard' = IF v.leader = NULL \/ v.epoch < cur[s] THEN h ELSE [h EXCEPT ![s][t] = v]

\* What another sentinel said is lost, or too old.
Forget(s, t) ==
  /\ heard[s][t].leader # NULL
  /\ heard' = [heard EXCEPT ![s][t] = NoVote]
  /\ UNCHANGED <<own, saved, waits, elected, mixed>>

\* sentinelProcessHelloMessage at t, of what s publishes.
Newer(s, t) == conf[s] > conf[t]

Hello(s, t) ==
  LET newer == Newer(s, t)
      i == CurrentAddress(s)
  IN
  /\ cur[s] > cur[t] \/ newer
  /\ cur' = [cur EXCEPT ![t] = IF cur[s] > @ THEN cur[s] ELSE @]
  /\ conf' = [conf EXCEPT ![t] = IF newer THEN conf[s] ELSE @]
  /\ IF newer /\ i # addr[t]
     THEN SwitchTo(t, i)
     ELSE UNCHANGED <<addr, phase, promoted, epoch, vote, waits>>
  /\ heard' = [heard EXCEPT ![t] = Live(@, cur'[t])]
  /\ mixed' = (mixed \/ (newer /\ i = addr[t] /\ phase[t] = "reconf"))
  /\ UNCHANGED elected
  /\ IF cur[s] > cur[t] \/ (newer /\ i # addr[t]) THEN Flush(t) ELSE UNCHANGED saved

-----------------------------------------------------------------------------
(* sentinelRefreshInstanceInfo: the selected replica reports that it is a master. *)

InfoPromoted(s) ==
  /\ phase[s] = "promotion"
  /\ conf' = [conf EXCEPT ![s] = epoch[s]]
  /\ phase' = [phase EXCEPT ![s] = "reconf"]
  /\ UNCHANGED <<cur, addr, epoch, promoted, vote, heard, waits, elected, mixed>>
  /\ Flush(s)

-----------------------------------------------------------------------------
\* A sentinel restarts with its configuration file.
Restart(s) ==
  /\ cur' = [cur EXCEPT ![s] = saved[s].cur]
  /\ conf' = [conf EXCEPT ![s] = saved[s].conf]
  /\ addr' = [addr EXCEPT ![s] = saved[s].addr]
  /\ vote' = [vote EXCEPT ![s] = [leader |-> NULL, epoch |-> saved[s].voted]]
  /\ phase' = [phase EXCEPT ![s] = "none"]
  /\ promoted' = [promoted EXCEPT ![s] = NULL]
  /\ heard' = [heard EXCEPT ![s] = [t \in Others(s) |-> NoVote]]
  /\ waits' = [t \in Sentinels |-> IF t = s THEN {} ELSE waits[t] \ {s}]
  /\ epoch' = [epoch EXCEPT ![s] = 0]
  /\ UNCHANGED <<saved, elected, mixed>>

Next ==
  \/ \E s \in Sentinels :
       TickStart(s) \/ TickWait(s) \/ TickSelect(s) \/ TickPromotion(s) \/ TickReconf(s)
         \/ InfoPromoted(s) \/ Restart(s)
  \/ \E s \in Sentinels : \E t \in Others(s) :
       Ask(s, t) \/ Forget(s, t) \/ Hello(s, t)

Spec == Init /\ [][Next]_vars

-----------------------------------------------------------------------------
(* Properties. *)

\* Every variable has its type, and no epoch is ahead of current_epoch.
TypeOK ==
  /\ cur \in [Sentinels -> Epochs] /\ conf \in [Sentinels -> Epochs]
  /\ addr \in [Sentinels -> Instances] /\ phase \in [Sentinels -> Phases]
  /\ epoch \in [Sentinels -> Epochs] /\ promoted \in [Sentinels -> InstanceOrNull]
  /\ vote \in [Sentinels -> [leader : SentinelOrNull, epoch : Epochs]]
  /\ \A s \in Sentinels : heard[s] \in [Others(s) -> [leader : SentinelOrNull, epoch : Epochs]]
  /\ saved \in [Sentinels -> [cur : Epochs, conf : Epochs, addr : Instances, voted : Epochs]]
  /\ waits \in [Sentinels -> SUBSET Sentinels]
  /\ mixed \in BOOLEAN /\ elected \subseteq [leader : Sentinels, epoch : Epochs, timely : BOOLEAN]

\* A sentinel votes for one candidate per epoch, restarts included.
OneVotePerEpoch ==
  [][\A s \in Sentinels :
       /\ vote'[s].epoch >= vote[s].epoch
       /\ vote'[s].leader \notin {NULL, vote[s].leader} => vote'[s].epoch > vote[s].epoch]_vars

\* No two sentinels are elected leader in the same epoch: "we should have the
\* majority of the Sentinels we know ... that reported the same instance as leader
\* for the same epoch" (sentinelGetLeader).
OneLeaderPerEpoch ==
  \A x, y \in elected : x.epoch = y.epoch => x.leader = y.leader

\* It is so for leaders that are elected before they learn of a later epoch.
OneTimelyLeader ==
  \A x, y \in elected : x.epoch = y.epoch /\ x.timely /\ y.timely => x.leader = y.leader

\* Two sentinels whose configurations have the same epoch name the same master, so
\* that hello messages settle every disagreement, unless a leader was elected late, or
\* one that had promoted its replica heard of a later failover back to the old master:
\* it takes over the epoch (the address is the one it still has) and later switches to
\* its own replica.
SameEpochSameMaster ==
  (\A x \in elected : x.timely) /\ ~mixed =>
    \A s, t \in Sentinels : conf[s] = conf[t] => CurrentAddress(s) = CurrentAddress(t)

\* A restart loses neither the epoch, nor the vote, nor the master that a sentinel has
\* last named.
RestartKeepsMaster ==
  \A s \in Sentinels :
    /\ saved[s].cur = cur[s] /\ saved[s].voted = vote[s].epoch
    /\ saved[s].addr = CurrentAddress(s)

\* An inductive invariant that holds RestartKeepsMaster: no election and no vote is of
\* an epoch that current_epoch has not reached.
IInv ==
  /\ cur \in [Sentinels -> Nat] /\ epoch \in [Sentinels -> Nat]
  /\ vote \in [Sentinels -> [leader : SentinelOrNull, epoch : Nat]]
  /\ DOMAIN conf = Sentinels /\ DOMAIN addr = Sentinels /\ DOMAIN phase = Sentinels
  /\ DOMAIN promoted = Sentinels /\ DOMAIN saved = Sentinels
  /\ \A s \in Sentinels : epoch[s] <= cur[s] /\ vote[s].epoch <= cur[s]
  /\ RestartKeepsMaster

\* What sentinel t has said it voted: its vote, and what others have heard of it.
Said(t) == {vote[t]} \union {heard[s][t] : s \in Others(t)}

\* No two of these name different candidates in one epoch, and none is ahead of the vote.
VotesAgree ==
  \A t \in Sentinels : \A v, w \in Said(t) : v.leader # NULL =>
    /\ v.epoch <= vote[t].epoch
    /\ w.leader # NULL /\ v.epoch = w.epoch => v.leader = w.leader

\* Sentinel t votes for no other candidate in the epoch of the leader x any more.
Backs(t, x) ==
  /\ x.epoch <= vote[t].epoch
  /\ \A v \in Said(t) : v.leader # NULL /\ v.epoch = x.epoch => v.leader = x.leader

\* An inductive invariant, together with IInv, that holds OneTimelyLeader: a majority
\* stands behind every leader that was elected in time.
ElectionInv ==
  /\ DOMAIN heard = Sentinels
  /\ \A s \in Sentinels : heard[s] \in [Others(s) -> [leader : SentinelOrNull, epoch : Nat]]
  /\ elected \subseteq [leader : Sentinels, epoch : Nat, timely : BOOLEAN]
  /\ VotesAgree
  /\ \A x \in elected : x.timely =>
       Cardinality({t \in Sentinels : Backs(t, x)}) >= Cardinality(Sentinels) \div 2 + 1
  /\ OneTimelyLeader

\* The configurations that sentinels have, or would restart with.
Configs ==
  {[epoch |-> conf[s], master |-> CurrentAddress(s)] : s \in Sentinels}
    \union {[epoch |-> saved[s].conf, master |-> saved[s].addr] : s \in Sentinels}

Leads(s) == phase[s] \in {"select", "promotion"}

\* An inductive invariant, together with IInv and ElectionInv, that holds
\* SameEpochSameMaster: the epoch of a leader is nobody's configuration epoch until it
\* has promoted its replica, and it is elected once.
ConfigInv ==
  /\ \A x \in elected : x.epoch <= cur[x.leader]
  /\ \A s \in Sentinels : phase[s] # "none" => epoch[s] > 0
  /\ \A s \in Sentinels : phase[s] = "wait" => \A x \in elected : x.leader = s => x.epoch < epoch[s]
  /\ \A s \in Sentinels : Leads(s) => \E x \in elected : x.leader = s /\ x.epoch = epoch[s]
  /\ (\A x \in elected : x.timely) /\ ~mixed =>
       /\ \A c, d \in Configs : c.epoch = d.epoch => c.master = d.master
       /\ \A c \in Configs : c.epoch # 0 => \E x \in elected : x.epoch = c.epoch
       /\ \A c \in Configs, s \in Sentinels : Leads(s) => c.epoch # epoch[s]
=============================================================================
