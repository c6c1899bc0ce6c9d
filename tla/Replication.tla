---------------------------- MODULE Replication ----------------------------
(***************************************************************************)
(* Replication (replication.c): replicas follow a master, or another       *)
(* replica, by a stream of commands; a replica that lost its link asks     *)
(* with PSYNC for the part of the stream it misses, and gets it from the   *)
(* backlog, or the whole dataset.  A replication ID and an offset stand    *)
(* for a dataset; a promoted replica keeps the ID of its old master as a   *)
(* second one, valid up to an offset.                                      *)
(*                                                                         *)
(* Offsets count commands instead of bytes.  A write is named after the    *)
(* server that executed it, and a dataset is the sequence of its writes.   *)
(* There is one database, so the stream has no SELECT.                     *)
(***************************************************************************)
EXTENDS Naturals, FiniteSets, Sequences

CONSTANTS
  Nodes,        \* the servers, positive numbers
  NULL,
  BacklogSize,  \* server.repl_backlog_size
  Situations,
  MaxOffset,    \* bound of the model: commands in a stream, writes in a dataset
  MaxId         \* bound of the model: replication IDs

\* What a behaviour has: PINGs in the streams, how many REPLICAOF commands, restarts,
\* and whom the servers follow at first.
SituationShape ==
  [pings : BOOLEAN, roles : Nat, restarts : BOOLEAN, master : [Nodes -> Nodes \union {NULL}]]

ASSUME ReplicationAssumption ==
  /\ Nodes \subseteq Nat \ {0} /\ NULL \notin Nodes /\ BacklogSize \in Nat \ {0}
  /\ MaxOffset \in Nat /\ MaxId \in Nat
  /\ Situations \subseteq SituationShape

PING == 0
Offsets == 0..(MaxOffset + 1)
Ids == 0..MaxId
NodeOrNull == Nodes \union {NULL}
Streams == Seq(Nodes \union {PING})

VARIABLES
  servers,    \* the servers
  lastId,     \* the last replication ID that was made up
  commands,   \* how many REPLICAOF commands there were
  situation

vars == <<servers, lastId, commands, situation>>

\* A server: masterhost; repl_state; the dataset; master_repl_offset and
\* master_repl_meaningful_offset; replid, replid2 and second_replid_offset; the
\* backlog; the ID and offset of cached_master; the RDB that is received.  Of the
\* link to its master: who feeds it, and the commands that are under way.
Init ==
  /\ situation \in Situations
  /\ lastId = Cardinality(Nodes) /\ commands = 0
  /\ servers = [n \in Nodes |->
       [master |-> situation.master[n],
        state |-> IF situation.master[n] = NULL THEN "none" ELSE "connect",
        data |-> <<>>, off |-> 0, mean |-> 0, id |-> n, id2 |-> 0, second |-> 0,
        backlog |-> NULL, cached |-> NULL, rdb |-> NULL, feeder |-> NULL, chan |-> <<>>]]

-----------------------------------------------------------------------------
(* The backlog and the stream. *)

Writes(cmds) == SelectSeq(cmds, LAMBDA c : c # PING)

Slaves(S, n) == {p \in Nodes : S[p].feeder = n}

\* createReplicationBacklog.
NewBacklog(s) == [off |-> s.off + 1, cmds |-> <<>>]

\* feedReplicationBacklog of the command at offset o.
Push(b, o, c) ==
  LET all == Append(b.cmds, c)
      len == IF Len(all) > BacklogSize THEN BacklogSize ELSE Len(all)
  IN [off |-> o - len + 1, cmds |-> SubSeq(all, Len(all) - len + 1, Len(all))]

\* replicationFeedSlaves and replicationFeedSlavesFromMasterStream: command c goes to
\* the backlog of n and to its replicas.  A PING is not meaningful.
Feed(S, n, c) ==
  [p \in Nodes |->
    CASE p = n -> [S[n] EXCEPT !.off = @ + 1,
                               !.mean = IF c = PING THEN @ ELSE S[n].off + 1,
                               !.backlog = Push(@, S[n].off + 1, c)]
      [] S[p].feeder = n -> [S[p] EXCEPT !.chan = Append(@, c)]
      [] OTHER -> S[p]]

\* adjustMeaningfulReplOffset: the final PINGs are taken back.
Trim(s) ==
  LET delta == s.off - s.mean
      len == Len(s.backlog.cmds)
  IN IF s.off <= s.mean THEN s
     ELSE [s EXCEPT !.off = s.mean,
                    !.backlog = IF @ = NULL THEN NULL
                                ELSE [@ EXCEPT !.cmds = IF len <= delta THEN <<>>
                                                        ELSE SubSeq(@, 1, len - delta)]]

\* The link of a replica is closed at the side of its master.
Detach(S, P) == [p \in Nodes |-> IF p \in P THEN [S[p] EXCEPT !.feeder = NULL] ELSE S[p]]

\* disconnectSlaves: all of them, or, asynchronously, the first one only, as those
\* that are closed later stay in the list; the order of the list is left open.
DisconnectSlaves(S, n) == Detach(S, Slaves(S, n))
DisconnectSlavesAsync(S, n) ==
  IF Slaves(S, n) = {} THEN {S} ELSE {Detach(S, {p}) : p \in Slaves(S, n)}

\* changeReplicationId and clearReplicationId2, with a new ID i.
BugNewHistory(s, i) == s
NewHistory(s, i) == [s EXCEPT !.id = i, !.id2 = 0, !.second = 0]

\* shiftReplicationId.
ShiftId(s, i) == [s EXCEPT !.id2 = s.id, !.second = s.off + 1, !.id = i]

\* The link to the master ends on the side of the replica.
Unlinked(s) == [s EXCEPT !.state = "connect", !.feeder = NULL, !.chan = <<>>, !.rdb = NULL]

\* replicationCacheMaster, up to the disconnection of the replicas.
CacheMaster(s) ==
  LET t == Trim(s) IN [Unlinked(t) EXCEPT !.cached = [id |-> t.id, off |-> t.off]]

\* replicationCacheMasterUsingMyself.
CacheMyself(s) ==
  LET t == Trim(s) IN [t EXCEPT !.cached = [id |-> t.id, off |-> t.off]]

-----------------------------------------------------------------------------
(* Masters. *)

IsMaster(n) == servers[n].master = NULL

\* A client writes; without a backlog the stream does not advance.
Write(n) ==
  LET S == [servers EXCEPT ![n].data = Append(@, n)] IN
  /\ IsMaster(n) /\ Len(servers[n].data) < MaxOffset
  /\ IF servers[n].backlog = NULL
     THEN servers' = S
     ELSE /\ servers[n].off < MaxOffset
          /\ servers' = Feed(S, n, n)
  /\ UNCHANGED <<lastId, commands, situation>>

\* replicationCron: a PING to the replicas,
SendPing(n) ==
  /\ situation.pings /\ IsMaster(n) /\ Slaves(servers, n) # {} /\ servers[n].off < MaxOffset
  /\ servers' = Feed(servers, n, PING)
  /\ UNCHANGED <<lastId, commands, situation>>

\* and the end of a backlog that nobody used for a time.
FreeBacklog(n) ==
  /\ IsMaster(n) /\ servers[n].backlog # NULL /\ Slaves(servers, n) = {} /\ lastId < MaxId
  /\ servers' = [servers EXCEPT ![n] = [NewHistory(@, lastId + 1) EXCEPT !.backlog = NULL]]
  /\ lastId' = lastId + 1
  /\ UNCHANGED <<commands, situation>>

-----------------------------------------------------------------------------
(* Replicas: PSYNC, with what the master does of it. *)

\* syncCommand refuses while the link to its own master is not up.
Serves(m) == IsMaster(m) \/ servers[m].state = "connected"

Asks(r) == servers[r].state = "connect" /\ Serves(servers[r].master)

\* masterTryPartialResynchronization at m for a replica whose cached master is c.
BugAccepts(m, c) ==
  /\ c # NULL /\ c.id \in {m.id, m.id2}
  /\ m.backlog # NULL
  /\ c.off + 1 \in m.backlog.off..(m.backlog.off + Len(m.backlog.cmds))
Accepts(m, c) ==
  /\ c # NULL /\ (c.id = m.id \/ (c.id = m.id2 /\ c.off + 1 <= m.second))
  /\ m.backlog # NULL
  /\ c.off + 1 \in m.backlog.off..(m.backlog.off + Len(m.backlog.cmds))

\* addReplyReplicationBacklog from offset o.
Missing(b, o) == SubSeq(b.cmds, o - b.off + 1, Len(b.cmds))

\* slaveTryPartialResynchronization when the master answers CONTINUE.
PsyncContinue(r) ==
  LET s == servers[r]
      m == servers[s.master]
      moved == m.id # s.cached.id
      ids == IF moved
             THEN [s EXCEPT !.id2 = s.cached.id, !.second = s.off + 1, !.id = m.id]
             ELSE s
      t == [ids EXCEPT !.state = "connected", !.cached = NULL, !.feeder = s.master,
                       !.chan = Missing(m.backlog, s.cached.off + 1),
                       !.backlog = IF @ = NULL THEN NewBacklog(s) ELSE @]
      S == [servers EXCEPT ![r] = t]
  IN
  /\ Asks(r) /\ Accepts(m, s.cached)
  /\ servers' = IF moved THEN DisconnectSlaves(S, r) ELSE S
  /\ UNCHANGED <<lastId, commands, situation>>

\* syncWithMaster when the answer is FULLRESYNC: the replica gives up its backlog and
\* its own replicas, and receives the RDB x while the commands cmds are waiting.
Receive(S, r, x, cmds) ==
  DisconnectSlaves(
    [S EXCEPT ![r] = [@ EXCEPT !.state = "transfer", !.cached = NULL, !.backlog = NULL,
                               !.rdb = x, !.feeder = S[r].master, !.chan = cmds]], r)

\* syncCommand makes a backlog if there is none, with a new history, and starts a
\* BGSAVE, whose start is the moment of the RDB.
PsyncFull(r) ==
  LET n == servers[r].master
      m == servers[n]
      create == m.backlog = NULL
      h == IF create THEN NewHistory(m, lastId + 1) ELSE m
      S == [servers EXCEPT ![n] = IF create THEN [h EXCEPT !.backlog = NewBacklog(m)] ELSE m]
  IN
  /\ Asks(r) /\ ~Accepts(m, servers[r].cached)
  /\ create => lastId < MaxId
  /\ lastId' = IF create THEN lastId + 1 ELSE lastId
  /\ servers' = Receive(S, r, [id |-> h.id, off |-> m.off, data |-> m.data], <<>>)
  /\ UNCHANGED <<commands, situation>>

\* Or the replica joins q in the BGSAVE that is running, with a copy of its buffer.
PsyncJoin(r, q) ==
  LET n == servers[r].master IN
  /\ Asks(r) /\ ~Accepts(servers[n], servers[r].cached)
  /\ servers[q].feeder = n /\ servers[q].state = "transfer"
  /\ servers' = Receive(servers, r, [servers[q].rdb EXCEPT !.id = servers[n].id], servers[q].chan)
  /\ UNCHANGED <<lastId, commands, situation>>

\* readSyncBulkPayload once the RDB is there.
FinishTransfer(r) ==
  LET x == servers[r].rdb
      s == [servers[r] EXCEPT !.data = x.data, !.id = x.id, !.off = x.off, !.mean = x.off,
                              !.id2 = 0, !.second = 0, !.rdb = NULL, !.state = "connected"]
  IN
  /\ servers[r].state = "transfer"
  /\ servers' = [servers EXCEPT ![r] = [s EXCEPT !.backlog = NewBacklog(s)]]
  /\ UNCHANGED <<lastId, commands, situation>>

\* Or rdbLoad refuses it (its signature, its version) after emptyDb: the replica has no
\* dataset any more, and keeps its ID and offset.
FailTransfer(r) ==
  /\ servers[r].state = "transfer"
  /\ servers' = [servers EXCEPT ![r] = [Unlinked(@) EXCEPT !.data = <<>>]]
  /\ UNCHANGED <<lastId, commands, situation>>

\* A command of the stream is executed (commandProcessed).
Apply(r) ==
  LET c == Head(servers[r].chan)
      S == [servers EXCEPT ![r].chan = Tail(@),
                           ![r].data = IF c = PING THEN @ ELSE Append(@, c)]
  IN
  /\ servers[r].state = "connected" /\ servers[r].chan # <<>>
  /\ servers' = Feed(S, r, c)
  /\ UNCHANGED <<lastId, commands, situation>>

\* The link breaks, times out, or was closed by the master: cancelReplicationHandshake
\* of a transfer, replicationCacheMaster of a link that was up.
LoseLink(r) ==
  /\ \/ /\ servers[r].state = "transfer"
        /\ servers' = [servers EXCEPT ![r] = Unlinked(@)]
     \/ /\ servers[r].state = "connected"
        /\ LET s == CacheMaster(servers[r])
               S == [servers EXCEPT ![r] = s]
           IN IF s.off = servers[r].off
              THEN servers' = S
              ELSE servers' \in DisconnectSlavesAsync(S, r)
  /\ UNCHANGED <<lastId, commands, situation>>

-----------------------------------------------------------------------------
(* Roles and restarts. *)

\* REPLICAOF: replicationSetMaster.
SetMaster(r, n) ==
  LET s == servers[r]
      t == CASE s.master = NULL -> CacheMyself(s)
             [] s.state = "connected" -> CacheMaster(s)
             [] OTHER -> s
  IN
  /\ commands < situation.roles /\ n \notin {r, s.master}
  /\ servers' = DisconnectSlaves([servers EXCEPT ![r] = [Unlinked(t) EXCEPT !.master = n]], r)
  /\ commands' = commands + 1
  /\ UNCHANGED <<lastId, situation>>

\* REPLICAOF NO ONE: replicationUnsetMaster.
UnsetMaster(r) ==
  LET s == ShiftId(servers[r], lastId + 1)
      t == IF s.state = "connected" THEN CacheMaster(s) ELSE s
  IN
  /\ commands < situation.roles /\ ~IsMaster(r) /\ lastId < MaxId
  /\ servers' = DisconnectSlaves(
       [servers EXCEPT ![r] = [Unlinked(t) EXCEPT !.master = NULL, !.state = "none", !.cached = NULL]], r)
  /\ lastId' = lastId + 1 /\ commands' = commands + 1
  /\ UNCHANGED situation

\* What rdbPopulateSaveInfo lets the RDB of a shutdown hold.
SavesInfo(s) == IF s.master = NULL THEN s.backlog # NULL ELSE s.state = "connected" \/ s.cached # NULL

\* A shutdown that saves, or one without persistence, and loadDataFromDisk.
Restart(n) ==
  LET s == servers[n]
      new == [s EXCEPT !.data = <<>>, !.off = 0, !.mean = 0, !.id = lastId + 1, !.id2 = 0,
                       !.second = 0, !.backlog = NULL, !.cached = NULL, !.rdb = NULL,
                       !.state = IF s.master = NULL THEN "none" ELSE "connect",
                       !.feeder = NULL, !.chan = <<>>]
      S(t) == DisconnectSlaves([servers EXCEPT ![n] = t], n)
  IN
  /\ situation.restarts
  /\ \/ /\ s.master # NULL /\ SavesInfo(s)
        /\ servers' = S(CacheMyself([new EXCEPT !.data = s.data, !.id = s.id, !.off = s.off, !.mean = s.off]))
        /\ UNCHANGED lastId
     \/ /\ s.master = NULL \/ ~SavesInfo(s)
        /\ lastId < MaxId
        /\ servers' = S([new EXCEPT !.data = s.data])
        /\ lastId' = lastId + 1
     \/ /\ lastId < MaxId
        /\ servers' = S(new)
        /\ lastId' = lastId + 1
  /\ UNCHANGED <<commands, situation>>

Next ==
  \E n \in Nodes :
    \/ Write(n) \/ SendPing(n) \/ FreeBacklog(n)
    \/ PsyncContinue(n) \/ PsyncFull(n) \/ FinishTransfer(n) \/ FailTransfer(n)
    \/ Apply(n) \/ LoseLink(n)
    \/ UnsetMaster(n) \/ Restart(n)
    \/ \E m \in Nodes : PsyncJoin(n, m) \/ SetMaster(n, m)

Spec == Init /\ [][Next]_vars

-----------------------------------------------------------------------------
(* Properties. *)

\* Every variable has its type, and no backlog is longer than its size.
TypeOK ==
  /\ lastId \in Ids /\ commands \in 0..situation.roles
  /\ \A n \in Nodes :
       LET s == servers[n] IN
       /\ s.master \in NodeOrNull \ {n} /\ s.feeder \in NodeOrNull \ {n}
       /\ s.state \in {"none", "connect", "transfer", "connected"}
       /\ s.data \in Seq(Nodes) /\ s.chan \in Streams
       /\ {s.off, s.mean, s.second} \subseteq Offsets /\ {s.id, s.id2} \subseteq Ids
       /\ s.backlog = NULL \/ (Len(s.backlog.cmds) <= BacklogSize /\ s.backlog.off \in Offsets)

\* The dataset and the offset that a replica reaches once it has executed the commands
\* that are under way.
Ahead(r) ==
  LET s == servers[r]
      x == IF s.state = "transfer" THEN s.rdb ELSE s
  IN [data |-> x.data \o Writes(s.chan), off |-> x.off + Len(s.chan)]

\* A replica that is fed reaches the dataset of whoever feeds it, by whichever way it
\* got the link: no write is lost or executed twice by a partial resynchronization.
\* And it counts the stream as its feeder does, so that the offset of its next PSYNC
\* means the same to both.
SameData ==
  \A r \in Nodes : servers[r].feeder # NULL =>
    LET m == servers[servers[r].feeder] IN Ahead(r) = [data |-> m.data, off |-> m.off]

\* A replica that lost its dataset in a load that failed, and has no cached master and
\* no backlog to resume with.
Emptied(s) ==
  s.data = <<>> /\ s.state \in {"connect", "transfer"} /\ s.cached = NULL /\ s.backlog = NULL

\* A replication ID and an offset stand for one dataset, whoever has them (changeReplicationId,
\* shiftReplicationId, clearReplicationId2).  Only an emptied replica has them for nothing,
\* and can use them for nothing: its next PSYNC is a full one.
IdentifiesData ==
  \A n, p \in Nodes :
    servers[n].id = servers[p].id /\ servers[n].off = servers[p].off
      => \/ servers[n].data = servers[p].data
         \/ Emptied(servers[n]) \/ Emptied(servers[p])
=============================================================================
