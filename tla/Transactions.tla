---------------------------- MODULE Transactions ----------------------------
(***************************************************************************)
(* What happens around the execution of a command: MULTI, EXEC and WATCH   *)
(* (multi.c), clients that block on lists (blocked.c, t_list.c), the       *)
(* propagation of what changed to the append only file (server.c, aof.c),  *)
(* and gets that wait until a pipe handler has filled the cache            *)
(* (backend.c).  Every event of the main thread is one step.               *)
(*                                                                         *)
(* One database, without expiry; redisoo_get is configured and redisoo_set *)
(* and redisoo_del are not.  A client sends its next command when it has   *)
(* the reply to the last one.                                              *)
(***************************************************************************)
EXTENDS Naturals, Sequences, FiniteSetsExt, Functions, TLC

CONSTANTS
  Clients, Keys, NULL,
  Texts,      \* strings, and the elements of lists
  Situations,
  MaxLen,     \* bound of the model: no command when a list is longer
  MaxQueue    \* bound of the model: commands in a transaction

Ops == {"set", "get", "del", "rpush", "lpop", "blpop", "rpoplpush", "brpoplpush", "flushall",
        "unwatch"}

\* processCommand: a command has as many arguments as it takes.
HasArity(cmd) ==
  /\ cmd.op \notin {"flushall", "unwatch"} => Len(cmd.keys) >= 1
  /\ cmd.op \in {"rpoplpush", "brpoplpush"} => Len(cmd.keys) = 2
  /\ cmd.op \in {"set", "rpush"} => cmd.arg \in Texts

CommandShape ==
  {cmd \in [op : Ops, keys : Seq(Keys), arg : Texts \union {NULL}] : HasArity(cmd)}

\* What a behaviour has: the clients that are connected, those that use transactions,
\* the commands that are sent and those that are queued, and redisoo_get_sync.
SituationShape ==
  [clients : SUBSET Clients, users : SUBSET Clients, commands : SUBSET CommandShape,
   queued : SUBSET CommandShape, sync : BOOLEAN]

ASSUME TransactionsAssumption ==
  /\ \A situation \in Situations : situation \in SituationShape
  /\ IsFiniteSet(Clients) /\ IsFiniteSet(Keys)
  /\ NULL \notin Clients \union Texts \union Seq(Clients) /\ MaxLen \in Nat /\ MaxQueue \in Nat

VARIABLES
  server,    \* the server
  changed,   \* the clients one of whose watched keys has changed (history)
  situation

vars == <<server, changed, situation>>

Fresh == [state |-> "normal", multi |-> FALSE, queue |-> <<>>, dirtyExec |-> FALSE,
          dirtyCas |-> FALSE, watched |-> {}, cmd |-> NULL]

\* data: NULL, a string or a list; blocking, ready: db->blocking_keys and
\* server.ready_keys; waiting: backendGetKeys; argv, dirty: of the command in call().
\* Of the last event: base, what the file held before it; log, what it has appended;
\* seen, the datasets between its commands; served, who was served, and from which
\* key.  filled: the keys whose value a handler stored, which the file has not.
Init ==
  /\ situation \in Situations
  /\ server = [data |-> [k \in Keys |-> NULL], clients |-> [c \in Clients |-> Fresh],
               blocking |-> [k \in Keys |-> <<>>], ready |-> <<>>,
               waiting |-> [k \in Keys |-> NULL], argv |-> NULL, dirty |-> FALSE,
               base |-> [k \in Keys |-> NULL], log |-> <<>>,
               seen |-> {[k \in Keys |-> NULL]}, served |-> <<>>, filled |-> {}]
  /\ changed = {}

Front(s) == SubSeq(s, 1, Len(s) - 1)
Last(s) == s[Len(s)]

\* The nodes of c in a list of clients are deleted.
Without(s, c) ==
  LET kept[i \in 0..Len(s)] ==
        IF i = 0 THEN <<>> ELSE IF s[i] = c THEN kept[i - 1] ELSE Append(kept[i - 1], s[i])
  IN kept[Len(s)]

Cmd(op, keys, arg) == [op |-> op, keys |-> keys, arg |-> arg]

IsString(o) == o \in Texts
IsList(o) == o # NULL /\ ~IsString(o)

-----------------------------------------------------------------------------
(* The keyspace. *)

\* signalModifiedKey: touchWatchedKey.
Touch(s, k) ==
  [s EXCEPT !.clients = [c \in Clients |->
     IF k \in @[c].watched THEN [@[c] EXCEPT !.dirtyCas = TRUE] ELSE @[c]]]

\* touchWatchedKeysOnFlush.
TouchOnFlush(s) ==
  [s EXCEPT !.clients = [c \in Clients |->
     IF \E k \in @[c].watched : s.data[k] # NULL THEN [@[c] EXCEPT !.dirtyCas = TRUE]
     ELSE @[c]]]

\* signalKeyAsReady.
SignalKeyAsReady(s, k) ==
  IF s.blocking[k] = <<>> \/ k \in Range(s.ready) THEN s
  ELSE [s EXCEPT !.ready = Append(@, k)]

\* A list gets an element: dbAdd when there is no list yet.
Push(s, k, list) ==
  LET t == [s EXCEPT !.data[k] = list] IN
  IF s.data[k] = NULL THEN SignalKeyAsReady(t, k) ELSE t

\* The key of an empty list is deleted.
DeleteEmpty(s, k) == IF s.data[k] = <<>> THEN [s EXCEPT !.data[k] = NULL] ELSE s

Dirty(s) == [s EXCEPT !.dirty = TRUE]

-----------------------------------------------------------------------------
(* Blocking. *)

\* blockForKeys and blockClient.
Block(s, c, cmd, ks) ==
  [s EXCEPT !.clients[c].state = "blocked", !.clients[c].cmd = cmd,
            !.blocking = [k \in Keys |-> IF k \in ks THEN Append(@[k], c) ELSE @[k]]]

\* unblockClient and unblockClientWaitingData.
Unblock(s, c) ==
  [s EXCEPT !.clients[c].state = "normal", !.clients[c].cmd = NULL,
            !.blocking = [k \in Keys |-> Without(@[k], c)]]

-----------------------------------------------------------------------------
(* The commands. *)

\* genericSetKey with signal, of a string.
SetKey(s, k, v) == Touch([s EXCEPT !.data[k] = v], k)

SetCommand(s, cmd) == Dirty(SetKey(s, cmd.keys[1], cmd.arg))

DelCommand(s, cmd) ==
  LET k == cmd.keys[1] IN
  IF s.data[k] = NULL THEN s ELSE Dirty(Touch([s EXCEPT !.data[k] = NULL], k))

RpushCommand(s, cmd) ==
  LET k == cmd.keys[1]
      o == s.data[k]
  IN IF IsString(o) THEN s
     ELSE Dirty(Touch(Push(s, k, IF o = NULL THEN <<cmd.arg>> ELSE Append(o, cmd.arg)), k))

LpopCommand(s, cmd) ==
  LET k == cmd.keys[1] IN
  IF ~IsList(s.data[k]) THEN s
  ELSE Dirty(Touch(DeleteEmpty([s EXCEPT !.data[k] = Tail(@)], k), k))

\* rpoplpushHandlePush.
HandlePush(s, k, v) ==
  Touch(Push(s, k, IF s.data[k] = NULL THEN <<v>> ELSE <<v>> \o s.data[k]), k)

RpoplpushCommand(s, cmd) ==
  LET src == cmd.keys[1]
      dst == cmd.keys[2]
      popped == [s EXCEPT !.data[src] = Front(@)]
  IN IF ~IsList(s.data[src]) \/ IsString(s.data[dst]) THEN s
     ELSE [Dirty(Touch(DeleteEmpty(HandlePush(popped, dst, Last(s.data[src])), src), src))
             EXCEPT !.argv = Cmd("rpoplpush", cmd.keys, NULL)]

\* blockingPopGenericCommand: the first key there is decides.  Inside a transaction
\* it does not block.
BlpopCommand(s, c, cmd) ==
  LET there == {j \in DOMAIN cmd.keys : s.data[cmd.keys[j]] # NULL}
      k == cmd.keys[CHOOSE j \in there : \A i \in there : j <= i]
      lpop == Cmd("lpop", <<k>>, NULL)
  IN IF there # {}
     THEN IF IsString(s.data[k]) THEN s ELSE [LpopCommand(s, lpop) EXCEPT !.argv = lpop]
     ELSE IF s.clients[c].multi THEN s
     ELSE Block(s, c, cmd, Range(cmd.keys))

BrpoplpushCommand(s, c, cmd) ==
  IF s.data[cmd.keys[1]] # NULL THEN RpoplpushCommand(s, cmd)
  ELSE IF s.clients[c].multi THEN s
  ELSE Block(s, c, cmd, {cmd.keys[1]})

\* flushallCommand: dirty also when there was nothing to remove.
FlushallCommand(s) == Dirty([TouchOnFlush(s) EXCEPT !.data = [k \in Keys |-> NULL]])

\* unwatchAllKeys, and the flag.
UnwatchCommand(s, c) == [s EXCEPT !.clients[c].watched = {}, !.clients[c].dirtyCas = FALSE]

Proc(s, c, cmd) ==
  CASE cmd.op = "set" -> SetCommand(s, cmd)
    [] cmd.op = "get" -> s
    [] cmd.op = "del" -> DelCommand(s, cmd)
    [] cmd.op = "rpush" -> RpushCommand(s, cmd)
    [] cmd.op = "lpop" -> LpopCommand(s, cmd)
    [] cmd.op = "blpop" -> BlpopCommand(s, c, cmd)
    [] cmd.op = "rpoplpush" -> RpoplpushCommand(s, cmd)
    [] cmd.op = "brpoplpush" -> BrpoplpushCommand(s, c, cmd)
    [] cmd.op = "flushall" -> FlushallCommand(s)
    [] cmd.op = "unwatch" -> UnwatchCommand(s, c)

-----------------------------------------------------------------------------
(* Propagation and the append only file. *)

MULTI == Cmd("multi", <<>>, NULL)
EXEC == Cmd("exec", <<>>, NULL)

Propagate(s, cmd) == [s EXCEPT !.log = Append(@, cmd)]

\* A command ends: lists that are about to be deleted are empty.
Between(s) ==
  [s EXCEPT !.seen = @ \union {[k \in Keys |-> IF s.data[k] = <<>> THEN NULL ELSE s.data[k]]}]

\* call(): a command that made the dataset dirty is propagated, as its argv is now.
Call(s, c, cmd) ==
  LET t == Proc([s EXCEPT !.argv = cmd, !.dirty = FALSE], c, cmd)
      u == IF t.dirty THEN Propagate(t, t.argv) ELSE t
  IN [u EXCEPT !.argv = NULL, !.dirty = FALSE]

\* loadAppendOnlyFile: a fake client runs the commands, and queues them between MULTI
\* and EXEC.  An unfinished transaction at the end is reverted.
Replay(data, cmd) == Proc([server EXCEPT !.data = data, !.blocking = [k \in Keys |-> <<>>]],
                          NULL, cmd).data
ReplayAll(data, cmds) ==
  LET replayed[i \in 0..Len(cmds)] == IF i = 0 THEN data ELSE Replay(replayed[i - 1], cmds[i])
  IN replayed[Len(cmds)]

Reload(data, log) ==
  LET step(f, cmd) ==
        CASE cmd = MULTI -> [f EXCEPT !.multi = TRUE]
          [] cmd = EXEC -> [data |-> ReplayAll(f.data, f.queue), multi |-> FALSE, queue |-> <<>>]
          [] cmd \notin {MULTI, EXEC} /\ f.multi -> [f EXCEPT !.queue = Append(@, cmd)]
          [] cmd \notin {MULTI, EXEC} /\ ~f.multi -> [f EXCEPT !.data = Replay(@, cmd)]
      read[i \in 0..Len(log)] ==
        IF i = 0 THEN [data |-> data, multi |-> FALSE, queue |-> <<>>]
        ELSE step(read[i - 1], log[i])
  IN [k \in Keys |-> read[Len(log)].data[k]]

-----------------------------------------------------------------------------
(* Clients blocked on keys. *)

\* One turn of serveClientsBlockedOnListKey, with serveClientBlockedOnList.  If the
\* destination is not a list the element is put back.
BugFirst(clients) == Last(clients)
First(clients) == Head(clients)

ServeClient(s, k) ==
  LET c == First(s.blocking[k])
      cmd == s.clients[c].cmd
      o == s.data[k]
      left == cmd.op = "blpop"
      popped == Unblock([s EXCEPT !.data[k] = IF left THEN Tail(o) ELSE Front(o),
                                  !.served = Append(@, <<c, k>>)], c)
  IN IF left THEN Between(Propagate(popped, Cmd("lpop", <<k>>, NULL)))
     ELSE IF IsString(s.data[cmd.keys[2]]) THEN Unblock(s, c)
     ELSE Between(Propagate(HandlePush(popped, cmd.keys[2], Last(o)),
                            Cmd("rpoplpush", cmd.keys, NULL)))

\* serveClientsBlockedOnListKey: as many turns as there are clients, while there are
\* elements.
Turn(s, k) == IF s.data[k] = <<>> THEN s ELSE ServeClient(s, k)

ServeKey(s, k) ==
  LET turns == Len(s.blocking[k])
      served[i \in 0..turns] == IF i = 0 THEN s ELSE Turn(served[i - 1], k)
  IN IF IsList(s.data[k]) THEN DeleteEmpty(served[turns], k) ELSE s

\* handleClientsBlockedOnKeys runs until no key is ready.  Every key after the first
\* ones is made ready by serving a client.
BugHandleClients(s) == IF s.ready = <<>> THEN s
                       ELSE [ServeKey(s, Head(s.ready)) EXCEPT !.ready = <<>>]
HandleReady(s) ==
  IF s.ready = <<>> THEN s ELSE ServeKey([s EXCEPT !.ready = Tail(@)], Head(s.ready))

HandleClients(s) ==
  LET turns == Cardinality(Keys) + Cardinality(Clients)
      handled[i \in 0..turns] == IF i = 0 THEN s ELSE HandleReady(handled[i - 1])
  IN handled[turns]

-----------------------------------------------------------------------------
(* Transactions. *)

\* discardTransaction.
DiscardTransaction(s, c) ==
  [UnwatchCommand(s, c) EXCEPT !.clients[c].multi = FALSE, !.clients[c].queue = <<>>,
                               !.clients[c].dirtyExec = FALSE]

Readonly(cmd) == cmd.op = "get"

\* execCommandPropagateMulti, before the first command that may write.
BugPropagateMulti(s, first) == s
PropagateMulti(s, first) == IF first THEN Propagate(s, MULTI) ELSE s

\* server.dirty++ has call() propagate EXEC.
BugPropagateExec(s, mustPropagate) == s
PropagateExec(s, mustPropagate) == IF mustPropagate THEN Propagate(s, EXEC) ELSE s

Writes(queue) == {j \in DOMAIN queue : ~Readonly(queue[j])}

\* execCommand runs the commands of the queue.
CallQueued(s, c, queue) ==
  LET first(j) == j \in Writes(queue) /\ \A i \in Writes(queue) : j <= i
      called[j \in 0..Len(queue)] ==
        IF j = 0 THEN s ELSE Call(PropagateMulti(called[j - 1], first(j)), c, queue[j])
  IN called[Len(queue)]

\* execCommand.
ExecCommand(s, c) ==
  LET queue == s.clients[c].queue
      t == CallQueued([s EXCEPT !.clients[c].watched = {}], c, queue)
  IN IF s.clients[c].dirtyCas \/ s.clients[c].dirtyExec THEN DiscardTransaction(s, c)
     ELSE PropagateExec(DiscardTransaction(t, c), Writes(queue) # {})

-----------------------------------------------------------------------------
(* The events of the main thread. *)

\* What the file holds when an event begins.
Begin ==
  LET held == Reload(server.base, server.log) IN
  [server EXCEPT !.base = held, !.log = <<>>, !.seen = {server.data}, !.served = <<>>,
                 !.filled = {k \in @ : held[k] # server.data[k]}]

\* A command has been executed outside of a transaction, or a transaction has.
After(s) == HandleClients(Between(s))

Elements == MapThenSumSet(LAMBDA k : IF IsList(server.data[k]) THEN Len(server.data[k]) ELSE 0, Keys)
Pushes(cmds) == Len(SelectSeq(cmds, LAMBDA cmd : cmd.op = "rpush"))

Ready(c) == server.clients[c].state = "normal"
InMulti(c) == Ready(c) /\ server.clients[c].multi

\* processCommand: the command is queued.
QueueMultiCommand(c, cmd) ==
  /\ InMulti(c) /\ Len(server.clients[c].queue) < MaxQueue
  /\ server' = [Begin EXCEPT !.clients[c].queue = Append(@, cmd)]

\* flagTransaction: an error while commands are queued.
FlagTransaction(c) ==
  /\ InMulti(c)
  /\ server' = [Begin EXCEPT !.clients[c].dirtyExec = TRUE]

\* checkNeedToBackendState: a get of a key that is not cached, outside of a
\* transaction.
NeedsBackend(c, cmd) == cmd.op = "get" /\ server.data[cmd.keys[1]] = NULL

\* The list of an entry of backendGetKeys, a new one if there is none.
Getters(s, k) == IF s.waiting[k] = NULL THEN <<>> ELSE s.waiting[k]

GetFromBackend(c, cmd) ==
  /\ Ready(c) /\ ~server.clients[c].multi /\ NeedsBackend(c, cmd)
  /\ LET k == cmd.keys[1]
         queued == Getters(server, k)
     IN server' = IF situation.sync
                  THEN [Begin EXCEPT !.clients[c].state = "backend", !.clients[c].cmd = cmd,
                                     !.waiting[k] = Append(queued, c)]
                  ELSE After(Call([Begin EXCEPT !.waiting[k] = queued], c, cmd))

\* processCommand executes the command, and serves who is blocked.
Run(c, cmd) ==
  /\ Ready(c) /\ ~server.clients[c].multi /\ ~NeedsBackend(c, cmd)
  /\ Elements + Pushes(<<cmd>>) <= MaxLen
  /\ server' = After(Call(Begin, c, cmd))

WatchForKey(c, k) ==
  /\ Ready(c) /\ ~server.clients[c].multi
  /\ server' = [Begin EXCEPT !.clients[c].watched = @ \union {k}]

Multi(c) ==
  /\ Ready(c) /\ ~server.clients[c].multi
  /\ server' = [Begin EXCEPT !.clients[c].multi = TRUE]

Discard(c) == InMulti(c) /\ server' = DiscardTransaction(Begin, c)

Exec(c) ==
  /\ InMulti(c)
  /\ Elements + Pushes(server.clients[c].queue) <= MaxLen
  /\ server' = After(ExecCommand(Begin, c))

\* _clearFinishKey of a get: the value the database has is stored, outside of any
\* command, and the clients are resumed; their gets change nothing.
BugStored(s, k, v) == [s EXCEPT !.data[k] = v]
Stored(s, k, v) == SetKey(s, k, v)

Fill(k, v) ==
  /\ server.waiting[k] # NULL
  /\ LET s == IF v = NULL THEN Begin ELSE [Stored(Begin, k, v) EXCEPT !.filled = @ \union {k}]
         resumed == Range(server.waiting[k])
     IN server' = [s EXCEPT
          !.waiting[k] = NULL,
          !.clients = [c \in Clients |->
             IF c \in resumed THEN [@[c] EXCEPT !.state = "normal", !.cmd = NULL] ELSE @[c]]]

\* handleBlockedClientsTimeout.
Timeout(c) == server.clients[c].state = "blocked" /\ server' = Unblock(Begin, c)

\* freeClient with unblockClient, unwatchAllKeys and releaseWhenFreeClient; the client
\* connects again.
BugFreed(s, c) == s
Freed(s, c) == Unblock(s, c)

FreeClient(c) ==
  /\ server.clients[c] # Fresh
  /\ server' = [Freed(Begin, c) EXCEPT
       !.clients[c] = Fresh,
       !.waiting = [k \in Keys |-> IF @[k] = NULL THEN NULL ELSE Without(@[k], c)]]

\* The server stops and restarts with what it had written of its file: the last event
\* up to some command.
Restart(n) ==
  LET d == Reload(server.base, SubSeq(server.log, 1, n)) IN
  server' = [server EXCEPT
       !.data = d, !.clients = [c \in Clients |-> Fresh], !.blocking = [k \in Keys |-> <<>>],
       !.waiting = [k \in Keys |-> NULL], !.base = d, !.log = <<>>, !.seen = {d},
       !.served = <<>>, !.filled = {}]

-----------------------------------------------------------------------------

Event ==
  \/ \E c \in situation.clients, cmd \in situation.commands : GetFromBackend(c, cmd) \/ Run(c, cmd)
  \/ \E c \in situation.users, cmd \in situation.queued : QueueMultiCommand(c, cmd)
  \/ \E c \in situation.users : FlagTransaction(c) \/ Multi(c) \/ Discard(c) \/ Exec(c)
  \/ \E c \in situation.users, k \in Keys : WatchForKey(c, k)
  \/ \E k \in Keys, v \in Texts \union {NULL} : Fill(k, v)
  \/ \E c \in Clients : Timeout(c) \/ FreeClient(c)
  \/ \E n \in 0..Len(server.log) : Restart(n)

\* History: who watches a key that has changed.
Watching(c) ==
  /\ server'.clients[c].watched # {}
  /\ \/ c \in changed
     \/ \E k \in server.clients[c].watched : server'.data[k] # server.data[k]

Next == Event /\ changed' = {c \in Clients : Watching(c)} /\ UNCHANGED situation

Spec == Init /\ [][Next]_vars

-----------------------------------------------------------------------------

Lists == UNION {[1..n -> Texts] : n \in 1..MaxLen}
Datasets == [Keys -> Texts \union {NULL} \union Lists]
Queues == UNION {[1..n -> situation.queued] : n \in 0..MaxQueue}

\* The server has its type between events: no list is empty, no key is ready, and who
\* waits or is blocked is registered, once.
TypeOK ==
  /\ server.data \in Datasets /\ server.base \in Datasets /\ server.seen \subseteq Datasets
  /\ server.ready = <<>> /\ server.argv = NULL /\ ~server.dirty
  /\ server.filled \subseteq Keys
  /\ \A c \in Clients : LET x == server.clients[c] IN
       /\ x.state \in {"normal", "blocked", "backend"} /\ x.queue \in Queues
       /\ x.multi \in BOOLEAN /\ x.dirtyExec \in BOOLEAN /\ x.dirtyCas \in BOOLEAN
       /\ x.watched \subseteq Keys /\ x.cmd \in situation.commands \union {NULL}
  /\ changed \subseteq Clients

\* The keys a client is blocked on.
BlockedOn(x) ==
  IF x.state # "blocked" THEN {}
  ELSE IF x.cmd.op = "blpop" THEN Range(x.cmd.keys) ELSE {x.cmd.keys[1]}

\* The key whose value a client waits for.
WaitsFor(x) == IF x.state # "backend" THEN {} ELSE {x.cmd.keys[1]}

\* blocking_keys and backendGetKeys list a client exactly where it waits, once: who is
\* blocked is under each of its keys and who waits for the database under the key of its
\* get; a client that was served from one of its keys, resumed, timed out or was freed
\* is in none.
WaitersRegistered ==
  \A k \in Keys :
    /\ IsInjective(server.blocking[k]) /\ IsInjective(Getters(server, k))
    /\ \A c \in Clients :
         /\ c \in Range(server.blocking[k]) <=> k \in BlockedOn(server.clients[c])
         /\ c \in Range(Getters(server, k)) <=> k \in WaitsFor(server.clients[c])

\* No transaction runs on watched keys that have changed, whoever changed them, a
\* command, a client that was served, or the handler of a get: execCommand sees
\* CLIENT_DIRTY_CAS.
ChangedIsFlagged == \A c \in changed : server.clients[c].dirtyCas

\* Nobody sleeps next to an element: after every command, transaction and handler no
\* client is blocked on a key that has a list (handleClientsBlockedOnKeys).
NobodySleepsOnAList ==
  \A k \in Keys : server.blocking[k] # <<>> => ~IsList(server.data[k])

\* A file cut off after any command restores a dataset that was there between two
\* commands, transactions or served clients: never a part of a transaction, a pop
\* without its push, or a change that was not propagated.  The values that handlers
\* have stored are not in the file.
RecoversAtomically ==
  \A n \in 0..Len(server.log) :
    LET d == Reload(server.base, SubSeq(server.log, 1, n)) IN
    \E e \in server.seen : \A k \in Keys \ server.filled : d[k] = e[k]

\* Nothing that was executed is missing from the file.
FileIsComplete ==
  \A k \in Keys \ server.filled : Reload(server.base, server.log)[k] = server.data[k]

\* Clients are served in the order in which they blocked on a key.
ServedInOrder ==
  [][\A k \in Keys : \A i, j \in DOMAIN server.blocking[k] :
       i < j /\ <<server.blocking[k][j], k>> \in Range(server'.served)
         => server.blocking[k][i] \notin Range(server'.blocking[k])]_vars
=============================================================================
