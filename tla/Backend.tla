------------------------------ MODULE Backend ------------------------------
(***************************************************************************)
(* The cache-through path of redisoo: clients whose get, set and del       *)
(* commands wait for the database, the cached keys, the dictionaries of    *)
(* candidate keys, the three jobs, and the database itself.                *)
(*                                                                         *)
(* The main thread runs one command, or one step of a pipe handler, at a   *)
(* time; the working threads run between its steps.  The spinlock and the  *)
(* pipes are the subject of JobSlot: here a job is posted, called,         *)
(* returned and cleared in one step each.  The commands in a query buffer  *)
(* are chosen when they are read, so pipelines of every length occur.      *)
(***************************************************************************)
EXTENDS Naturals, Sequences, FiniteSets, Functions

CONSTANTS
  Clients, DBs, Keys,
  Texts,        \* the values: strings stored in the cache and in the database
  IntTexts,     \* those that tryObjectEncoding turns into integers
  PosTexts,     \* those that are a valid expire argument
  NULL,
  Workloads     \* what the environment may do, see WorkloadShape

Modes == {"get", "set", "del"}
Items == DBs \X Keys
SetCommands == {"set", "setex", "setnx"}  \* psetex differs from setex in the unit only

\* redisoo_db: a database driver, grpc, or none ("" and the types that
\* _open_connection does not know); the modes m that have an SQL statement
\* (redisoo_m); the modes with redisoo_m_sync yes.
ConfigShape == [db : {"sql", "grpc", "none"}, stmts : SUBSET Modes, sync : SUBSET Modes]

CommandShape == [name : SetCommands \union {"get", "del", "unlink", "kill"},
                 db : DBs, key : Keys, val : Texts \union {NULL}, exp : Texts \union {NULL},
                 opts : SUBSET {"nx", "xx", "keepttl", "bad"}, victim : Clients \union {NULL}]

CacheEntries == [val : Texts, enc : {"int", "str"}, ttl : {"none", "live", "due"}]
Entries == [clients : Seq(Clients), val : Texts \union {NULL}, ttl : BOOLEAN]
PendingJobs == [phase : {"posted", "called", "returned"}, item : Items,
                val : Texts \union {NULL}, ttl : BOOLEAN, res : Texts \union {"done", NULL}]

\* A workload: the commands clients may send, the configurations config set may
\* install, the rows the table may have at first, whether redisoo_get_ttl > 0, how
\* a database call may fail (before or after its effect), and whether clients may
\* disconnect at any time.
WorkloadShape ==
  [databases : SUBSET [Keys -> Texts \union {NULL}], commands : SUBSET CommandShape,
   configs : SUBSET ConfigShape, getTtl : BOOLEAN, failures : SUBSET {"before", "after"}, disconnects : BOOLEAN]

ASSUME BackendAssumption ==
  /\ DBs \subseteq Nat
  /\ IntTexts \subseteq Texts /\ PosTexts \subseteq IntTexts
  /\ \A w \in Workloads :
       /\ w.databases \subseteq [Keys -> Texts \union {NULL}]
       /\ w.commands \subseteq CommandShape
       /\ \A cmd \in w.commands : cmd.name \in SetCommands => cmd.val \in Texts
       /\ w.configs \subseteq ConfigShape
       /\ w.getTtl \in BOOLEAN /\ w.disconnects \in BOOLEAN
       /\ w.failures \subseteq {"before", "after"}
  /\ NULL \notin Texts \union Clients \union Modes \union {"done", "failed", "assert same value"}
  /\ NULL \notin Items /\ NULL \notin CacheEntries /\ NULL \notin Entries
  /\ NULL \notin CommandShape

VARIABLES
  workload,   \* what the clients, the administrator and the database do
  config,     \* server.redisoo_*
  cache,      \* server.db[i].dict and .expires: NULL or [val, enc, ttl]
  database,   \* the rows of the external table: NULL or a text
  cands,      \* backend{Get,Set,Del}Keys: NULL or [clients, val, ttl]
  job,        \* getJob, setJob, delJob, with the local state of their threads
  connected,  \* the clients that exist
  state,      \* c->backend_state: NULL for CLIENT_BACKEND_NORMAL, or the mode
  argv,       \* the command a client waits with
  setReply, delReply,  \* c->backend_set_sync_reply, c->backend_del_sync_reply
  cur,        \* the client whose query buffer the main thread processes
  hmode, todo,\* the running pipe handler: its mode, and copyClients to resume
  out,        \* the reply of the last step: to which command, after which job result
  fault       \* the failed assertion or invalid access that stopped the server

clientVars == <<connected, state, argv, setReply, delReply>>
mainVars == <<cur, hmode, todo>>
vars == <<workload, config, cache, database, cands, job, clientVars, mainVars, out, fault>>

Idle == [phase |-> "idle", item |-> NULL, val |-> NULL, ttl |-> FALSE, res |-> NULL]
NoOut == [cmd |-> NULL, via |-> NULL, reply |-> NULL]

Init ==
  /\ workload \in Workloads
  /\ config \in workload.configs
  /\ cache = [p \in Items |-> NULL]
  /\ database \in workload.databases
  /\ cands = [m \in Modes |-> [p \in Items |-> NULL]]
  /\ job = [m \in Modes |-> Idle]
  /\ connected = Clients
  /\ state = [c \in Clients |-> NULL]
  /\ argv = [c \in Clients |-> NULL]
  /\ setReply = [c \in Clients |-> FALSE]
  /\ delReply = [c \in Clients |-> FALSE]
  /\ cur = NULL /\ hmode = NULL /\ todo = <<>>
  /\ out = NoOut
  /\ fault = NULL

-----------------------------------------------------------------------------
(* The keyspace: db.c. *)

Item(cmd) == <<cmd.db, cmd.key>>

Live(ch, p) == ch[p] # NULL /\ ch[p].ttl # "due"

\* expireIfNeeded, which every lookup begins with.
Expire(ch, p) == IF Live(ch, p) THEN ch ELSE [ch EXCEPT ![p] = NULL]

\* genericSetKey, then setExpire if a time to live is given.
SetKey(ch, p, val, enc, keepttl, ttl) ==
  [ch EXCEPT ![p] = [val |-> val, enc |-> enc,
                     ttl |-> IF ttl THEN "live"
                             ELSE IF keepttl /\ Live(ch, p) THEN ch[p].ttl ELSE "none"]]

-----------------------------------------------------------------------------
(* The commands: t_string.c and delGenericCommand. *)

Outcome(ch, reply, set, del) == [cache |-> ch, reply |-> reply, setReply |-> set, delReply |-> del]

ExecGet(cmd, ch, set, del) ==
  LET p == Item(cmd) IN
  Outcome(Expire(ch, p), IF Live(ch, p) THEN <<"bulk", ch[p].val>> ELSE <<"nil">>, set, del)

BadExpire(cmd) == cmd.exp # NULL /\ cmd.exp \notin PosTexts

\* The options of a set that contradict each other, or are none.
SyntaxError(cmd) ==
  \/ "bad" \in cmd.opts
  \/ {"nx", "xx"} \subseteq cmd.opts
  \/ "keepttl" \in cmd.opts /\ cmd.exp # NULL

\* The failure flag after it has been answered.
BugSetReplyConsumed == TRUE
SetReplyConsumed == FALSE

\* setCommand, setexCommand, setnxCommand and setGenericCommand.
ExecSet(cmd, ch, set, del) ==
  LET p == Item(cmd)
      nx == cmd.name = "setnx" \/ "nx" \in cmd.opts
      xx == "xx" \in cmd.opts
      enc == IF cmd.val \in IntTexts THEN "int" ELSE "str"
      fails == (nx /\ Live(ch, p)) \/ (xx /\ ~Live(ch, p))
  IN IF SyntaxError(cmd) \/ BadExpire(cmd) THEN Outcome(ch, <<"err">>, set, del)
     ELSE IF set THEN Outcome(ch, <<"nil">>, SetReplyConsumed, del)
     ELSE IF fails THEN
       Outcome(Expire(ch, p), IF cmd.name = "setnx" THEN <<"int", 0>> ELSE <<"nil">>, set, del)
     ELSE Outcome(SetKey(ch, p, cmd.val, enc, "keepttl" \in cmd.opts, cmd.exp # NULL),
                  IF cmd.name = "setnx" THEN <<"int", 1>> ELSE <<"ok">>, set, del)

\* delGenericCommand, for del and for unlink.
ExecDel(cmd, ch, set, del) ==
  LET p == Item(cmd) IN
  IF del THEN Outcome(ch, <<"int", 0>>, set, FALSE)
  ELSE Outcome([ch EXCEPT ![p] = NULL], <<"int", IF Live(ch, p) THEN 1 ELSE 0>>, set, del)

\* call().
Exec(cmd, ch, set, del) ==
  CASE cmd.name = "get" -> ExecGet(cmd, ch, set, del)
    [] cmd.name \in SetCommands -> ExecSet(cmd, ch, set, del)
    [] cmd.name \in {"del", "unlink"} -> ExecDel(cmd, ch, set, del)

\* The state after client c has executed cmd on keyspace ch with the given flags.
Call(c, cmd, ch, set, del, via) ==
  LET o == Exec(cmd, ch, set, del) IN
  /\ cache' = o.cache
  /\ setReply' = [setReply EXCEPT ![c] = o.setReply]
  /\ delReply' = [delReply EXCEPT ![c] = o.delReply]
  /\ out' = [cmd |-> cmd, via |-> via, reply |-> o.reply]

-----------------------------------------------------------------------------
(* Does a command need the database?  _check{Get,Set,Del}CommandForBackendState *)

\* Over grpc a get needs no statement.
Statements == config.stmts \union (IF config.db = "grpc" THEN {"get"} ELSE {})

\* A returned job without a value, for this key name, is not asked for again.
BugReentry(cmd) == job["get"].phase = "returned" /\ job["get"].res = NULL
Reentry(cmd) ==
  job["get"].phase = "returned" /\ job["get"].res = NULL /\ job["get"].item[2] = cmd.key

NeedsGet(cmd) ==
  /\ cmd.name = "get" /\ "get" \in Statements
  /\ ~Live(cache, Item(cmd))
  /\ ~Reentry(cmd)

\* argv[2], which is the expire argument of setex.
Argv2(cmd) == IF cmd.name = "setex" THEN cmd.exp ELSE cmd.val

SameKeyWithDifferentVal(cmd) ==
  cands["set"][Item(cmd)] # NULL /\ cands["set"][Item(cmd)].val # Argv2(cmd)

BugSameValueInDb(cmd) == Live(cache, Item(cmd))
SameValueInDb(cmd) == Live(cache, Item(cmd)) /\ cache[Item(cmd)].val = Argv2(cmd)

ReachesSetChecks(cmd) ==
  /\ cmd.name \in SetCommands /\ "set" \in config.stmts
  /\ ~(cmd.name = "setnx" /\ Live(cache, Item(cmd)))
  /\ ~SameKeyWithDifferentVal(cmd)

NeedsSet(cmd) == ReachesSetChecks(cmd) /\ ~SameValueInDb(cmd)

\* Only for a key that is in the dictionary, expired or not.
NeedsDel(cmd) ==
  /\ cmd.name = "del" /\ "del" \in config.stmts
  /\ cache[Item(cmd)] # NULL

NeededMode(cmd) ==
  CASE NeedsGet(cmd) -> "get" [] NeedsSet(cmd) -> "set" [] NeedsDel(cmd) -> "del"
    [] OTHER -> NULL

\* The keyspace after the lookups of these checks.
LookedUp(cmd) ==
  IF \/ cmd.name = "get" /\ "get" \in Statements
     \/ cmd.name = "setnx" /\ "set" \in config.stmts
     \/ ReachesSetChecks(cmd)
  THEN Expire(cache, Item(cmd)) ELSE cache

\* sdscmp reads the pointer of an integer-encoded object as a string.
ComparesInteger(cmd) ==
  ReachesSetChecks(cmd) /\ Live(cache, Item(cmd)) /\ cache[Item(cmd)].enc = "int"

\* The serverAssert of _addKeyToBackendKeys.
BugDifferentValueQueued(cmd) == FALSE
DifferentValueQueued(cmd) ==
  NeedsSet(cmd) /\ cands["set"][Item(cmd)] # NULL /\ cands["set"][Item(cmd)].val # cmd.val

-----------------------------------------------------------------------------
(* Candidates and jobs. *)

\* _getTtlForSetCommand > 0: a command with a syntax error has no ttl.
TtlForSet(cmd) == cmd.exp \in PosTexts /\ ~SyntaxError(cmd)

\* listCreate().
NewClients == <<>>

\* _addKeyToBackendKeys: a waiting client joins the entry of its key.
AddKey(m, c, cmd) ==
  LET old == cands[m][Item(cmd)]
      joined == IF old = NULL THEN NewClients ELSE old.clients
  IN [cands EXCEPT ![m][Item(cmd)] =
       [clients |-> IF m \in config.sync THEN Append(joined, c) ELSE joined,
        val |-> IF old = NULL THEN cmd.val ELSE old.val,
        ttl |-> TtlForSet(cmd)]]

\* _hasAvailableCandidate: the first database that has one, any key of it.
Candidates(entries) ==
  {p \in Items : entries[p] # NULL /\ \A q \in Items : entries[q] # NULL => p[1] <= q[1]}

\* The jobs _createNewJobIfHasMoreCandidates may post.
NewJobs(entries) ==
  IF Candidates(entries) = {} THEN {Idle}
  ELSE {[phase |-> "posted", item |-> p, val |-> entries[p].val, ttl |-> entries[p].ttl,
         res |-> NULL] : p \in Candidates(entries)}

-----------------------------------------------------------------------------
(* The main thread: commands. *)

\* readQueryFromClient, then processInputBuffer.
ReadQuery(c) ==
  /\ cur = NULL /\ hmode = NULL
  /\ c \in connected /\ state[c] = NULL
  /\ cur' = c
  /\ out' = NoOut
  /\ UNCHANGED <<config, cache, database, cands, job, clientVars, hmode, todo, fault>>

\* The query buffer holds no further complete command.
EndInput ==
  /\ cur # NULL
  /\ cur' = NULL
  /\ out' = NoOut
  /\ UNCHANGED <<config, cache, database, cands, job, clientVars, hmode, todo, fault>>

\* all_null: the slot is empty, and not only waiting to be cleared.
BugAllNull(m) == job[m].phase \in {"idle", "returned"}
AllNull(m) == job[m] = Idle

\* processInputBuffer stops at a client that has begun to wait.
BugReadsOn(c) == c
ReadsOn(c) == NULL

\* checkNeedToBackendState finds that the database is needed.  A synchronous
\* command waits, an asynchronous one is executed at once.
Enqueue(cmd) ==
  LET m == NeededMode(cmd) IN
  /\ cur # NULL /\ m # NULL
  /\ ~ComparesInteger(cmd) /\ ~DifferentValueQueued(cmd)
  /\ cands' = AddKey(m, cur, cmd)
  /\ \/ AllNull(m) /\ \E j \in NewJobs(cands'[m]) : job' = [job EXCEPT ![m] = j]
     \/ ~AllNull(m) /\ UNCHANGED job
  /\ \/ /\ m \in config.sync
        /\ state' = [state EXCEPT ![cur] = m]
        /\ argv' = [argv EXCEPT ![cur] = cmd]
        /\ cache' = LookedUp(cmd)
        /\ cur' = ReadsOn(cur)
        /\ out' = NoOut
        /\ UNCHANGED <<setReply, delReply>>
     \/ /\ m \notin config.sync
        /\ Call(cur, cmd, LookedUp(cmd), setReply[cur], delReply[cur], NULL)
        /\ UNCHANGED <<state, argv, cur>>
  /\ UNCHANGED <<config, database, connected, hmode, todo, fault>>

\* The command is executed without the database.
RunDirectly(cmd) ==
  /\ cur # NULL /\ NeededMode(cmd) = NULL /\ cmd.name # "kill"
  /\ ~ComparesInteger(cmd)
  /\ Call(cur, cmd, LookedUp(cmd), setReply[cur], delReply[cur], NULL)
  /\ UNCHANGED <<config, database, cands, job, connected, state, argv, mainVars, fault>>

\* The checks stop the server.
CheckFails(cmd) ==
  /\ cur # NULL
  /\ \/ ComparesInteger(cmd) /\ fault' = "compares integer as string"
     \/ ~ComparesInteger(cmd) /\ DifferentValueQueued(cmd) /\ fault' = "assert same value"
  /\ out' = NoOut
  /\ UNCHANGED <<config, cache, database, cands, job, clientVars, mainVars>>

\* config set, sent by any client.
ConfigSet(cfg) ==
  /\ cur # NULL
  /\ config' = cfg
  /\ out' = NoOut
  /\ UNCHANGED <<cache, database, cands, job, clientVars, mainVars, fault>>

-----------------------------------------------------------------------------
(* The main thread: connections. *)

\* The walk through a list of clients that deletes the nodes of c.
Without(s, c) ==
  LET kept[i \in 0..Len(s)] ==
        IF i = 0 THEN <<>> ELSE IF s[i] = c THEN kept[i - 1] ELSE Append(kept[i - 1], s[i])
  IN kept[Len(s)]

\* freeClient with releaseWhenFreeClient, which searches the dictionaries.
BugWithoutClient(c) == cands
WithoutClient(c) ==
  [m \in Modes |-> [p \in Items |->
    IF cands[m][p] = NULL THEN NULL
    ELSE [cands[m][p] EXCEPT !.clients = Without(@, c)]]]

FreeClient(c) ==
  /\ connected' = connected \ {c}
  /\ cands' = WithoutClient(c)
  /\ state' = [state EXCEPT ![c] = NULL]
  /\ argv' = [argv EXCEPT ![c] = NULL]
  /\ setReply' = [setReply EXCEPT ![c] = FALSE]
  /\ delReply' = [delReply EXCEPT ![c] = FALSE]

\* client kill, of another client: it is freed on the spot.
Kill(cmd) ==
  /\ cur # NULL /\ cmd.name = "kill"
  /\ cmd.victim \in connected \ {cur}
  /\ FreeClient(cmd.victim)
  /\ out' = [cmd |-> cmd, via |-> NULL, reply |-> <<"ok">>]
  /\ UNCHANGED <<config, cache, database, job, mainVars, fault>>

\* A closed connection is noticed by the event loop, which frees the client.
Disconnect(c) ==
  /\ workload.disconnects /\ cur = NULL /\ hmode = NULL
  /\ c \in connected
  /\ FreeClient(c)
  /\ out' = NoOut
  /\ UNCHANGED <<config, cache, database, job, mainVars, fault>>

\* createClient.
Connect(c) ==
  /\ cur = NULL /\ hmode = NULL
  /\ c \notin connected
  /\ connected' = connected \union {c}
  /\ out' = NoOut
  /\ UNCHANGED <<config, cache, database, cands, job, state, argv, setReply, delReply, mainVars, fault>>

-----------------------------------------------------------------------------
(* The main thread: a pipe handler, _clearFinishKey. *)

\* The keyspace after the result of job j of mode m has been stored.
Stored(m, j) ==
  CASE m = "get" /\ j.res # NULL -> SetKey(cache, j.item, j.res, "str", TRUE, workload.getTtl)
    [] m = "set" /\ j.res # NULL -> SetKey(cache, j.item, j.val, "str", TRUE, j.ttl)
    [] OTHER -> cache

\* The result is stored and the entry leaves its dictionary; its clients are next.
Handle(m) ==
  /\ cur = NULL /\ hmode = NULL
  /\ job[m].phase = "returned"
  /\ cache' = Stored(m, job[m])
  /\ todo' = cands[m][job[m].item].clients
  /\ cands' = [cands EXCEPT ![m][job[m].item] = NULL]
  /\ hmode' = m
  /\ out' = NoOut
  /\ UNCHANGED <<config, database, job, clientVars, cur, fault>>

\* backend_del_sync_reply as the handler leaves it.
BugFailedDel(c, failed) == delReply[c]
FailedDel(c, failed) == delReply[c] \/ (hmode = "del" /\ failed)

\* _resumeBackendClient: the command runs now, then the rest of the query buffer.
Resume ==
  LET c == Head(todo)
      failed == job[hmode].res = NULL
  IN
  /\ hmode # NULL /\ cur = NULL /\ todo # <<>>
  /\ c \in connected
  /\ Call(c, argv[c], cache,
          setReply[c] \/ (hmode = "set" /\ failed), FailedDel(c, failed),
          IF failed THEN "failed" ELSE "done")
  /\ state' = [state EXCEPT ![c] = NULL]
  /\ argv' = [argv EXCEPT ![c] = NULL]
  /\ cur' = c
  /\ todo' = Tail(todo)
  /\ UNCHANGED <<config, database, cands, job, connected, hmode, fault>>

\* The client has been freed since its pointer was copied.
ResumeFreed ==
  /\ hmode # NULL /\ cur = NULL /\ todo # <<>>
  /\ Head(todo) \notin connected
  /\ fault' = "freed client resumed"
  /\ out' = NoOut
  /\ UNCHANGED <<config, cache, database, cands, job, clientVars, mainVars>>

\* _createNewJobIfHasMoreCandidates(mode, 0).
BugRefill(m) == IF m = "del" THEN {Idle} ELSE NewJobs(cands[m])
Refill(m) == NewJobs(cands[m])

\* All clients are resumed: the slot is cleared and filled with a candidate.
Finish ==
  /\ hmode # NULL /\ cur = NULL /\ todo = <<>>
  /\ \E j \in Refill(hmode) : job' = [job EXCEPT ![hmode] = j]
  /\ hmode' = NULL
  /\ out' = NoOut
  /\ UNCHANGED <<config, cache, database, cands, clientVars, cur, todo, fault>>

-----------------------------------------------------------------------------
(* The working threads and the database. *)

Done(m, db, res) ==
  /\ database' = db
  /\ job' = [job EXCEPT ![m].phase = "called", ![m].res = res]

BugEffect(m, j) == IF m = "del" THEN [database EXCEPT ![j.item[2]] = NULL] ELSE database
Effect(m, j) ==
  CASE m = "get" -> database
    [] m = "set" -> [database EXCEPT ![j.item[2]] = j.val]
    [] m = "del" -> [database EXCEPT ![j.item[2]] = NULL]

\* Whether the database can be asked at all: grpc only gets, and SQL needs the
\* statement, which config set may have emptied since the job was posted.
Reachable(m) == (config.db = "sql" /\ m \in config.stmts) \/ (config.db = "grpc" /\ m = "get")

\* db_get, grpc_get, db_set, db_del: rows are named by the key alone.  A call may
\* fail before its effect, or after it, when the answer is lost.
DbCall(m) ==
  LET j == job[m]
      row == database[j.item[2]]
  IN
  /\ j.phase = "posted"
  /\ \/ /\ Reachable(m)
        /\ Done(m, Effect(m, j), IF m = "get" THEN row ELSE "done")
        /\ fault' = IF m = "get" /\ row = "" THEN "assert value length" ELSE NULL
     \/ /\ ~Reachable(m) \/ "before" \in workload.failures
        /\ Done(m, database, NULL)
        /\ UNCHANGED fault
     \/ /\ Reachable(m) /\ "after" \in workload.failures
        /\ Done(m, Effect(m, j), NULL)
        /\ UNCHANGED fault
  /\ out' = NoOut
  /\ UNCHANGED <<config, cache, cands, clientVars, mainVars>>

\* The result is returned and the pipe written.
Return(m) ==
  /\ job[m].phase = "called"
  /\ job' = [job EXCEPT ![m].phase = "returned"]
  /\ out' = NoOut
  /\ UNCHANGED <<config, cache, database, cands, clientVars, mainVars, fault>>

\* Time passes for a key that has a time to live.
TtlElapses(p) ==
  /\ cache[p] # NULL /\ cache[p].ttl = "live"
  /\ cache' = [cache EXCEPT ![p].ttl = "due"]
  /\ out' = NoOut
  /\ UNCHANGED <<config, database, cands, job, clientVars, mainVars, fault>>

-----------------------------------------------------------------------------

WorkerStep(m) == DbCall(m) \/ Return(m)

\* A step of the running server.
Running(A) == fault = NULL /\ A /\ UNCHANGED workload

ServerStep ==
  \/ \E c \in Clients : ReadQuery(c) \/ Disconnect(c) \/ Connect(c)
  \/ EndInput \/ Resume \/ ResumeFreed \/ Finish
  \/ \E cmd \in workload.commands :
       Enqueue(cmd) \/ RunDirectly(cmd) \/ CheckFails(cmd) \/ Kill(cmd)
  \/ \E cfg \in workload.configs \ {config} : ConfigSet(cfg)
  \/ \E m \in Modes : Handle(m) \/ WorkerStep(m)
  \/ \E p \in Items : TtlElapses(p)

\* The server has stopped at a failed assertion or an invalid access.
Stopped == fault # NULL /\ UNCHANGED vars

Next == Running(ServerStep) \/ Stopped

Spec == Init /\ [][Next]_vars

-----------------------------------------------------------------------------
(* Safety. *)

\* Every variable has its type; a job is idle or for an item; a set has a value.
TypeOK ==
  /\ workload \in Workloads /\ config \in workload.configs
  /\ cache \in [Items -> CacheEntries \union {NULL}]
  /\ database \in [Keys -> Texts \union {NULL}]
  /\ cands \in [Modes -> [Items -> Entries \union {NULL}]]
  /\ \A p \in Items : cands["set"][p] # NULL => cands["set"][p].val \in Texts
  /\ job \in [Modes -> PendingJobs \union {Idle}]
  /\ job["set"] # Idle => job["set"].val \in Texts
  /\ job["get"].res \in Texts \union {NULL}
  /\ connected \subseteq Clients
  /\ state \in [Clients -> Modes \union {NULL}]
  /\ argv \in [Clients -> workload.commands \union {NULL}]
  /\ setReply \in [Clients -> BOOLEAN] /\ delReply \in [Clients -> BOOLEAN]
  /\ cur \in Clients \union {NULL} /\ hmode \in Modes \union {NULL} /\ todo \in Seq(Clients)

\* How often client c is registered to be resumed: in the dictionaries, and in
\* the copy the running handler works through.
Registrations(c) ==
  LET count(s) == Cardinality({i \in DOMAIN s : s[i] = c})
      slots == {x \in Modes \X Items :
                  cands[x[1]][x[2]] # NULL /\ c \in Range(cands[x[1]][x[2]].clients)}
  IN [dict |-> slots, copies |-> count(todo),
      once |-> \A x \in slots : count(cands[x[1]][x[2]].clients) = 1]

\* A client that waits is registered exactly once: in the dictionary of its mode
\* under the key of its command, or in the copy of the handler of its mode.  A
\* client that does not wait is registered nowhere.  Otherwise a client would
\* hang, or the assert of _resumeBackendClient would fail on it.
WaitersRegisteredOnce ==
  \A c \in connected :
    LET r == Registrations(c) IN
    IF state[c] # NULL
    THEN \/ /\ r.dict = {<<state[c], Item(argv[c])>>} /\ r.once
            /\ r.copies = 0
         \/ r.dict = {} /\ r.copies = 1 /\ hmode = state[c]
    ELSE r.dict = {} /\ r.copies = 0

WellFormed(cmd) == cmd.opts \subseteq {"keepttl"} /\ ~SyntaxError(cmd) /\ ~BadExpire(cmd)

\* What the workload consists of.
Only(names) == \A cmd \in workload.commands : cmd.name \in names
DatabaseWorks ==
  workload.failures = {} /\ \A cfg \in workload.configs : cfg.db = "sql" /\ cfg.stmts = Modes
OneDatabase == \A x, y \in workload.commands : x.db = y.db
AlwaysWaits == \A cfg \in workload.configs : cfg.sync = Modes
OneItem == \A x, y \in workload.commands : Item(x) = Item(y)
Plain == Only({"get", "set", "del"}) /\ \A cmd \in workload.commands : WellFormed(cmd)

\* A client that is gone is registered nowhere: releaseWhenFreeClient finds every
\* place from which the pipe handlers could still call it.
FreedClientForgotten ==
  \A c \in Clients \ connected : Registrations(c).dict = {} /\ Registrations(c).copies = 0

\* So it is as long as clients go by disconnecting only.
DisconnectedForgotten == Only({"get", "set", "del"}) => FreedClientForgotten

\* Outside of its handler, a mode that has candidates has a job for one of them,
\* and a job has its candidate: the handler will find the clients to resume.
JobHasCandidate ==
  \A m \in Modes : hmode # m =>
    /\ job[m] = Idle => \A p \in Items : cands[m][p] = NULL
    /\ job[m] # Idle => cands[m][job[m].item] # NULL

\* Nothing is going on between the cache and the database.
Quiescent == cur = NULL /\ hmode = NULL /\ \A m \in Modes : job[m] = Idle

\* When no job is pending, a cached key has the value the database has: the
\* "cache through" that the handlers of backend.c are meant to keep up.
CacheMatchesDatabase ==
  Quiescent => \A p \in Items : Live(cache, p) => cache[p].val = database[p[2]]

\* Sets alone, with and without a time to live, waiting or not, keep the cache
\* and a working database equal, whatever joins or overtakes in the dictionaries, as
\* long as one redis database is used (a row has the name of its key alone).
SetsReachBoth == Only({"set"}) /\ DatabaseWorks /\ OneDatabase => CacheMatchesDatabase

\* While nobody writes, a get that is answered has the database's value, and nil
\* only if there is none, whether it was cached, waited, or counted as re-entry, unless
\* fetched keys expire.
GetAnswersDatabase ==
  Only({"get"}) /\ DatabaseWorks /\ AlwaysWaits /\ ~workload.getTtl /\ out.cmd # NULL =>
    LET row == database[out.cmd.key] IN
    out.reply = IF row = NULL THEN <<"nil">> ELSE <<"bulk", row>>

\* While there are sets only, one that waited and is answered OK is in the
\* database and in the cache at that moment.
AckedSetIsStored ==
  Only({"set"}) /\ out.via = "done" /\ out.reply = <<"ok">> =>
    database[out.cmd.key] = out.cmd.val /\ cache[Item(out.cmd)].val = out.cmd.val

\* While commands are well-formed, a set whose database write succeeded is
\* acknowledged.
SuccessIsAcknowledged ==
  Plain /\ out.via = "done" /\ out.cmd.name = "set" => out.reply = <<"ok">>

\* One write serves all who wait for it: an entry of set, its job, and the commands of
\* those in its list or being resumed have one value, whichever of set, setex and setnx
\* they are and whoever joined, left or was killed.  (A setex whose argv[2] is the
\* queued value passes SameKeyWithDifferentVal; the serverAssert of
\* _addKeyToBackendKeys stops the server before it joins.)
OneWriteServesAll ==
  /\ \A p \in Items : cands["set"][p] # NULL =>
       \A c \in Range(cands["set"][p].clients) : argv[c].val = cands["set"][p].val
  /\ job["set"] # Idle /\ hmode # "set" => job["set"].val = cands["set"][job["set"].item].val
  /\ hmode = "set" => \A c \in Range(todo) : c \in connected => argv[c].val = job["set"].val

\* A set or del whose database statement failed, as a waiting client is told,
\* changes nothing in the cache when the client is resumed.
FailureChangesNothing ==
  [][out'.via = "failed" /\ out'.cmd.name # "get" => cache' = cache]_vars

-----------------------------------------------------------------------------
(* The inductive invariant. *)

\* Who reads commands does not wait; the handler of a mode has a returned job.
MainInv ==
  /\ cur # NULL => cur \in connected /\ state[cur] = NULL
  /\ hmode = NULL => todo = <<>>
  /\ hmode # NULL => job[hmode].phase = "returned"

\* Whoever is in the list of an entry waits, in this mode, with a command for this item.
ListedWaits ==
  \A m \in Modes, p \in Items : cands[m][p] # NULL =>
    /\ IsInjective(cands[m][p].clients)
    /\ \A c \in Range(cands[m][p].clients) : state[c] = m /\ Item(argv[c]) = p

\* Whoever is to be resumed is in no list, and waits for the job that is being
\* handled, unless it has been killed.
CopiedWaits ==
  /\ IsInjective(todo)
  /\ \A c \in Range(todo) :
       /\ \A m \in Modes, p \in Items :
            cands[m][p] # NULL => c \notin Range(cands[m][p].clients)
       /\ c \in connected => state[c] = hmode /\ Item(argv[c]) = job[hmode].item
       /\ Only({"get", "set", "del"}) => c \in connected

ModeNames(m) == IF m = "set" THEN SetCommands ELSE {m}

\* Whoever waits is connected, has a command of its mode, and is in the list of its
\* item or to be resumed.
WaitsListed ==
  \A c \in Clients : state[c] # NULL =>
    /\ c \in connected /\ argv[c] # NULL /\ argv[c].name \in ModeNames(state[c])
    /\ \/ /\ cands[state[c]][Item(argv[c])] # NULL
          /\ c \in Range(cands[state[c]][Item(argv[c])].clients)
       \/ hmode = state[c] /\ c \in Range(todo)

IInv ==
  TypeOK /\ MainInv /\ ListedWaits /\ CopiedWaits /\ WaitsListed /\ JobHasCandidate

\* What the answers depend on: well-formed sets leave no failure flag behind.
FlagInv == Plain => \A c \in Clients : ~setReply[c]

\* With sets alone: a statement that has succeeded is in the database until its handler
\* has finished.
SetInv ==
  Only({"set"}) =>
    /\ job["get"] = Idle /\ job["del"] = Idle /\ hmode \in {NULL, "set"}
    /\ job["set"].phase \in {"called", "returned"} /\ job["set"].res # NULL =>
         database[job["set"].item[2]] = job["set"].val

\* And with a database that works: only a key that is queued may differ from its row.
AgreeInv ==
  Only({"set"}) /\ DatabaseWorks /\ OneDatabase =>
    /\ job["set"].phase \in {"called", "returned"} => job["set"].res # NULL
    /\ \A p \in Items : cache[p] # NULL \/ cands["set"][p] # NULL =>
         \E cmd \in workload.commands : p = Item(cmd)
    /\ \A p \in Items :
         Live(cache, p) /\ cands["set"][p] = NULL => cache[p].val = database[p[2]]

\* With gets alone: what is cached and what a job has fetched is what the row has.
GetInv ==
  Only({"get"}) /\ DatabaseWorks /\ AlwaysWaits /\ ~workload.getTtl =>
    /\ job["set"] = Idle /\ job["del"] = Idle /\ hmode \in {NULL, "get"}
    /\ \A p \in Items : cache[p] # NULL => cache[p].ttl = "none" /\ cache[p].val = database[p[2]]
    /\ job["get"].phase \in {"called", "returned"} =>
         job["get"].res = database[job["get"].item[2]]
    /\ hmode = "get" /\ job["get"].res # NULL => cache[job["get"].item] # NULL

-----------------------------------------------------------------------------
(* The job service of JobService, at the grain of this module. *)

\* The keys with an entry, the key that is asked for until its handler begins, and
\* the answer the pipe has announced.
Requested == [m \in Modes |-> {p \in Items : cands[m][p] # NULL}]
Serving == [m \in Modes |-> IF hmode = m THEN NULL ELSE job[m].item]
Announced == [m \in Modes |->
  IF hmode # m /\ job[m].phase = "returned" THEN <<job[m].res>> ELSE <<>>]

Service == INSTANCE JobService WITH
  Answers <- Texts \union {"done", NULL}, NoItem <- NULL,
  requests <- Requested, serving <- Serving, answer <- Announced

\* The database is asked for one requested key at a time per mode, once for all
\* the clients that wait for it, and an entry goes when it has been answered.
ImplementsService == Service!Spec

-----------------------------------------------------------------------------
(* Liveness. *)

\* The threads run, database calls return, the event loop serves every readable
\* pipe, and a query buffer ends.
Fairness ==
  /\ WF_vars(Running(EndInput)) /\ WF_vars(Running(Resume \/ Finish))
  /\ \A m \in Modes : SF_vars(Running(Handle(m))) /\ WF_vars(Running(WorkerStep(m)))

FairSpec == Spec /\ Fairness

\* A client that waits for the database is resumed, or it disconnects, if all ask
\* for one item (_hasAvailableCandidate may starve a second one).
WaiterIsResumed ==
  \A c \in Clients : state[c] # NULL /\ OneItem ~> state[c] = NULL
=============================================================================
