# A TLA+ model of Redisoo

Redisoo is Redis 6 with a database behind it. A `get` that misses the cache is
answered from an SQL table or a grpc service, and a `set` or `del` is carried
out in the database as well. This directory models that part of the server, and
the parts of Redis around it whose correctness depends on the order of events:
transactions and blocked clients, the append only file, replication, the
cluster and the sentinels. TLC checks them on small instances. TLAPS proves for
every instance: the hand-over of work between threads, what clients of the
database are answered, whom transactions flag and blocked clients are served,
the elections and the epochs of the cluster, and on what sentinels agree.

Paths below are relative to the repository; `backend.c` is `src/src/backend.c`.

## The system

Redis runs its commands on one **main thread**: an event loop that reads query
buffers, executes the commands in them one after the other, and runs callbacks
for readable descriptors. Redisoo adds to it:

- three **working threads** (get, set, del), started by
  `initBackendWorkingThreads`. Each polls its **job slot** (`server.getJob`,
  `setJob`, `delJob`), sleeping longer and longer while it is empty, makes the
  database call, stores the result in the slot and writes one byte to its
  **pipe**;
- one **spinlock** (`rocklock`) around every access to any of the slots;
- three dictionaries of **candidates** per redis database (`backendGetKeys`,
  `backendSetKeys`, `backendDelKeys`), used by the main thread only: the keys
  the database is to be asked for, each with the clients that wait for it;
- `checkNeedToBackendState`, called before a command is executed. If the
  command needs the database, its key becomes a candidate, and if the slot of
  its mode is empty a job is created for some candidate. With
  `redisoo_*_sync yes` the client then waits (`c->backend_state`); otherwise
  its command is executed at once and the database follows;
- three **pipe handlers** on the main thread. They store the result in the
  cache, remove the entry from its dictionary, resume its clients one by one
  (each executes the command it waits with and then the rest of its query
  buffer, so arbitrary commands run inside a handler), clear the slot, fill it
  with the next candidate, and only then read the byte that started them.

The difficult behaviour is in what these parts may assume of each other. A
result is published by two stores. A slot is found empty in one critical
section and filled in the next. The string a working thread passes to the
database is freed by the main thread. A byte is read after the next one may
have been written. A client may disconnect, be killed or send more commands
while it is registered somewhere. The cache may change between the decision
to ask the database and the arrival of the answer.

Around this, the server does what Redis does:

- commands may be queued by MULTI and executed together by EXEC, unless a key
  that was WATCHed has changed; clients may block on lists and are served by
  those who push; what has changed is **propagated** to the append only file and
  to replicas;
- the **append only file** is written before clients are answered, synced by the
  main thread or by a background thread, and rewritten now and then by a child
  process, to which the parent sends what happens meanwhile;
- **replicas** follow a stream of commands and ask for the part they miss after
  a disconnection;
- in a **cluster** each slot is served by one master; nodes spread who serves
  what by heartbeats, and replicas replace a failed master by an election;
- without a cluster, **sentinels** watch a master and elect one of them to
  promote a replica.

### Inventory

`PROJECT.json` lists all parts of the server with their status. In short:

| Part | Source | Status |
|---|---|---|
| Slots, threads, pipes | `backend.c` | modelled, proved |
| Cache-through commands | `backend.c`, `t_string.c` | partly; safety proved |
| Database access | `redisoo.cc` | modelled |
| Connections, keyspace, configuration, event loop | `networking.c`, `db.c`, `config.c`, `server.c` | partly |
| Transactions, blocked clients | `multi.c`, `blocked.c`, `t_list.c` | partly; proved but for the file |
| Append only file, background fsync | `aof.c`, `bio.c` | partly |
| Replication | `replication.c` | partly |
| Cluster | `cluster.c` | partly; elections and epochs proved |
| Sentinel | `sentinel.c` | partly; safety proved |
| Dictionary, encodings, other data types, RDB, modules, scripting, pub/sub, eviction, transport, tools | | not modelled |

## The modules

| Module | What it is |
|---|---|
| `JobService` | the abstract promise: per mode, a set of requested items that the database is asked for one at a time |
| `JobSlot` | the slots, the spinlock, the threads, the pipes and the handlers, at the grain of the critical section |
| `Backend` | clients, commands, cache, candidates, jobs, configuration and database, at the grain of one command or one handler step |
| `Transactions` | MULTI, EXEC, WATCH, clients blocked on lists, gets filled by a handler, and what reaches the append only file |
| `AppendOnlyFile` | flushes, fsyncs, rewrites and loading of that file, with failing writes, processes and power |
| `Replication` | backlog, offsets, replication IDs, partial and full resynchronisation |
| `ClusterElection` | votes and epochs of the failover elections |
| `ClusterSlots` | what heartbeats and UPDATE messages make of epochs, roles and slots |
| `Sentinel` | epochs, votes, failovers and hello messages of the sentinels |
| `JobSlotProofs` | proofs about `JobSlot` |
| `BackendInvariant`, `BackendSets`, `BackendProofs` | proofs about `Backend`: the inductive invariant; the values that sets write; everything else |
| `TransactionsProofs` | proofs about `Transactions` |
| `ClusterElectionProofs`, `ClusterSlotsProofs` | proofs about the cluster |
| `SentinelProofs` | proofs about `Sentinel` |
| `MC...` | values of the constants for TLC |

`JobSlot` and `Backend` look at the same protocol at two grains, and both are
shown to implement `JobService`. `JobSlot` has all the concurrency and no
data: a command is the item it asks for, clients are absent. `Backend` has the
data and the clients; a job is posted, called, returned and cleared in one
step each. That this hides no interference is argued from `JobSlot`
(`AnswerIsIntact`, `WorkerAssertsHold`, `PipeMatchesReturns`); it is not itself
a refinement that is checked. In the same way `ClusterSlots` takes an election
as one step, whose inside is `ClusterElection`, and `Transactions` takes the
file as a sequence of commands, whose way to the disk is `AppendOnlyFile`.

Several modules have a variable `situation`, chosen by `Init` and never
changed: it says which commands and faults a behaviour has. One run thus checks
several small instances, and the assumptions on the constants list what a
situation may be.

### JobSlot and the code

- `lock`, `dbid`, `key`, `payload`, `returnKey`, `result` are the spinlock and
  the fields of the three job structs (`payload`: `valToBackend` is set).
  `pipe[m]` counts unread bytes. `cands[m]` is the set of `<<database, key>>`
  pairs in the dictionaries of mode m. `wpc`, `wkey`, `wres` are the position
  and the locals of each working thread; `mpc`, `cmode`, `citem`, `hmode`,
  `fin`, `pick` those of the main thread.
- A command: `Command` (`checkNeedToBackendState`; set and del become
  candidates here), `PeekIn` (the re-entry test of a get), `CheckIn` and
  `PostIn` (the two critical sections of `_createNewJobIfHasMoreCandidates`).
  Commands occur in the event loop and in the resume loop of a handler.
- A handler: `Handler`, `FinIn` (copy the job), `Apply` (the entry leaves its
  dictionary), any number of commands of resumed clients, `EndResume`,
  `ClearIn`, possibly `PostIn`, `ReadPipe`.
- A working thread: `TakeIn`, `ValIn` (set only), `DbCall`, `RetKeyIn` and
  `RetResIn` (the two stores), `WritePipe`.
- `MainLock` and `WorkerLock` take the spinlock; the step that ends a critical
  section releases it.

Picking the next candidate happens without the lock in the code. The model does
it in the critical section before, which makes no difference: only the main
thread touches the dictionaries. Keys are compared by name where the code
compares pointers. Handler bodies of the three modes are one set of actions
with the mode as parameter, as in `_clearFinishKey`.

### Backend and the code

- `cache` maps a `<<database, key>>` pair to a value with its encoding
  (`"int"` for what `tryObjectEncoding` turns into an integer) and its time to
  live: none, live, or due. `TtlElapses` lets time pass; every lookup expires
  a due key as `expireIfNeeded` does.
- `database` maps key names to rows: the statements take the key alone, so
  the redis databases share the rows.
- `cands[m][p]` is the entry of p: its waiting clients in order, the value to
  set and its ttl. `job[m]` is the slot together with the position of its
  thread. `setReply` and `delReply` are the failure flags of a client.
- `ReadQuery`, `Enqueue`, `RunDirectly`, `CheckFails`, `Kill`, `ConfigSet` and
  `EndInput` are the steps of `processInputBuffer` for the client `cur`.
  Commands are chosen when they are read, so pipelines of any length occur.
- `Handle`, `Resume`, `ResumeFreed` and `Finish` are `_clearFinishKey`.
  Between two `Resume` steps the resumed client is `cur` and its further
  commands run, as `_resumeBackendClient` does by calling
  `processInputBuffer`.
- `DbCall` has the effect of the statement on the table and its failures:
  before the effect, or after it, when the answer is lost. It uses the
  configuration at the time of the call.
- `fault` records that an assertion failed or that a pointer was used that is
  not what it is taken for; the server stops there.
- `out` is the reply of the last step, with the command, and with how its job
  ended (`via`) if its client had waited. Properties read it; no action does.

`psetex` differs from `setex` in its unit only, and time is abstracted, so it is
`setex`. `redisoo_get_ttl` is a constant. A client that kills itself is not
modelled. A key holds a string or nothing; other types are left out. `del` has
one key; with several the code never asks the database.

### Transactions and the code

- `server` is one record: the dataset, `blocking_keys`, `ready_keys`, the
  waiting gets, the clients with their flags and queues, and the file. An event
  of the main thread is one step: `Run` is `processCommand` with `call`,
  `handleClientsBlockedOnKeys` and propagation; `Fill` is a pipe handler that
  stores a value and resumes its clients; `GetFromBackend`,
  `QueueMultiCommand`, `FlagTransaction`, `Multi`, `Discard`, `Exec`,
  `WatchForKey`, `Timeout`, `FreeClient` and `Restart` are the others. The
  operators that take a server and return one (`Call`, `ExecCommand`, `ServeKey`,
  `HandleClients`, `Touch`) are the functions of the same names. Their loops are
  recursive functions over the number of rounds: `Turn` serves the head of a
  list of blocked clients, `HandleReady` the first ready key, and `CallQueued`
  executes a queue.
- `log` is what the last event has appended to the file and `seen` the
  datasets between its commands, so that a crash can be looked at after each
  byte without a step for each.
- A value that a handler stored is not propagated; the keys in `filled` are
  left out of what is claimed of the file.

### AppendOnlyFile and the code

- A write is the database it goes to and its number; the dataset is the
  sequence of writes. An entry of the file has two bytes, so that it can be cut
  in the middle; a rewritten file begins with `Snapshot(n)`. `Load` says
  whether `loadAppendOnlyFile` can read a file, and which dataset it restores:
  one missing, repeated or misplaced SELECT or write makes it another.
- `server` holds the fields `aof_*`, the queue of fsyncs (`jobs`), the file and
  how much of it is on disk (`synced`). `child` is the rewriting process with
  its pipe.
- `Write`, `BeforeSleep`, `CronFlush`, `BgRewriteAof`, `ScheduledRewrite`,
  `ChildWriteDiffData`, `ChildPipeReadable`, `StopAppendOnly`,
  `StartAppendOnly` and `Shutdown` are steps of the main thread; `BioFsync` one
  of the background thread; `ReadDiffFromParent`, `ChildAsks`, `ChildFinishes`
  and `ChildFails` those of the child. `backgroundRewriteDoneHandler` is
  `RewriteFailed`, or `RewriteRenamed` and `RewriteSwitched`, because a crash
  may come between rename and fsync.
- A write(2) may fail, or be short, and ftruncate may fail too (`Outcomes`).
  A power failure loses any end of the file that is not synced; a rename is
  taken to be on disk when it returns. fsync is taken to succeed, since the code
  ignores its result.
- `due` and `postponed` stand for the comparisons of `unixtime` with
  `aof_last_fsync` and `aof_flush_postponed_start`; `Second` lets them advance.

### Replication and the code

- `servers[n]` holds the fields of a server that `PSYNC` depends on: offsets
  (`off`, `mean`), both IDs with `second`, the backlog, the cached master, the
  RDB that is received, and the link to the master with the commands under way.
- `Write` and `SendPing` feed the replicas and the backlog; `Apply` executes
  the next command of the master and feeds it to sub-replicas; `PsyncContinue`,
  `PsyncFull` and `PsyncJoin` are `syncCommand` with
  `slaveTryPartialResynchronization` on the other side; `SetMaster`,
  `UnsetMaster`, `LoseLink`, `FreeBacklog`, `FinishTransfer` and `Restart`
  are the functions of those names. `FailTransfer` is a load that is refused
  after the dataset has been emptied; other errors of the load from a file end
  the process.
- Offsets count commands. The meaningful offset leaves final PINGs out, as in
  the code.

### ClusterElection and the code

- Per node `cur`, `saved` and `lastVote` (`currentEpoch`, the same in
  `nodes.conf`, `lastVoteEpoch`), per replica the election it is in: `age`,
  `sent`, `epoch` and `counted`. Messages are sets (`requests`, `acks`);
  one that is never received is lost.
- `Schedule`, `RankWorsens`, `RequestFailoverAuth` and `Win` are the parts of
  `clusterHandleSlaveFailover`; `Vote` and `Refuse` are
  `clusterSendFailoverAuthIfNeeded`, which saves before it answers;
  `Heartbeat` raises an epoch; `SaveConfig` and `Restart` are the file.
- When an election is retried, the code resets the count at once and
  `failover_auth_epoch` only when the next request is sent. `LateAcks` says
  whether a vote may arrive in between.

### ClusterSlots and the code

- `view[i]` is `server.cluster` of node i. `SendHeartbeat`, `Receive` and
  `Lose` are the bus; `Receive` is `clusterProcessPacket` with
  `clusterUpdateSlotsConfigWith`, the collision of epochs and the UPDATE it
  answers an outdated claim with. `Failover` is a won election, `Takeover` the
  command; `SetSlotImporting`, `SetSlotStable` and `SetSlotNode` are the
  resharding commands on the node that imports.
- `Stable` says that no heartbeat changes anything any more; agreement is
  claimed then.

### Sentinel and the code

- The variables are the fields of `sentinel` and of the master instance.
  `TickStart` to `TickReconf` are the states of
  `sentinelFailoverStateMachine`, `Ask` is the request for a vote with what
  is made of the reply and `Answer` the reply of `SENTINEL
  is-master-down-by-addr`, `Hello` is
  `sentinelProcessHelloMessage`, `InfoPromoted` the INFO of a promoted
  replica, `Restart` a restart from the file that `sentinelFlushConfig` writes.
- Timers may expire at any time, except that whoever voted for another waits
  longer than that election lasts (`waits`).
- The sentinels are fixed and know each other: `Enough` takes the majority of
  `Sentinels`. In the code it is one of those this sentinel knows
  (`dictSize(master->sentinels) + 1`, `sentinel.c:3918`), which a hello message
  of a new sentinel changes (`sentinel.c:2499`). While sentinels do not know each
  other two may have majorities that do not meet; the properties of elections are
  about the time after.

## What the runs check

### Runs that pass

- **slots** (`MCJobSlot.cfg`): two threads, two redis databases, one key name.
  The assertions of the main thread hold (`MainAssertsHold`); what it reads from
  a slot is what the database answered for that key, though it is stored in two
  steps (`AnswerIsIntact`); a mode with candidates has a job whenever the loop
  waits (`NoLostJob`); the inductive invariant `IInv` holds, which has the
  assertions of the working threads and the count of the bytes in the pipes;
  the whole implements `JobService`; and under fairness a mode with candidates
  keeps finishing them (`KeepsServing`).
- **backend** (`BackendMain.cfg`): two clients and four workloads. Synchronous
  commands, clients that disconnect at any time, and calls that fail before or
  after their effect; `config set` of the database, and of the statements while
  fetched keys expire, with jobs pending; and commands of every form (setex,
  setnx, options, malformed sets, unlink, client kill, empty and integer
  values). A waiting client is registered exactly once
  (`WaitersRegisteredOnce`), one whose connection broke nowhere
  (`DisconnectedForgotten`), jobs and candidates agree (`JobHasCandidate`), a
  successful write is acknowledged (`SuccessIsAcknowledged`), a write that serves
  several has the value of each of them (`OneWriteServesAll`), a failed write
  leaves the cache alone (`FailureChangesNothing`), and the whole implements
  `JobService`.
- **cases** (`BackendCases.cfg`): without writers every get is answered with
  the value of its row, from two redis databases and two keys
  (`GetAnswersDatabase`); with sets alone, synchronous or not, with and without
  a ttl, and a database that works, cache and database agree when nothing is
  pending (`SetsReachBoth`) and an acknowledged set is in both
  (`AckedSetIsStored`); with one key a waiting client is resumed or disconnects,
  whether the database answers or fails (`WaiterIsResumed`).
- **transactions** (`Transactions.cfg`): a client with transactions next to
  one with gets that fill the cache, and three clients, of which two block or all
  wait for values of two keys. An
  EXEC never runs on watched keys that have changed (`ChangedIsFlagged`);
  who is blocked is listed once under each of its keys, who waits for a value
  once under the key of its get, and nobody else (`WaitersRegistered`);
  nobody sleeps on a key that holds a list (`NobodySleepsOnAList`), and who waited
  longer is served first (`ServedInOrder`); the file replayed gives the dataset (`FileIsComplete`),
  and cut off anywhere a dataset that was there between two commands, with
  transactions whole (`RecoversAtomically`).
- **aof** (`AppendOnlyFile.cfg`): nine situations. Whatever end of the file a
  power failure takes, the rest restores the dataset after some write
  (`RecoversPrefix`); who was answered finds the write in the file unless the
  flush is put off or writes are refused (`WrittenBeforeReply`), and on disk
  with `appendfsync always` (`AlwaysDurable`); switching to a rewritten file, a
  flush that fails and its repetition take nothing back (`NeverForgets`); with
  `everysec` all writes are on disk in the end (`EventuallyDurable`); and
  CONFIG SET appendonly yes takes effect though another child is active or
  children fail (`SwitchedOn`).
- **replication** (`Replication.cfg`): a star whose roles change, and a chain
  with PINGs and restarts. A replica reaches the dataset and the offset of
  whoever feeds it, by whichever resynchronisation (`SameData`); an ID with an
  offset stands for one dataset (`IdentifiesData`), except at a replica that
  a failed load has left without dataset, which keeps both but has neither backlog
  nor cached master to use them with.
- **election** (`ClusterElection.cfg`): two replicas ask the two voters that are
  left of three, with crashes, restarts, and late or lost messages. One replica
  wins an epoch (`OneWinnerPerEpoch`), and the inductive invariant holds.
- **cluster_slots** (`ClusterSlots.cfg`): three masters and a replica. Once
  heartbeats change nothing, all agree who serves each slot and every slot is
  served (`StableAgrees`) and masters have different epochs
  (`StableEpochsDiffer`), through elections with messages that overtake each
  other, takeovers, resharding, and epochs that collide at the start; a replica
  never serves a slot (`ReplicaServesNothing`).
- **sentinel** (`Sentinel.cfg`): three sentinels that restart at any time. One
  vote per epoch (`OneVotePerEpoch`); one leader per epoch among those who are
  elected before they hear of a later one (`OneTimelyLeader`), and then
  configurations of one epoch name one master (`SameEpochSameMaster`); a
  restart loses neither vote nor master (`RestartKeepsMaster`).

`Sentinel`, `Replication` and `AppendOnlyFile` also have a type invariant
`TypeOK`; it holds on the same instances, and no configuration lists it.

### Runs that show a disagreement

Each checks one statement that a document or comment of the repository makes,
and TLC finds a behaviour of the code against it. The quotations are under
"findings" in `PROJECT.json`.

| Run | Property | What happens |
|---|---|---|
| stale_fill | `CacheMatchesDatabase` | a get that read the old row is stored over a newer set |
| killed_waiter | `FreedClientForgotten` | a client that is freed while a handler runs stays in the handler's copy of the waiting clients |
| late_acks | `OneWinnerPerEpoch` | votes of an election that timed out are counted for the next one, and two replicas win one epoch |

Each has a counterpart that holds and shows where the boundary lies: with sets
alone cache and database agree (**cases**), clients whose connection breaks are
forgotten (**backend**), and without late votes one replica wins (**election**,
and for every instance `ElectionSafety`).

### Other disagreements

The models have further behaviours that contradict a comment or a document, or
that a reader of the code would not expect. No run is kept for them; the passing
runs leave these cases out, as their properties or situations say.

Backend:

- A malformed set goes to the database as well; if that fails, its failure flag
  is spent on the next set (`t_string.c:81`).
- A setex is compared with a queued set by its expire argument, and then fails
  the assertion on the value (`backend.c:399`).
- A set that finds its key queued with another value skips the database; if
  the queued statement fails, cache and database differ (`backend.c:253`).
- A set and a del of one key are executed by two threads, and may reach the
  cache and the database in different orders (`backend.c:719`).
- A del of a key that is not cached leaves its row (`backend.c:272`).
- The handler of an asynchronous set undoes a later one that was acknowledged,
  and a synchronous setnx that creates its key is answered 0, because the
  handler stores the key before it is executed (`backend.c:707`).
- An integer-encoded value is passed to `sdscmp` (`backend.c:226`), and a row
  with the empty string fails an assertion (`backend.c:533`).
- With `redisoo_db ""` clients wait for jobs that can only fail, since the type
  `Empty` is not the 0 that the code tests for (`backend.c:439`).
- A client of database 1 waits for ever while clients of database 0 keep
  missing (`backend.c:43`), and with a ttl a fetched key may expire before its
  clients are resumed.

Transactions:

- What handlers store is not propagated, so that a restart or a replica does
  not have it (`backend.c:694`).
- A client that watches a key and then gets it, when it is missing, makes its
  own EXEC fail: filling the cache touches the key.
- SORT ... STORE overwrites a key without signalling it, so that a client
  blocked on it sleeps on (`sort.c:573`, `db.c:244`), while a comment in
  `blocked.c` says that all keys with blocked clients "that received at least
  one new element via some write operation" are accumulated in `ready_keys`.
  This one was found by reading; SORT is not in the model.

Append only file:

- The rewritten file is renamed into place before its end is synced
  (`aof.c:1754`, `aof.c:1776`). With `always` a power failure in between loses
  writes that were answered, against "we have the contract with the user that on
  acknowledged write data is synced on disk" (`aof.c:456`).
- A rewrite that succeeds while the last flush has failed clears the buffer;
  nothing is flushed any more, so the error stays and writes are refused for
  ever (`aof.c:466`, `aof.c:1786`), against "as long as the error condition is
  not cleared".
- After a restart `aof_fsync_offset` is the size of the file, so that with
  `everysec` what was not synced before is synced only after another write
  (`aof.c:877`).
- Shutdown is refused while the first file is being written "or else the dataset
  will be lost" (`server.c:3743`), but not while that rewrite is only scheduled.
- When the last flush before CONFIG SET appendonly no fails, its buffer is kept;
  after the file has been rewritten and appendonly is yes again, a short write is
  undone by ftruncate to the old `aof_current_size`, which cuts off the
  rewritten file. It is not in use yet, and is replaced by the rewrite that
  follows.

Replication:

- `replicationUnsetMaster` takes the offset up to which the old ID is valid
  from `master_repl_offset`, final PINGs included, before the stream is trimmed
  to the meaningful offset (`replication.c:2523`). A replica that counted the
  PINGs is then served past writes of the new master that it never got, against
  "the slave asking has the same history up to the 50th byte"
  (`replication.c:1351`). This takes PINGs and role changes together, and
  is why the situations of **replication** have one of the two.
- Trimming the stream is to disconnect chained replicas, but
  `disconnectSlaves(1)` closes only the first one (`networking.c:1056`), and the
  offsets of two chained replicas differ from then on. Trimming by more than the
  backlog holds leaves `repl_backlog_off` as it was (`replication.c:2797`).

Cluster:

- A replica of a replica may remain when nothing changes any more
  (`cluster.c:1646`): `StableFollows` does not hold with four nodes.
- A takeover while a PING and a PONG overtake each other can leave the owner of
  a slot unaware of it; takeovers run with one message at a time.
- An UPDATE about a slot that is sent by a master that was demoted meanwhile
  raises the epoch recorded for the old owner, and is undone only by that node's
  next heartbeat.

Sentinel:

- Votes are counted by `current_epoch` (`sentinel.c:3924`), which may have
  passed the epoch of the election, so two sentinels can be leaders of one
  epoch: `OneLeaderPerEpoch` does not hold.
- A leader that has promoted its replica and hears of a later failover back to
  the old master takes over the epoch without the address (`sentinel.c:2547`,
  `mixed` in the model). A configuration epoch raised by a hello with the same
  address is not written to the file.

### Bounds

- `JobSlot`, `Backend`: two clients are enough for a client that joins
  another's entry, that is resumed after it in the same handler, or that acts in
  the resume loop before it. One key is enough for everything but the choice
  between candidates; **cases** and **slots** use two databases, where the order
  of the choice and the re-entry test by key name matter. Two values tell a
  stale value from a current one; a third is an integer where encodings matter.
  Two threads show all interference in `JobSlot`, since the modes share the
  spinlock and the main thread only; the third multiplies the states by ninety
  and is covered by the proofs. Nothing else is bounded: pipelines, repeated
  commands and re-used slots are unlimited.
- `Transactions`: two keys (source and destination), three clients (two that
  block, in an order, and one that pushes), lists of up to `MaxLen` 2 elements
  before a command, `MaxQueue` 2 commands in a transaction.
- `AppendOnlyFile`: two databases, one or two writes (two where rewrites meet
  crashes, so that one is in the snapshot and one in the differences), `MaxBytes`
  6 in the file before a write, `MaxJobs` 1 fsync in the queue when the file is
  replaced. Crashes are left out with `everysec` (see above).
- `Replication`: three servers, a backlog of 2, streams of `MaxOffset` 3 commands,
  `MaxId` 5 IDs, two REPLICAOF commands. The backlog overflows.
- `ClusterElection`: `MaxEpoch` 2; two voters of three make the majority as
  tight as it gets. The proof has no bound on nodes.
- `ClusterSlots`: `MaxEpoch` 4; three slots, so that a master can lose one and
  be left without; one or two messages under way.
- `Sentinel`: three sentinels, `Quorum` 1, two replicas, `MaxEpoch` 2. With
  `MaxEpoch` 3 a random search of 24 million states found nothing.

Deadlock is not checked where the bounds stop a behaviour (`Replication`,
`Sentinel`).
Symmetry is used for clients, for nodes of an election, for sentinels and for
replicas, where the module treats them alike; runs with liveness use none.

### Fairness

In `JobSlot`: working threads and the main thread make progress (weak fairness).
Taking the spinlock is strongly fair, because a thread without a job sleeps
between two polls and thereby leaves the lock to the others for longer and
longer. A pipe handler is strongly fair: the event loop polls all descriptors in
each round, and a round ends. The resume loop ends (strong fairness of
`EndResume`), because a query buffer is finite. Weak fairness of `DbCall`
says that calls return; the code has no timeout, so a call that hangs stops its
mode for good.

`Backend` has the same assumptions: query buffers end, handlers run and
finish, calls return. Nothing is assumed of clients.

In `AppendOnlyFile` the clock, the event loop, cron, the background thread and
the child go on. A flush that succeeds is strongly fair, and so are the steps
of a rewrite that succeeds: the disk and the children may fail any number of
times, but not for ever. Another child ends. Nothing is assumed of clients, of
BGREWRITEAOF or of CONFIG SET.

## What is proved

`JobSlotProofs` proves for every subset of the three threads, every set of
redis databases, keys and results, however large:

- `Invariance`: `Spec => []IInv`;
- `TypeCorrectness`, `MainAsserts`, `WorkerAsserts`, `IntactAnswers`,
  `PipeAccounting`, `NoJobIsLost`: the safety properties of run **slots**, the
  assertions of the working threads, and that the bytes in the pipes are exactly
  the returned jobs;
- `Refinement`: `Spec => ImplementsService`.

The assumptions are those on the constants: the modes are among get, set and
del, the ids of databases are natural numbers, and NULL is none of the values.

None of the properties is inductive by itself. That a handler finds a returned
job, for instance, follows from the byte that started it; that the byte stands
for a returned job depends on who may clear a slot; and this in turn on which
handler is running and on what a working thread may do meanwhile. `IInv`
states these dependencies:

- `LockInv`: who is in a critical section holds the lock, so the state between
  the two stores of a result is never seen by the main thread;
- `ControlInv`: which of command and handler the main thread has, by its
  position; a slot about to be filled is empty;
- `SlotInv`: a slot is empty, posted or returned; a thread that works on a
  key finds it in the slot, not returned; a returned slot holds what the thread
  got from the database;
- `HandlerInv`: until a handler clears its slot, the job stays returned and
  its working thread has nothing to do;
- `CandidateInv`: a job is for a candidate unless its handler has removed the
  entry already (`Finished`); a mode with an empty slot has no candidates,
  except while the main thread is about to create a job;
- `PipeMatchesReturns`: the bytes, counted;
- `TypeOK`.

For each action one lemma shows that it preserves `IInv`, one step per
conjunct, and one lemma shows which step of `JobService` it is: `PeekIn` and
`Command` request, `PostIn` dispatches, `RetResIn` answers, `Apply`
completes, the others leave the service unchanged. `CandidateExists` shows
that a non-empty dictionary yields a candidate, by the well-foundedness of the
natural numbers; `PostTarget` gathers what holds when a job is posted.

`ClusterElectionProofs` proves, for any number of voters and replicas and any
bound on epochs, from the assumption that no vote reaches a replica whose next
election is scheduled (`~LateAcks`; **late_acks** shows that it is needed):

- `ElectionInvariance`: `IInv` always holds;
- `ElectionSafety`: at most one replica wins an epoch.

The assumptions on the constants are that there are finitely many voters, no
more than `Size`, and that no voter is a replica of the failing master. The
argument: a voter gives one vote per epoch, though it may crash, because the
epoch of its vote is in `nodes.conf` before the vote leaves (`OneVotePerEpoch`
needs `EpochsSaved`); a replica counts votes of its current election only
(`CountsOwnElection`), because it asks for an epoch above any it asked for
before (`AsksForNewEpoch`), which again rests on what is saved; so a winner has
a majority behind it (`WonByMajority`, `CountIsVoters`), and two majorities of
one epoch share a voter (`QuorumsIntersect`, from the cardinality of finite
sets).

`BackendInvariant`, `BackendSets` and `BackendProofs` prove, for all clients,
redis databases, keys, values and workloads, every safety property that the
passing runs check of `Backend`:

- `Invariant`: `Spec => []IInv`;
- `WaitersRegisteredOnceHolds`, `DisconnectedForgottenHolds`,
  `JobHasCandidateHolds`: who waits is registered once, and jobs are for
  candidates;
- `FailureChangesNothingHolds` (a property of steps),
  `SuccessIsAcknowledgedHolds`: what a writer is told;
- `OneWriteServesAllHolds`: the write somebody waits for has its value;
- `GetAnswersDatabaseHolds`: gets alone are answered with their rows;
- `AckedSetIsStoredHolds`, `SetsReachBothHolds`: sets alone keep cache and
  database together;
- `Refinement`: `Spec => ImplementsService`.

`BackendAssumption` says that redis databases are numbers, that workloads have
the shape that a configuration and a parser can produce, and that NULL is none
of the other values. `IInv` connects the three places where a waiting client
can be: a client in an entry waits for that entry (`ListedWaits`), one in the
copy a handler resumes from has been killed or waits for that handler's
key (`CopiedWaits`), and whoever waits is in one of the two (`WaitsListed`);
`MainInv` says what the main thread is doing. The other properties need
more, each about the workloads it speaks of:

- `FlagInv`: well-formed sets leave no failure flag behind;
- `OneWriteServesAll` itself is inductive on top of `IInv`, for all workloads:
  what joins an entry has passed the assertion on its value;
- `SetInv`: with sets alone a statement that has succeeded stays in the database
  until its handler has finished;
- `AgreeInv`: with a working database besides, a key that is not queued agrees
  with its row;
- `GetInv`: with gets alone, what is cached or fetched is what the row has.

Two properties have hypotheses that the workloads of the runs satisfy anyway, and
without which they are false. `SetsReachBoth` asks for one redis
database, because the databases share the rows. `GetAnswersDatabase` asks that
fetched keys do not expire, because a key may expire between the handler that
stores it and the resumption of the client.

The step of `JobService` that an action is, and the lemma about it, is as in
`JobSlot`: an entry is a request, `Handle` completes it.

`TransactionsProofs` proves for any finite sets of clients and keys, and for
lists, queries and transactions of any length:

- `TransactionsInvariant`: `Spec => []IInv`;
- `BlockedAreRegistered`, `ChangesAreFlagged`, `NobodySleeps`: the invariants
  `WaitersRegistered`, `ChangedIsFlagged` and `NobodySleepsOnAList`;
- `ServesInOrder`: the property `ServedInOrder` of steps.

An event is one step here and a program inside, so that the invariant has to be
stated for the middle of an event. `Good(s, X)` says of a server `s` that the
lists of blocked clients are right (`Registered`), that a key with a list and
blocked clients is ready (`Awake`; except for keys in `X`, on which the
current command is still working), and that whoever watches a ready key has been
flagged (`ReadyFlagged`). This last part is what makes serving sound: popping
an element for a blocked client changes a key without `signalModifiedKey`, as
a comment in `serveClientsBlockedOnListKey` says, and nobody who watches it is
missed because the push that made it ready has flagged them. `Flags` relates two
servers: who keeps watching keeps its flag, and gets one for each change. Each
operator has a lemma that it keeps `Good` and has `Flags`; `StillThen`,
`OrderTrans` and the like compose them.

After an event no key is ready, because `HandleClients` ends: every round takes a
key from `ready_keys`, and every client that is served in it may make another one
ready (BRPOPLPUSH) but is not blocked any more, so that `Work`, the number of
ready keys and blocked clients together, decreases. Here the finiteness of the
clients is used. The loops are recursive functions over the number of rounds; what
holds after each round is shown with the least round where it would not (`Least`), since
induction is not available. What the lemmas need of numbers and finite sets is
their hypothesis `Counting`, and `CountingHolds` proves it at the end of the
module, where the library's theorems come in: in the context of every lemma they
would slow the prover down.

For the order, `Follows` says that a list is another one with some members
removed, and `Order` that whoever is served from a key was before those who
are left in its list. The removal of a client from the middle, by a timeout or
because another key served it, keeps the rest in order.

`ClusterSlotsProofs` proves for any number of nodes, slots, messages and epochs:

- `SlotsInvariant`: `Spec => []IInv`;
- `ReplicasServeNothing`: the invariant `ReplicaServesNothing`;
- `EpochsDiffer`: the invariant `StableEpochsDiffer`.

It assumes that nodes start with a view that `clusterLoadConfig` can leave
behind (`StartViews`): no epoch is ahead of `currentEpoch`, and replicas have no
slots. `IInv` says that no epoch which somebody attributes to a node, in a
view or in a message under way, is ahead of that node (`Reached`); an epoch
that a node hears of itself is therefore never news. When heartbeats change
nothing, of two masters with one epoch the one with the smaller name would
have raised its own (`clusterHandleConfigEpochCollision`).

`SentinelProofs` proves for any finite number of sentinels and any instances:

- `SentinelRestarts`: whenever a sentinel can stop, its file has its epoch, the
  epoch of its vote and the master it names (`RestartKeepsMaster`);
- `SentinelVotes`: a sentinel votes for one candidate per epoch, restarts
  included (`OneVotePerEpoch`);
- `SentinelElects`: an epoch has one leader among those elected in time
  (`OneTimelyLeader`);
- `SentinelAgrees`: configurations of one epoch name one master
  (`SameEpochSameMaster`).

`IInv` adds to the first that neither vote nor election is ahead of
`current_epoch`: a vote for a new epoch raises `current_epoch` first, and so the
vote that a restart reads back is never of an epoch it has yet to reach.
`ElectionInv` keeps a majority behind each timely leader: a sentinel that
`Backs` it has voted for it, or has gone on to a later epoch, and whatever
others have heard of its vote agrees (`VotesAgree`). Two majorities share a
sentinel. `ConfigInv` says that the epoch of a leader is nobody's configuration
epoch until it has promoted its replica; so the first configuration with an
epoch comes from its leader, and all others from that one.

### Only model-checked

- Liveness (`KeepsServing`, `WaiterIsResumed`, `EventuallyDurable`,
  `SwitchedOn`): fairness and ENABLED are beyond the prover.
- `RecoversAtomically` and `FileIsComplete` of `Transactions`, all of
  `AppendOnlyFile`: they compare a dataset with what loading a file gives,
  a recursion over the file, and what a recursion computes for every file
  takes induction over data, which the prover does not have. `NeverForgets` is
  about the same operator.
- `SameData` and `IdentifiesData` of `Replication`: they are about streams and
  their prefixes, and hold in the situations of the run only; PINGs together
  with role changes violate them (above).
- `StableAgrees` of `ClusterSlots`: it is not true of every instance. With
  three masters, of which the first owns slots 1 and 2, let the second import
  slot 1 and then the first import slot 3, of the second. For the latter the first raises its
  epoch, above that of the second. A node that has heard this before it hears
  of slot 1 still has the first as the owner of it, finds the claim of the
  second outdated, and answers with an UPDATE about the first. The second gives
  slot 1 up, which the first gave up before; in the end the others take the
  first for its owner, and the first knows of none. Whether this is what resharding by hand should guard against is not
  said anywhere; redis-cli sends SETSLOT NODE to all masters after each move,
  which the model leaves out. The situations of the run have one import each.
- That `Backend` may take a job in four steps, and `ClusterSlots` an election in
  one, is argued and not checked (see "The modules").

## What is not modelled

- Backend: `ECHO`, which in this fork calls `db_get` on the main thread; the
  checks of `processCommand` before its tail, which a resumed command does not
  pass again; the nested event loop of a slow script or of loading, in which a
  pipe handler may be entered from inside a command (`scripting.c:1434`); the
  lifetimes of the configuration strings, which the working threads read without
  the lock; database calls that never return; the exact time to live.
- Transactions: expiry, query buffers, sorted sets, streams and modules that
  block, CLIENT UNBLOCK, role changes and ACL checks inside EXEC, `redisoo_set`
  and `redisoo_del`. Queued commands never ask the database, in the code as in
  the model.
- Persistence: BGSAVE (only as another child), the RDB and the formats of both
  files, loading with `aof-load-truncated no`, an fsync that reports an error.
- Replication: several databases (SELECT in the stream), diskless transfer, a
  restart from an older RDB, half-open connections, WAIT and acknowledgements,
  timing.
- Cluster: failure detection and the gossip section, handshake, replica
  migration, manual failover, BUMPEPOCH, ADDSLOTS, SETSLOT MIGRATING and NODE on
  nodes that do not import, redirection of clients. A failing master is any
  master at any time.
- Sentinel: subjective and objective failure (any sentinel may find the master
  down), the discovery of sentinels and changes of their number, TILT, scripts,
  forced failover, several masters, what instances do with SLAVEOF.
- The dictionary, encodings, data types other than strings and lists, eviction,
  pub/sub, modules, scripting, TLS, I/O threads, memory, and the tools. Most of
  the source is in these: sequential code over byte layouts whose states are not
  the product of an order of events, and whose translation would be as long as
  the code. The share of the source that the definitions stand for is therefore
  small, and is concentrated where processes, threads, messages and crashes
  meet.

## Running

    tlc -config MCJobSlot.cfg MCJobSlot
    tlc -config BackendMain.cfg MCBackend
    tlc -config AppendOnlyFile.cfg MCAppendOnlyFile
    tlapm JobSlotProofs.tla
    tlapm BackendProofs.tla

`PROJECT.json` names the module of every other configuration. tlapm proves the
modules that a module extends only when it is run on them. The proofs about
`Backend` and `Transactions` take about a quarter of an hour per module; most of
their leaves name Zenon, because tlapm translates an obligation for it in a
fraction of the time that it needs for SMT. Operators whose names begin with
`Bug` are plausible mistakes in the definition that follows them; no action uses
them. Substituting one for its definition makes TLC find the property violated
that `PROJECT.json` names with it under "mutants".
