---------------------------- MODULE BackendSets -----------------------------
(***************************************************************************)
(* Proofs about the writes of Backend: one write serves all who wait for   *)
(* it, and what holds while clients send sets only.                        *)
(***************************************************************************)
EXTENDS BackendInvariant

-----------------------------------------------------------------------------
(* An entry of set, its job and those who wait for it agree on the value. *)

\* The steps that touch neither clients nor dictionaries nor jobs.
LEMMA ValueFrame ==
  ASSUME OneWriteServesAll, UNCHANGED <<cands, job, connected, argv, hmode, todo>>
  PROVE  OneWriteServesAll'
BY Zenon DEF OneWriteServesAll

\* A client connects: no handler runs.
LEMMA ValueConnect ==
  ASSUME IInv, OneWriteServesAll, NEW c \in Clients, Connect(c)
  PROVE  OneWriteServesAll'
<1>1. UNCHANGED <<cands, job, argv, hmode, todo>> /\ todo = <<>>
  BY Zenon DEF Connect, mainVars, IInv, MainInv
<1>2. Range(todo) = {}
  BY Zenon, <1>1, EmptyList
<1> QED BY Zenon, <1>1, <1>2 DEF OneWriteServesAll

\* A client that may wait for a set is freed.
LEMMA ValueFree ==
  ASSUME IInv, OneWriteServesAll, NEW c \in Clients, FreeClient(c),
         UNCHANGED <<job, hmode, todo>>
  PROVE  OneWriteServesAll'
<1>1. TypeOK /\ "set" \in Modes /\ ListedWaits /\ JobHasCandidate
  BY Zenon, NullFacts DEF IInv
<1>2. /\ connected' = connected \ {c} /\ argv' = [argv EXCEPT ![c] = NULL]
      /\ cands' = WithoutClient(c)
  BY Zenon DEF FreeClient
<1>3. \A d \in Clients : d # c => argv'[d] = argv[d]
  BY Zenon, <1>1, <1>2 DEF TypeOK
<1>4. ASSUME NEW p \in Items
      PROVE  /\ cands["set"][p] = NULL <=> cands'["set"][p] = NULL
             /\ cands["set"][p] # NULL =>
                  /\ cands'["set"][p].val = cands["set"][p].val
                  /\ Range(cands'["set"][p].clients) = Range(cands["set"][p].clients) \ {c}
  BY <1>1, <1>2, WithoutClientEntry
<1>5. ASSUME NEW p \in Items, cands'["set"][p] # NULL,
             NEW d \in Range(cands'["set"][p].clients)
      PROVE  argv'[d].val = cands'["set"][p].val
  <2>1. cands["set"][p] # NULL /\ d \in Range(cands["set"][p].clients) /\ d # c
    BY Zenon, <1>4, <1>5
  <2>2. d \in Clients
    BY Zenon, <1>1, <2>1, EntryFacts
  <2>3. argv[d].val = cands["set"][p].val
    BY Zenon, <2>1 DEF OneWriteServesAll
  <2> QED BY Zenon, <1>3, <1>4, <2>1, <2>2, <2>3
<1>6. ASSUME job["set"] # Idle, hmode # "set"
      PROVE  job["set"].val = cands'["set"][job["set"].item].val
  <2>1. job["set"].item \in Items
    BY Zenon, <1>1, <1>6, JobFacts DEF PendingJobs
  <2>2. cands["set"][job["set"].item] # NULL
    BY Zenon, <1>1, <1>6 DEF JobHasCandidate
  <2>3. job["set"].val = cands["set"][job["set"].item].val
    BY Zenon, <1>6 DEF OneWriteServesAll
  <2> QED BY Zenon, <1>4, <2>1, <2>2, <2>3
<1>7. ASSUME hmode = "set", NEW d \in Range(todo), d \in connected'
      PROVE  argv'[d].val = job["set"].val
  <2>1. d \in Clients /\ d # c /\ d \in connected
    BY Zenon, <1>1, <1>2, <1>7, RangeType DEF TypeOK
  <2> QED BY Zenon, <1>3, <1>7, <2>1 DEF OneWriteServesAll
<1> QED BY Zenon, <1>5, <1>6, <1>7 DEF OneWriteServesAll

\* A handler takes the answer of a job.
LEMMA ValueHandle ==
  ASSUME IInv, OneWriteServesAll, NEW m \in Modes, Handle(m)
  PROVE  OneWriteServesAll'
<1> DEFINE p == job[m].item
<1>1. TypeOK /\ JobHasCandidate /\ "set" \in Modes
  BY Zenon, NullFacts DEF IInv
<1>2. job[m] # Idle /\ job[m] \in PendingJobs /\ hmode = NULL /\ NULL # "set"
  BY Zenon, <1>1, JobFacts, NullFacts DEF Handle
<1>3. p \in Items
  BY Zenon, <1>2 DEF PendingJobs
<1>4. /\ cands[m][p] # NULL
      /\ job["set"] # Idle => job["set"].val = cands["set"][job["set"].item].val
  BY Zenon, <1>1, <1>2, NullFacts DEF JobHasCandidate, OneWriteServesAll
<1>5. /\ todo' = cands[m][p].clients /\ hmode' = m
      /\ cands' = [cands EXCEPT ![m][p] = NULL]
      /\ UNCHANGED <<job, connected, argv>>
  BY Zenon DEF Handle, clientVars
<1>6. \A n \in Modes, q \in Items :
        cands'[n][q] = IF n = m /\ q = p THEN NULL ELSE cands[n][q]
  <2>1. NULL \in Entries \union {NULL}
    BY Zenon
  <2> HIDE DEF p
  <2> QED BY <1>1, <1>3, <1>5, <2>1, EntryUpdate
<1>7. ASSUME NEW q \in Items, cands'["set"][q] # NULL, NEW d \in Range(cands'["set"][q].clients)
      PROVE  argv[d].val = cands'["set"][q].val
  <2>1. cands'["set"][q] = cands["set"][q] /\ cands["set"][q] # NULL
    BY Zenon, <1>1, <1>6, <1>7
  <2> QED BY Zenon, <1>7, <2>1 DEF OneWriteServesAll
<1>8. CASE m = "set"
  <2>1. \A d \in Range(cands["set"][p].clients) : argv[d].val = cands["set"][p].val
    BY Zenon, <1>3, <1>4, <1>8 DEF OneWriteServesAll
  <2>2. \A d \in Range(todo') : argv[d].val = job["set"].val
    BY Zenon, <1>2, <1>4, <1>5, <1>8, <2>1
  <2> HIDE DEF p
  <2> QED BY Zenon, <1>5, <1>7, <1>8, <2>2 DEF OneWriteServesAll
<1>9. CASE m # "set"
  <2>1. ASSUME job["set"] # Idle
        PROVE  job["set"].val = cands'["set"][job["set"].item].val
    <3>1. job["set"].item \in Items
      BY Zenon, <1>1, <2>1, JobFacts DEF PendingJobs
    <3> HIDE DEF p
    <3>2. cands'["set"][job["set"].item] = cands["set"][job["set"].item]
      BY Zenon, <1>1, <1>6, <1>9, <3>1
    <3> QED BY Zenon, <1>4, <2>1, <3>2
  <2> HIDE DEF p
  <2> QED BY Zenon, <1>5, <1>7, <1>9, <2>1 DEF OneWriteServesAll
<1> QED BY Zenon, <1>8, <1>9

\* A handler resumes a client.
LEMMA ValueResume ==
  ASSUME IInv, OneWriteServesAll, Resume
  PROVE  OneWriteServesAll'
<1> DEFINE c == Head(todo)
<1>1. TypeOK /\ CopiedWaits /\ "set" \in Modes
  BY Zenon, NullFacts DEF IInv
<1>2. /\ c \in Clients /\ Range(todo) = Range(Tail(todo)) \union {c}
      /\ c \notin Range(Tail(todo)) /\ Range(todo) \subseteq Clients
  BY Zenon, <1>1, TailFacts, RangeType DEF Resume, TypeOK, CopiedWaits
<1>3. /\ argv' = [argv EXCEPT ![c] = NULL] /\ todo' = Tail(todo)
      /\ UNCHANGED <<cands, job, connected, hmode>>
  BY Zenon DEF Resume
<1> HIDE DEF c
<1>4. \A d \in Clients : d # c => argv'[d] = argv[d]
  BY Zenon, <1>1, <1>3 DEF TypeOK
<1>5. ASSUME NEW p \in Items, cands["set"][p] # NULL, NEW d \in Range(cands["set"][p].clients)
      PROVE  argv'[d].val = cands["set"][p].val
  <2>1. d # c
    BY Zenon, <1>1, <1>2, <1>5 DEF CopiedWaits
  <2>2. d \in Clients
    BY Zenon, <1>1, <1>5, EntryFacts
  <2> QED BY Zenon, <1>4, <1>5, <2>1, <2>2 DEF OneWriteServesAll
<1>6. hmode = "set" =>
        \A d \in Range(Tail(todo)) : d \in connected => argv'[d].val = job["set"].val
  BY Zenon, <1>2, <1>4 DEF OneWriteServesAll
<1> QED BY ZenonT(60), <1>3, <1>5, <1>6 DEF OneWriteServesAll

\* A handler ends, and posts the next key that waits.
LEMMA ValueFinish ==
  ASSUME IInv, OneWriteServesAll, Finish
  PROVE  OneWriteServesAll'
<1>1. TypeOK /\ hmode \in Modes /\ "set" \in Modes
  BY Zenon, NullFacts DEF Finish, IInv, TypeOK
<1>2. PICK j \in NewJobs(cands[hmode]) : job' = [job EXCEPT ![hmode] = j]
  BY Zenon DEF Finish, Refill
<1>3. /\ hmode' = NULL /\ NULL # "set" /\ UNCHANGED <<cands, connected, argv>>
  BY Zenon, NullFacts DEF Finish, clientVars
<1>4. ASSUME job'["set"] # Idle
      PROVE  job'["set"].val = cands["set"][job'["set"].item].val
  <2>1. CASE hmode = "set"
    <3>1. cands["set"] \in [Items -> Entries \union {NULL}]
      BY Zenon, <1>1 DEF TypeOK
    <3>2. job'["set"] = j /\ j \in NewJobs(cands["set"])
      BY Zenon, <1>1, <1>2, <2>1 DEF TypeOK
    <3> QED BY Zenon, <1>4, <3>1, <3>2, NewJobFacts
  <2>2. CASE hmode # "set"
    <3>1. job'["set"] = job["set"]
      BY Zenon, <1>1, <1>2, <2>2 DEF TypeOK
    <3> QED BY Zenon, <1>4, <2>2, <3>1 DEF OneWriteServesAll
  <2> QED BY Zenon, <2>1, <2>2
<1> QED BY Zenon, <1>3, <1>4 DEF OneWriteServesAll

\* A working thread keeps what its job is for.
LEMMA ValueWorker ==
  ASSUME IInv, OneWriteServesAll, NEW m \in Modes, WorkerStep(m)
  PROVE  OneWriteServesAll'
<1>1. TypeOK /\ "set" \in Modes /\ job[m] # Idle /\ job[m] \in PendingJobs
  BY Zenon, JobFacts, NullFacts DEF IInv, WorkerStep, DbCall, Return
<1>2. PICK ph, r : job' = [job EXCEPT ![m].phase = ph, ![m].res = r]
  <2>1. CASE DbCall(m)
    BY Zenon, <2>1 DEF DbCall, Done
  <2>2. CASE Return(m)
    <3>1. job' = [job EXCEPT ![m].phase = "returned", ![m].res = job[m].res]
      BY <1>1, <2>2 DEF Return, TypeOK, PendingJobs
    <3> QED BY Zenon, <3>1
  <2> QED BY Zenon, <2>1, <2>2 DEF WorkerStep
<1>3. UNCHANGED <<cands, connected, argv, hmode, todo>>
  BY Zenon DEF WorkerStep, DbCall, Return, clientVars, mainVars
<1>4. /\ job'["set"] = Idle <=> job["set"] = Idle
      /\ job'["set"].val = job["set"].val /\ job'["set"].item = job["set"].item
  <2> DEFINE j == [job[m] EXCEPT !.phase = ph, !.res = r]
  <2>1. job' = [job EXCEPT ![m] = j]
    BY Zenon, <1>1, <1>2 DEF TypeOK
  <2>2. j.item = job[m].item /\ j.val = job[m].val /\ job[m].item \in Items
    BY Zenon, <1>1 DEF PendingJobs
  <2>3. j # Idle
    BY Zenon, <1>1, <2>2, NullFacts, JobFacts
  <2> HIDE DEF j
  <2> QED BY Zenon, <1>1, <2>1, <2>2, <2>3 DEF TypeOK
<1> QED BY Zenon, <1>3, <1>4 DEF OneWriteServesAll

\* A command waits for the database, or has its key queued.
LEMMA ValueEnqueue ==
  ASSUME IInv, OneWriteServesAll, NEW cmd \in workload.commands, Enqueue(cmd)
  PROVE  OneWriteServesAll'
<1> DEFINE p == Item(cmd)
<1>0. TypeOK /\ JobHasCandidate /\ p \in Items /\ "set" \in Modes
  BY Zenon, WorkloadFacts, NullFacts DEF IInv
<1>1. PICK m \in Modes, e \in Entries : Enqueued(cmd, m, e)
  BY Zenon, EnqueueFacts
<1>2. /\ m = NeededMode(cmd)
      /\ \A n \in Modes, q \in Items :
           cands'[n][q] = IF n = m /\ q = p THEN e ELSE cands[n][q]
      /\ m = "set" => e.val = cmd.val
      /\ cands[m][p] # NULL => e.val = cands[m][p].val
      /\ Range(e.clients) = (IF cands[m][p] = NULL THEN {} ELSE Range(cands[m][p].clients))
                              \union (IF m \in config.sync THEN {cur} ELSE {})
      /\ \/ job[m] # Idle /\ job' = job
         \/ /\ job[m] = Idle /\ hmode # m
            /\ \E j \in PendingJobs :
                 /\ job' = [job EXCEPT ![m] = j]
                 /\ cands'[m][j.item] # NULL /\ j.val = cands'[m][j.item].val
  BY ZenonT(60), <1>1 DEF Enqueued
<1>3. /\ cur # NULL /\ UNCHANGED <<connected, hmode, todo>>
      /\ m \in config.sync => argv' = [argv EXCEPT ![cur] = cmd]
      /\ m \notin config.sync => argv' = argv
  BY Zenon, <1>2 DEF Enqueue
<1>4. /\ cur \in Clients /\ cur \notin Range(todo)
      /\ \A n \in Modes, q \in Items :
           cands[n][q] # NULL => cur \notin Range(cands[n][q].clients)
  BY Zenon, <1>3, CurUnregistered
<1>5. /\ \A d \in Clients : d # cur => argv'[d] = argv[d]
      /\ m \in config.sync => argv'[cur] = cmd
  BY Zenon, <1>0, <1>3, <1>4 DEF TypeOK
<1> HIDE DEF p
<1>6. ASSUME NEW q \in Items, cands["set"][q] # NULL, NEW d \in Range(cands["set"][q].clients)
      PROVE  argv'[d].val = cands["set"][q].val
  <2>1. d # cur /\ d \in Clients
    BY Zenon, <1>0, <1>4, <1>6, EntryFacts
  <2> QED BY Zenon, <1>5, <1>6, <2>1 DEF OneWriteServesAll
<1>7. ASSUME NEW q \in Items, cands'["set"][q] # NULL, NEW d \in Range(cands'["set"][q].clients)
      PROVE  argv'[d].val = cands'["set"][q].val
  <2>1. CASE ~(m = "set" /\ q = p)
    <3>1. cands'["set"][q] = cands["set"][q]
      BY Zenon, <1>0, <1>2, <2>1
    <3> QED BY Zenon, <1>6, <1>7, <3>1
  <2>2. CASE m = "set" /\ q = p
    <3>1. cands'["set"][q] = e /\ d \in Range(e.clients) /\ e.val = cmd.val
      BY Zenon, <1>0, <1>2, <1>7, <2>2
    <3>2. CASE cands["set"][p] # NULL /\ d \in Range(cands["set"][p].clients)
      BY Zenon, <1>0, <1>2, <1>6, <2>2, <3>1, <3>2
    <3>3. CASE d = cur /\ m \in config.sync
      BY Zenon, <1>5, <3>1, <3>3
    <3> QED BY Zenon, <1>2, <2>2, <3>1, <3>2, <3>3
  <2> QED BY Zenon, <2>1, <2>2
<1>8. ASSUME job'["set"] # Idle, hmode # "set"
      PROVE  job'["set"].val = cands'["set"][job'["set"].item].val
  <2>1. CASE job'["set"] = job["set"]
    <3>1. job["set"].item \in Items /\ cands["set"][job["set"].item] # NULL
      BY Zenon, <1>0, <1>8, <2>1, JobFacts DEF PendingJobs, JobHasCandidate
    <3>2. cands'["set"][job["set"].item].val = cands["set"][job["set"].item].val
      BY Zenon, <1>0, <1>2, <3>1
    <3> QED BY Zenon, <1>8, <2>1, <3>2 DEF OneWriteServesAll
  <2>2. CASE job'["set"] # job["set"]
    <3>1. PICK j \in PendingJobs :
              /\ job' = [job EXCEPT ![m] = j]
              /\ cands'[m][j.item] # NULL /\ j.val = cands'[m][j.item].val
      BY Zenon, <1>2, <2>2
    <3>2. m = "set" /\ job'["set"] = j
      BY Zenon, <1>0, <2>2, <3>1 DEF TypeOK
    <3> QED BY Zenon, <3>1, <3>2
  <2> QED BY Zenon, <2>1, <2>2
<1>9. ASSUME hmode = "set", NEW d \in Range(todo), d \in connected
      PROVE  argv'[d].val = job'["set"].val
  <2>1. d \in Clients /\ d # cur /\ argv[d].val = job["set"].val
    BY Zenon, <1>0, <1>4, <1>9, RangeType DEF TypeOK, OneWriteServesAll
  <2>2. job'["set"] = job["set"]
    <3>1. CASE m = "set"
      BY Zenon, <1>2, <1>9, <3>1
    <3>2. CASE m # "set"
      BY Zenon, <1>0, <1>2, <3>2 DEF TypeOK
    <3> QED BY Zenon, <3>1, <3>2
  <2> QED BY Zenon, <1>5, <2>1, <2>2
<1> QED BY Zenon, <1>3, <1>7, <1>8, <1>9 DEF OneWriteServesAll

\* Every step keeps the agreement.
LEMMA ValueStep ==
  ASSUME IInv, OneWriteServesAll, Running(ServerStep)
  PROVE  OneWriteServesAll'
<1>1. ASSUME NEW c \in Clients, ReadQuery(c) \/ Disconnect(c) \/ Connect(c)
      PROVE  OneWriteServesAll'
  <2>1. CASE ReadQuery(c)
    BY Zenon, <2>1, ValueFrame DEF ReadQuery, clientVars
  <2>2. CASE Disconnect(c)
    BY Zenon, <2>2, ValueFree DEF Disconnect, mainVars
  <2>3. CASE Connect(c)
    BY Zenon, <2>3, ValueConnect
  <2> QED BY Zenon, <1>1, <2>1, <2>2, <2>3
<1>2. CASE EndInput \/ ResumeFreed
  <2>1. UNCHANGED <<cands, job, connected, argv, hmode, todo>>
    BY Zenon, <1>2 DEF EndInput, ResumeFreed, clientVars, mainVars
  <2> QED BY Zenon, <2>1, ValueFrame
<1>3. CASE Resume \/ Finish
  BY Zenon, <1>3, ValueResume, ValueFinish
<1>4. ASSUME NEW cmd \in workload.commands,
             Enqueue(cmd) \/ RunDirectly(cmd) \/ CheckFails(cmd) \/ Kill(cmd)
      PROVE  OneWriteServesAll'
  <2>1. CASE Enqueue(cmd)
    BY Zenon, <2>1, ValueEnqueue
  <2>2. CASE RunDirectly(cmd) \/ CheckFails(cmd)
    <3>1. UNCHANGED <<cands, job, connected, argv, hmode, todo>>
      BY Zenon, <2>2 DEF RunDirectly, CheckFails, clientVars, mainVars
    <3> QED BY Zenon, <3>1, ValueFrame
  <2>3. CASE Kill(cmd)
    <3>1. /\ cmd.victim \in Clients /\ FreeClient(cmd.victim)
          /\ UNCHANGED <<job, hmode, todo>>
      BY Zenon, <2>3 DEF Kill, mainVars, IInv, TypeOK
    <3> QED BY Zenon, <3>1, ValueFree
  <2> QED BY Zenon, <1>4, <2>1, <2>2, <2>3
<1>5. ASSUME NEW cfg \in workload.configs, ConfigSet(cfg)
      PROVE  OneWriteServesAll'
  <2>1. UNCHANGED <<cands, job, connected, argv, hmode, todo>>
    BY Zenon, <1>5 DEF ConfigSet, clientVars, mainVars
  <2> QED BY Zenon, <2>1, ValueFrame
<1>6. ASSUME NEW m \in Modes, Handle(m) \/ WorkerStep(m)
      PROVE  OneWriteServesAll'
  BY Zenon, <1>6, ValueHandle, ValueWorker
<1>7. ASSUME NEW p \in Items, TtlElapses(p)
      PROVE  OneWriteServesAll'
  <2>1. UNCHANGED <<cands, job, connected, argv, hmode, todo>>
    BY Zenon, <1>7 DEF TtlElapses, clientVars, mainVars
  <2> QED BY Zenon, <2>1, ValueFrame
<1> QED BY Zenon, <1>1, <1>2, <1>3, <1>4, <1>5, <1>6, <1>7 DEF Running, ServerStep

\* One write serves all who wait for it: an entry of set, its job, and the commands of
\* those in its list or being resumed have one value, for set, setex and setnx alike.
THEOREM OneWriteServesAllHolds == Spec => []OneWriteServesAll
<1>1. Init => OneWriteServesAll
  <2> SUFFICES ASSUME Init PROVE OneWriteServesAll
    BY Zenon
  <2>1. \A m \in Modes : job[m] = Idle /\ \A p \in Items : cands[m][p] = NULL
    BY Zenon DEF Init
  <2>2. hmode = NULL /\ Range(todo) = {}
    BY Zenon, EmptyList DEF Init
  <2> QED BY Zenon, <2>1, <2>2, NullFacts DEF OneWriteServesAll
<1>2. IInv /\ OneWriteServesAll /\ [Next]_vars => OneWriteServesAll'
  <2>1. CASE UNCHANGED vars
    BY Zenon, <2>1, ValueFrame DEF vars, clientVars, mainVars
  <2>2. CASE Running(ServerStep)
    BY Zenon, <2>2, ValueStep
  <2> QED BY Zenon, <2>1, <2>2 DEF Next, Stopped
<1> QED BY <1>1, <1>2, Invariant, PTL DEF Spec

-----------------------------------------------------------------------------
(* Sets alone: what has been written is in the database. *)

\* The steps that touch neither jobs nor rows.
LEMMA SetFrame ==
  ASSUME SetInv, UNCHANGED <<workload, database, job, hmode>>
  PROVE  SetInv'
BY Zenon DEF SetInv, Only

\* What SetInv and the agreement say when there are sets only, with the types they need.
LEMMA SetFacts ==
  ASSUME IInv, OneWriteServesAll, SetInv, Only({"set"})
  PROVE  /\ job["get"] = Idle /\ job["del"] = Idle /\ hmode \in {NULL, "set"}
         /\ hmode = NULL /\ job["set"] # Idle => job["set"].val = cands["set"][job["set"].item].val
         /\ \A c \in Range(todo) : c \in connected => argv[c].val = job["set"].val
         /\ job["set"].phase \in {"called", "returned"} /\ job["set"].res # NULL =>
              database[job["set"].item[2]] = job["set"].val
         /\ \A cmd \in workload.commands : cmd.name = "set"
         /\ \A m \in Modes : job[m] # Idle => m = "set"
         /\ TypeOK /\ "set" \in Modes /\ Idle.phase = "idle"
<1>1. TypeOK /\ "set" \in Modes /\ Idle.phase = "idle" /\ NULL # "set"
  BY Zenon, NullFacts, JobFacts DEF IInv
<1>2. hmode = NULL => Range(todo) = {}
  BY Zenon, EmptyList DEF IInv, MainInv
<1> QED BY Zenon, <1>1, <1>2 DEF SetInv, OneWriteServesAll, Only, Modes

\* A handler takes the answer of a set.
LEMMA SetHandle ==
  ASSUME IInv, OneWriteServesAll, SetInv, Only({"set"}), UNCHANGED workload,
         NEW m \in Modes, Handle(m)
  PROVE  SetInv'
<1>1. TypeOK /\ job[m] # Idle
  BY Zenon, JobFacts DEF IInv, Handle
<1>2. m = "set"
  BY Zenon, <1>1, SetFacts
<1>3. hmode' = "set" /\ UNCHANGED <<database, job>>
  BY Zenon, <1>2 DEF Handle
<1> QED BY Zenon, <1>3, SetFacts DEF SetInv

\* A handler ends, and posts the next set that waits.
LEMMA SetFinish ==
  ASSUME IInv, OneWriteServesAll, SetInv, Only({"set"}), UNCHANGED workload, Finish
  PROVE  SetInv'
<1>1. TypeOK /\ hmode = "set" /\ "set" \in Modes
  BY Zenon, SetFacts DEF Finish
<1>2. cands["set"] \in [Items -> Entries \union {NULL}]
  BY Zenon, <1>1 DEF TypeOK
<1>3. PICK j \in NewJobs(cands["set"]) : job' = [job EXCEPT !["set"] = j]
  BY Zenon, <1>1 DEF Finish, Refill
<1>4. j.phase \in {"idle", "posted"}
  BY Zenon, <1>2, NewJobFacts, SetFacts
<1>5. /\ job'["set"] = j /\ job'["get"] = Idle /\ job'["del"] = Idle
  BY <1>1, <1>3, SetFacts DEF TypeOK
<1>6. hmode' = NULL /\ UNCHANGED database
  BY Zenon DEF Finish
<1> QED BY Zenon, <1>4, <1>5, <1>6, SetFacts DEF SetInv

\* The database answers.
LEMMA SetReturn ==
  ASSUME IInv, OneWriteServesAll, SetInv, Only({"set"}), UNCHANGED workload,
         NEW m \in Modes, Return(m)
  PROVE  SetInv'
<1>1. TypeOK /\ job[m].phase = "called" /\ job[m] # Idle /\ job[m] \in PendingJobs
  BY Zenon, JobFacts DEF IInv, Return
<1>2. m = "set"
  BY Zenon, <1>1, SetFacts
<1> DEFINE j == [job[m] EXCEPT !.phase = "returned"]
<1>3. /\ job' = [job EXCEPT ![m] = j]
      /\ UNCHANGED <<database, hmode>>
  BY Zenon DEF Return, mainVars
<1>4. j.item = job[m].item /\ j.val = job[m].val /\ j.res = job[m].res
  BY Zenon, <1>1 DEF PendingJobs
<1> HIDE DEF j
<1>5. job'["set"] = j /\ job'["get"] = job["get"] /\ job'["del"] = job["del"]
  BY Zenon, <1>1, <1>2, <1>3 DEF TypeOK, Modes
<1> QED BY <1>1, <1>2, <1>3, <1>4, <1>5, SetFacts DEF SetInv

\* The database stores the value, or fails.
LEMMA SetDbCall ==
  ASSUME IInv, OneWriteServesAll, SetInv, Only({"set"}), UNCHANGED workload,
         NEW m \in Modes, DbCall(m)
  PROVE  SetInv'
<1>1. TypeOK /\ job[m].phase = "posted" /\ job[m] # Idle /\ job[m] \in PendingJobs
  BY Zenon, JobFacts DEF IInv, DbCall
<1>2. m = "set" /\ job[m].item[2] \in Keys
  BY Zenon, <1>1, ItemFacts, SetFacts DEF PendingJobs
<1>3. PICK r : /\ job' = [job EXCEPT ![m].phase = "called", ![m].res = r]
               /\ r # NULL => database' = [database EXCEPT ![job[m].item[2]] = job[m].val]
  BY Zenon, <1>2 DEF DbCall, Done, Effect
<1> DEFINE j == [job[m] EXCEPT !.phase = "called", !.res = r]
<1>4. /\ job' = [job EXCEPT ![m] = j]
      /\ UNCHANGED hmode
  BY Zenon, <1>1, <1>3 DEF DbCall, mainVars, TypeOK
<1>5. j.item = job[m].item /\ j.val = job[m].val /\ j.res = r
  BY Zenon, <1>1 DEF PendingJobs
<1> HIDE DEF j
<1>6. job'["set"] = j /\ job'["get"] = job["get"] /\ job'["del"] = job["del"]
  BY Zenon, <1>1, <1>2, <1>4 DEF TypeOK, Modes
<1>7. j.res # NULL => database'[j.item[2]] = j.val
  BY ZenonT(60), <1>1, <1>2, <1>3, <1>5 DEF TypeOK
<1> QED BY ZenonT(60), <1>1, <1>2, <1>4, <1>5, <1>6, <1>7, SetFacts DEF SetInv

\* A set waits for the database.
LEMMA SetEnqueue ==
  ASSUME IInv, OneWriteServesAll, SetInv, Only({"set"}), UNCHANGED workload,
         NEW cmd \in workload.commands, Enqueue(cmd)
  PROVE  SetInv'
<1>1. PICK m \in Modes, e \in Entries : Enqueued(cmd, m, e)
  BY Zenon, EnqueueFacts
<1>2. m = "set"
  BY Zenon, <1>1, ModeFacts, NullFacts, SetFacts DEF Enqueued, ModeNames
<1>3. \/ job' = job
      \/ \E j \in PendingJobs : job' = [job EXCEPT !["set"] = j] /\ j.phase = "posted"
  BY ZenonT(60), <1>1, <1>2 DEF Enqueued
<1>4. UNCHANGED <<database, hmode>>
  BY Zenon DEF Enqueue
<1>5. CASE job' = job
  BY Zenon, <1>4, <1>5, SetFrame
<1>6. ASSUME NEW j \in PendingJobs, job' = [job EXCEPT !["set"] = j], j.phase = "posted"
      PROVE  SetInv'
  <2>1. job'["set"] = j /\ job'["get"] = job["get"] /\ job'["del"] = job["del"]
    BY Zenon, <1>6, SetFacts DEF TypeOK, Modes
  <2> QED BY Zenon, <1>4, <1>6, <2>1, SetFacts DEF SetInv
<1> QED BY Zenon, <1>3, <1>5, <1>6

\* Every step keeps SetInv.
LEMMA SetStep ==
  ASSUME IInv, OneWriteServesAll, SetInv, Running(ServerStep)
  PROVE  SetInv'
<1>0. UNCHANGED workload /\ ServerStep /\ (Only({"set"})' <=> Only({"set"}))
  BY Zenon DEF Running, Only
<1>1. CASE ~Only({"set"})
  BY Zenon, <1>0, <1>1 DEF SetInv
<1>2. CASE Only({"set"})
  <2>1. ASSUME NEW c \in Clients, ReadQuery(c) \/ Disconnect(c) \/ Connect(c)
        PROVE  UNCHANGED <<database, job, hmode>>
    BY Zenon, <2>1 DEF ReadQuery, Disconnect, Connect, mainVars
  <2>2. CASE EndInput \/ ResumeFreed \/ Resume
    <3>1. UNCHANGED <<database, job, hmode>>
      BY Zenon, <2>2 DEF EndInput, ResumeFreed, Resume, mainVars
    <3> QED BY Zenon, <1>0, <3>1, SetFrame
  <2>3. CASE Finish
    BY Zenon, <1>0, <1>2, <2>3, SetFinish
  <2>4. ASSUME NEW cmd \in workload.commands,
               Enqueue(cmd) \/ RunDirectly(cmd) \/ CheckFails(cmd) \/ Kill(cmd)
        PROVE  SetInv'
    <3>1. CASE Enqueue(cmd)
      BY Zenon, <1>0, <1>2, <3>1, SetEnqueue
    <3>2. CASE RunDirectly(cmd) \/ CheckFails(cmd) \/ Kill(cmd)
      <4>1. UNCHANGED <<database, job, hmode>>
        BY Zenon, <3>2 DEF RunDirectly, CheckFails, Kill, mainVars
      <4> QED BY Zenon, <1>0, <4>1, SetFrame
    <3> QED BY Zenon, <2>4, <3>1, <3>2
  <2>5. ASSUME NEW cfg \in workload.configs, ConfigSet(cfg)
        PROVE  UNCHANGED <<database, job, hmode>>
    BY Zenon, <2>5 DEF ConfigSet, mainVars
  <2>6. ASSUME NEW m \in Modes, Handle(m) \/ WorkerStep(m)
        PROVE  SetInv'
    BY Zenon, <1>0, <1>2, <2>6, SetHandle, SetDbCall, SetReturn DEF WorkerStep
  <2>7. ASSUME NEW p \in Items, TtlElapses(p)
        PROVE  UNCHANGED <<database, job, hmode>>
    BY Zenon, <2>7 DEF TtlElapses, mainVars
  <2>8. ASSUME UNCHANGED <<database, job, hmode>>
        PROVE  SetInv'
    BY Zenon, <1>0, <2>8, SetFrame
  <2> QED BY Zenon, <1>0, <2>1, <2>2, <2>3, <2>4, <2>5, <2>6, <2>7, <2>8 DEF ServerStep
<1> QED BY Zenon, <1>1, <1>2

\* SetInv holds in every reachable state.
THEOREM SetInvariant == Spec => []SetInv
<1>1. Init => SetInv
  <2> SUFFICES ASSUME Init PROVE SetInv
    BY Zenon
  <2>1. \A m \in Modes : job[m] = Idle /\ \A p \in Items : cands[m][p] = NULL
    BY Zenon DEF Init
  <2>2. hmode = NULL /\ Range(todo) = {} /\ Idle.phase = "idle"
    BY Zenon, EmptyList DEF Init, Idle
  <2> QED BY Zenon, <2>1, <2>2, NullFacts DEF SetInv
<1>2. IInv /\ OneWriteServesAll /\ SetInv /\ [Next]_vars => SetInv'
  <2>1. CASE UNCHANGED vars
    BY Zenon, <2>1, SetFrame DEF vars, clientVars, mainVars
  <2>2. CASE Running(ServerStep)
    BY Zenon, <2>2, SetStep
  <2> QED BY Zenon, <2>1, <2>2 DEF Next, Stopped
<1> QED BY <1>1, <1>2, Invariant, OneWriteServesAllHolds, PTL DEF Spec

\* What a set does to the keyspace.
Touched(new, old, p, v) ==
  /\ \A q \in Items : q # p => new[q] = old[q]
  /\ new[p] \in {old[p], NULL} \/ (new[p] # NULL /\ new[p].val = v)

\* setCommand changes its own key, and leaves its value there when it says OK.
LEMMA SetTouches ==
  ASSUME NEW cmd \in CommandShape, cmd.name = "set", cmd.val \in Texts,
         NEW ch \in CacheMaps, NEW set, NEW del
  PROVE  /\ Touched(Exec(cmd, ch, set, del).cache, ch, Item(cmd), cmd.val)
         /\ Exec(cmd, ch, set, del).reply = <<"ok">> =>
              /\ Exec(cmd, ch, set, del).cache[Item(cmd)] # NULL
              /\ Exec(cmd, ch, set, del).cache[Item(cmd)].val = cmd.val
<1> DEFINE p == Item(cmd)
           enc == IF cmd.val \in IntTexts THEN "int" ELSE "str"
           sk == SetKey(ch, p, cmd.val, enc, "keepttl" \in cmd.opts, cmd.exp # NULL)
           o == ExecSet(cmd, ch, set, del)
<1>1. p \in Items
  BY Zenon, ItemFacts
<1>2. Exec(cmd, ch, set, del) = o
  BY Zenon DEF Exec, SetCommands
<1>3. PICK e \in CacheEntries : sk = [ch EXCEPT ![p] = e] /\ e.val = cmd.val
  <2> DEFINE ttl == IF cmd.exp # NULL THEN "live"
                    ELSE IF "keepttl" \in cmd.opts /\ Live(ch, p) THEN ch[p].ttl ELSE "none"
             f == [val |-> cmd.val, enc |-> enc, ttl |-> ttl]
  <2>1. ttl \in {"none", "live", "due"}
    BY Zenon, <1>1 DEF Live, CacheMaps, CacheEntries
  <2>2. sk = [ch EXCEPT ![p] = f]
    BY Zenon DEF SetKey
  <2>3. f \in CacheEntries /\ f.val = cmd.val
    <3> HIDE DEF ttl
    <3> QED BY Zenon, <2>1 DEF CacheEntries
  <2> HIDE DEF f, sk
  <2> QED BY Zenon, <2>2, <2>3
<1>4. \/ o.cache \in {ch, Expire(ch, p)} /\ o.reply # <<"ok">>
      \/ o.cache = sk
  BY Zenon DEF ExecSet, Outcome
<1> HIDE DEF sk, o, p
<1>5. Touched(sk, ch, p, cmd.val) /\ sk[p] # NULL /\ sk[p].val = cmd.val
  BY Zenon, <1>1, <1>3, NullFacts DEF Touched, CacheMaps
<1>6. Touched(ch, ch, p, cmd.val) /\ Touched(Expire(ch, p), ch, p, cmd.val)
  BY Zenon, <1>1 DEF Touched, Expire, CacheMaps
<1> QED BY Zenon, <1>2, <1>4, <1>5, <1>6 DEF p

\* The one who is resumed with OK finds its value in both places.
LEMMA ResumedIsStored ==
  ASSUME IInv, OneWriteServesAll, SetInv, Resume, UNCHANGED workload
  PROVE  AckedSetIsStored'
<1> SUFFICES ASSUME Only({"set"}), out'.via = "done", out'.reply = <<"ok">>
             PROVE  /\ database'[out'.cmd.key] = out'.cmd.val
                    /\ cache'[Item(out'.cmd)].val = out'.cmd.val
  BY Zenon DEF AckedSetIsStored, Only, Item
<1> DEFINE c == Head(todo)
           failed == job[hmode].res = NULL
           set == setReply[c] \/ (hmode = "set" /\ failed)
           del == FailedDel(c, failed)
           o == Exec(argv[c], cache, set, del)
<1>1. /\ hmode \in Modes /\ c \in Clients /\ c \in connected /\ c \in Range(todo)
      /\ argv[c] \in workload.commands /\ Item(argv[c]) = job[hmode].item
      /\ job[hmode].phase = "returned"
      /\ cache' = o.cache
      /\ out' = [cmd |-> argv[c], via |-> IF failed THEN "failed" ELSE "done",
                 reply |-> o.reply]
  BY Zenon, ResumeFacts
<1>2. hmode = "set" /\ ~failed /\ argv[c].name = "set" /\ o.reply = <<"ok">>
  BY Zenon, <1>1, SetFacts, NullFacts
<1>3. database[job["set"].item[2]] = job["set"].val /\ argv[c].val = job["set"].val
  BY Zenon, <1>1, <1>2, SetFacts
<1>4. Item(argv[c])[2] = argv[c].key
  BY Zenon DEF Item
<1>5. database' = database
  BY Zenon DEF Resume
<1>6. argv[c] \in CommandShape /\ argv[c].val \in Texts /\ cache \in CacheMaps
  BY Zenon, <1>1, <1>2, WorkloadFacts DEF IInv, TypeOK, CacheMaps, SetCommands
<1> HIDE DEF c, failed, set, del
<1>7. o.cache[Item(argv[c])].val = argv[c].val
  BY <1>2, <1>6, SetTouches
<1> QED BY Zenon, <1>1, <1>2, <1>3, <1>4, <1>5, <1>7

\* While there are sets only, one that waited and is answered OK is in the database and in
\* the cache at that moment.
THEOREM AckedSetIsStoredHolds == Spec => []AckedSetIsStored
<1>1. Init => AckedSetIsStored
  <2> SUFFICES ASSUME Init PROVE AckedSetIsStored
    BY Zenon
  <2>1. out = NoOut /\ NoOut.via = NULL
    BY Zenon DEF Init, NoOut
  <2> QED BY Zenon, <2>1, NullFacts DEF AckedSetIsStored
<1>2. IInv /\ OneWriteServesAll /\ SetInv /\ AckedSetIsStored /\ [Next]_vars => AckedSetIsStored'
  <2>1. CASE UNCHANGED vars
    BY Zenon, <2>1 DEF vars, AckedSetIsStored, Only, Item
  <2>2. CASE Running(ServerStep) /\ Resume
    BY Zenon, <2>2, ResumedIsStored DEF Running
  <2>3. CASE Running(ServerStep) /\ ~Resume
    BY Zenon, <2>3, OutStep, NullFacts DEF AckedSetIsStored
  <2> QED BY Zenon, <2>1, <2>2, <2>3 DEF Next, Stopped
<1> QED BY <1>1, <1>2, Invariant, OneWriteServesAllHolds, SetInvariant, PTL DEF Spec

-----------------------------------------------------------------------------
(* Sets alone, in one database that works: the cache and the rows. *)

\* The configurations in which the cache and the rows must agree.
SetsOnly == Only({"set"}) /\ DatabaseWorks /\ OneDatabase

\* What AgreeInv says then, and what the configuration is.
LEMMA AgreeFacts ==
  ASSUME IInv, AgreeInv, SetsOnly
  PROVE  /\ job["set"].phase \in {"called", "returned"} => job["set"].res # NULL
         /\ \A p \in Items : cache[p] # NULL \/ cands["set"][p] # NULL =>
              \E cmd \in workload.commands : p = Item(cmd)
         /\ \A p \in Items :
              Live(cache, p) /\ cands["set"][p] = NULL => cache[p].val = database[p[2]]
         /\ TypeOK /\ config.db = "sql" /\ config.stmts = Modes /\ "set" \in Modes
         /\ workload.failures = {}
<1>1. TypeOK /\ config \in workload.configs
  BY Zenon DEF IInv, TypeOK
<1> QED BY Zenon, <1>1, NullFacts DEF AgreeInv, SetsOnly, DatabaseWorks

\* A step that changes one key of the cache at most.
LEMMA AgreeTouch ==
  ASSUME IInv, AgreeInv, SetsOnly, UNCHANGED <<workload, database>>,
         NEW p \in Items, NEW v, Touched(cache', cache, p, v),
         \E cmd \in workload.commands : p = Item(cmd),
         \A q \in Items : q # p => (cands'["set"][q] = NULL <=> cands["set"][q] = NULL),
         cands'["set"][p] = NULL /\ Live(cache', p) => cache'[p].val = database[p[2]],
         job'["set"].phase \in {"called", "returned"} => job'["set"].res # NULL
  PROVE  AgreeInv'
<1>1. ASSUME NEW q \in Items, cache'[q] # NULL \/ cands'["set"][q] # NULL
      PROVE  \E cmd \in workload.commands : q = Item(cmd)
  <2>1. CASE q = p
    BY Zenon, <2>1
  <2>2. CASE q # p
    <3>1. cache'[q] = cache[q] /\ (cands'["set"][q] = NULL <=> cands["set"][q] = NULL)
      BY Zenon, <2>2 DEF Touched
    <3> QED BY Zenon, <1>1, <3>1, AgreeFacts
  <2> QED BY Zenon, <2>1, <2>2
<1>2. ASSUME NEW q \in Items, Live(cache', q), cands'["set"][q] = NULL
      PROVE  cache'[q].val = database'[q[2]]
  <2>1. CASE q = p
    BY Zenon, <1>2, <2>1
  <2>2. CASE q # p
    <3>1. cache'[q] = cache[q] /\ (cands'["set"][q] = NULL <=> cands["set"][q] = NULL)
      BY Zenon, <2>2 DEF Touched
    <3>2. Live(cache, q)
      BY Zenon, <1>2, <3>1 DEF Live
    <3> QED BY Zenon, <1>2, <3>1, <3>2, AgreeFacts
  <2> QED BY Zenon, <2>1, <2>2
<1>3. \A q \in Items : cache'[q] # NULL \/ cands'["set"][q] # NULL =>
        \E cmd \in workload'.commands : q = Item(cmd)
  BY Zenon, <1>1
<1> QED BY Zenon, <1>2, <1>3 DEF AgreeInv, Live, Item

\* A step that changes no key of the cache and no row.
LEMMA AgreeFrame ==
  ASSUME IInv, AgreeInv, SetsOnly, UNCHANGED <<workload, database, cache>>,
         \A q \in Items : cands'["set"][q] = NULL <=> cands["set"][q] = NULL,
         job'["set"].phase \in {"called", "returned"} => job'["set"].res # NULL
  PROVE  AgreeInv'
<1>1. \A q \in Items : cache'[q] # NULL \/ cands'["set"][q] # NULL =>
        \E cmd \in workload'.commands : q = Item(cmd)
  BY Zenon, AgreeFacts
<1>2. ASSUME NEW q \in Items, Live(cache', q), cands'["set"][q] = NULL
      PROVE  cache'[q].val = database'[q[2]]
  BY Zenon, <1>2, AgreeFacts DEF Live
<1> QED BY Zenon, <1>1, <1>2 DEF AgreeInv, Live, Item

\* A client is freed.
LEMMA AgreeFree ==
  ASSUME IInv, AgreeInv, SetsOnly, NEW c \in Clients, FreeClient(c),
         UNCHANGED <<workload, database, cache, job>>
  PROVE  AgreeInv'
<1>1. TypeOK /\ "set" \in Modes /\ cands' = WithoutClient(c)
  BY Zenon, AgreeFacts DEF FreeClient
<1>2. \A q \in Items : cands'["set"][q] = NULL <=> cands["set"][q] = NULL
  BY <1>1, WithoutClientEntry
<1> QED BY Zenon, <1>2, AgreeFacts, AgreeFrame

\* A key expires.
LEMMA AgreeTtl ==
  ASSUME IInv, AgreeInv, SetsOnly, UNCHANGED workload, NEW p \in Items, TtlElapses(p)
  PROVE  AgreeInv'
<1>1. /\ cache[p] # NULL /\ UNCHANGED <<database, cands, job>>
      /\ cache' = [cache EXCEPT ![p].ttl = "due"]
  BY Zenon DEF TtlElapses
<1>2. cache \in CacheMaps /\ cache[p] \in CacheEntries
  BY Zenon, <1>1 DEF IInv, TypeOK, CacheMaps
<1> DEFINE e == [cache[p] EXCEPT !.ttl = "due"]
<1>3. /\ e \in CacheEntries /\ e.val = cache[p].val /\ e.ttl = "due"
      /\ cache' = [cache EXCEPT ![p] = e]
  BY Zenon, <1>1, <1>2 DEF CacheEntries
<1> HIDE DEF e
<1>4. cache'[p] = e /\ e # NULL /\ \A q \in Items : q # p => cache'[q] = cache[q]
  BY Zenon, <1>2, <1>3, NullFacts DEF CacheMaps
<1>5. Touched(cache', cache, p, cache[p].val)
  BY Zenon, <1>3, <1>4 DEF Touched
<1>6. ~Live(cache', p)
  BY Zenon, <1>3, <1>4 DEF Live
<1>7. \E cmd \in workload.commands : p = Item(cmd)
  BY Zenon, <1>1, AgreeFacts
<1> QED BY Zenon, <1>1, <1>5, <1>6, <1>7, AgreeFacts, AgreeTouch

\* A handler takes the answer of a set.
LEMMA AgreeHandle ==
  ASSUME IInv, OneWriteServesAll, SetInv, AgreeInv, SetsOnly, UNCHANGED workload,
         NEW m \in Modes, Handle(m)
  PROVE  AgreeInv'
<1> DEFINE p == job[m].item
<1>0. Only({"set"}) /\ TypeOK
  BY Zenon, AgreeFacts DEF SetsOnly
<1>1. job[m] # Idle /\ job[m] \in PendingJobs /\ job[m].phase = "returned" /\ hmode = NULL
  BY Zenon, <1>0, JobFacts DEF Handle
<1>2. m = "set" /\ p \in Items /\ job[m].res # NULL /\ cands["set"][p] # NULL
  BY Zenon, <1>0, <1>1, SetFacts, AgreeFacts, NullFacts DEF PendingJobs, IInv, JobHasCandidate
<1>3. database[p[2]] = job[m].val /\ job[m].val \in Texts /\ job[m].ttl \in BOOLEAN
  BY Zenon, <1>0, <1>1, <1>2, SetFacts DEF TypeOK, PendingJobs
<1>4. /\ cache' = Stored(m, job[m]) /\ cands' = [cands EXCEPT ![m][p] = NULL]
      /\ UNCHANGED <<database, job>>
  BY Zenon DEF Handle
<1>5. PICK e \in CacheEntries : cache' = [cache EXCEPT ![p] = e] /\ e.val = job[m].val
  <2> DEFINE ttl == IF job[m].ttl THEN "live"
                    ELSE IF TRUE /\ Live(cache, p) THEN cache[p].ttl ELSE "none"
             f == [val |-> job[m].val, enc |-> "str", ttl |-> ttl]
  <2>1. cache' = SetKey(cache, p, job[m].val, "str", TRUE, job[m].ttl)
    BY Zenon, <1>2, <1>4 DEF Stored
  <2>2. ttl \in {"none", "live", "due"}
    BY Zenon, <1>0, <1>2 DEF Live, TypeOK, CacheEntries
  <2>3. cache' = [cache EXCEPT ![p] = f]
    BY Zenon, <2>1 DEF SetKey
  <2>4. f \in CacheEntries /\ f.val = job[m].val
    <3> HIDE DEF ttl
    <3> QED BY Zenon, <1>3, <2>2 DEF CacheEntries
  <2> HIDE DEF f
  <2> QED BY Zenon, <2>3, <2>4
<1> HIDE DEF p
<1>6. cache'[p] = e /\ e # NULL /\ \A q \in Items : q # p => cache'[q] = cache[q]
  BY Zenon, <1>0, <1>2, <1>5, NullFacts DEF TypeOK
<1>7. Touched(cache', cache, p, job[m].val) /\ cache'[p].val = database[p[2]]
  BY Zenon, <1>3, <1>5, <1>6 DEF Touched
<1>8. \A q \in Items : q # p => cands'["set"][q] = cands["set"][q]
  <2>1. NULL \in Entries \union {NULL}
    BY Zenon
  <2>2. \A n \in Modes, q \in Items :
           cands'[n][q] = IF n = m /\ q = p THEN NULL ELSE cands[n][q]
    BY SMTT(30), <1>0, <1>2, <1>4, <2>1, EntryUpdate
  <2> QED BY Zenon, <1>2, <2>2
<1>9. \E cmd \in workload.commands : p = Item(cmd)
  BY Zenon, <1>2, AgreeFacts
<1> QED BY ZenonT(60), <1>2, <1>4, <1>7, <1>8, <1>9, AgreeFacts, AgreeTouch

\* A handler resumes a client, whose set is executed.
LEMMA AgreeResume ==
  ASSUME IInv, OneWriteServesAll, SetInv, AgreeInv, SetsOnly, UNCHANGED workload, Resume
  PROVE  AgreeInv'
<1> DEFINE c == Head(todo)
           failed == job[hmode].res = NULL
           set == setReply[c] \/ (hmode = "set" /\ failed)
           del == FailedDel(c, failed)
           o == Exec(argv[c], cache, set, del)
           p == Item(argv[c])
<1>0. Only({"set"}) /\ TypeOK
  BY Zenon, AgreeFacts DEF SetsOnly
<1>1. /\ hmode \in Modes /\ c \in Clients /\ c \in connected /\ c \in Range(todo)
      /\ argv[c] \in workload.commands /\ p = job[hmode].item
      /\ job[hmode].phase = "returned" /\ cache' = o.cache
  BY Zenon, ResumeFacts
<1>2. hmode = "set" /\ argv[c].name = "set"
  BY Zenon, <1>0, <1>1, SetFacts, NullFacts
<1>3. job["set"].res # NULL /\ database[p[2]] = job["set"].val /\ argv[c].val = job["set"].val
  BY Zenon, <1>0, <1>1, <1>2, SetFacts, AgreeFacts
<1>4. argv[c] \in CommandShape /\ argv[c].val \in Texts /\ cache \in CacheMaps /\ p \in Items
  BY Zenon, <1>0, <1>1, <1>2, WorkloadFacts DEF TypeOK, CacheMaps, SetCommands
<1>5. UNCHANGED <<database, cands, job>>
  BY Zenon DEF Resume
<1> HIDE DEF c, failed, set, del
<1>6. Touched(cache', cache, p, argv[c].val)
  BY Zenon, <1>1, <1>2, <1>4, SetTouches
<1> HIDE DEF o, p
<1>7. cands["set"][p] = NULL /\ Live(cache', p) => cache'[p].val = database[p[2]]
  BY Zenon, <1>3, <1>4, <1>6, AgreeFacts DEF Touched, Live
<1>8. \E cmd \in workload.commands : p = Item(cmd)
  BY Zenon, <1>1 DEF p
<1> QED BY Zenon, <1>4, <1>5, <1>6, <1>7, <1>8, AgreeFacts, AgreeTouch

\* The lookups of checkNeedToBackendState change the key of the command at most.
LEMMA LookedUpTouches ==
  ASSUME TypeOK, NEW cmd \in workload.commands, NEW v
  PROVE  /\ Touched(LookedUp(cmd), cache, Item(cmd), v)
         /\ Live(cache, Item(cmd)) => LookedUp(cmd) = cache
<1>1. Item(cmd) \in Items /\ cache \in CacheMaps
  BY Zenon, WorkloadFacts DEF TypeOK, CacheMaps
<1>2. LookedUp(cmd) \in {cache, Expire(cache, Item(cmd))}
  BY Zenon DEF LookedUp
<1>3. /\ Touched(cache, cache, Item(cmd), v)
      /\ Touched(Expire(cache, Item(cmd)), cache, Item(cmd), v)
  BY Zenon, <1>1 DEF Touched, Expire, CacheMaps
<1>4. Live(cache, Item(cmd)) => Expire(cache, Item(cmd)) = cache
  BY Zenon DEF Expire
<1> QED BY Zenon, <1>2, <1>3, <1>4

\* A set that is executed at once.
LEMMA SetCallTouches ==
  ASSUME TypeOK, NEW cmd \in workload.commands, cmd.name = "set",
         cache' = Exec(cmd, LookedUp(cmd), setReply[cur], delReply[cur]).cache
  PROVE  Touched(cache', cache, Item(cmd), cmd.val)
<1> DEFINE ch == LookedUp(cmd)
           set == setReply[cur]
           del == delReply[cur]
<1>1. cmd \in CommandShape /\ cmd.val \in Texts /\ ch \in CacheMaps
  BY Zenon, WorkloadFacts, LookedUpType DEF SetCommands
<1>2. Touched(ch, cache, Item(cmd), cmd.val)
  BY Zenon, LookedUpTouches
<1> HIDE DEF ch, set, del
<1>3. Touched(Exec(cmd, ch, set, del).cache, ch, Item(cmd), cmd.val)
  BY Zenon, <1>1, SetTouches
<1>4. Touched(cache', ch, Item(cmd), cmd.val)
  BY Zenon, <1>3 DEF ch, set, del
<1> QED BY Zenon, <1>2, <1>4 DEF Touched

\* A command runs without the database.
LEMMA AgreeRun ==
  ASSUME IInv, AgreeInv, SetsOnly, UNCHANGED workload, NEW cmd \in workload.commands,
         RunDirectly(cmd)
  PROVE  AgreeInv'
<1> DEFINE p == Item(cmd)
<1>1. TypeOK /\ cmd.name = "set" /\ p \in Items /\ "set" \in config.stmts
  BY Zenon, AgreeFacts, WorkloadFacts DEF SetsOnly, Only
<1>2. /\ cache' = Exec(cmd, LookedUp(cmd), setReply[cur], delReply[cur]).cache
      /\ UNCHANGED <<database, cands, job>> /\ NeededMode(cmd) = NULL
  BY Zenon DEF RunDirectly, Call
<1>3. Touched(cache', cache, p, cmd.val)
  BY Zenon, <1>1, <1>2, SetCallTouches
<1>4. ASSUME cands["set"][p] = NULL, Live(cache', p)
      PROVE  cache'[p].val = database[p[2]]
  <2>1. ~SameKeyWithDifferentVal(cmd)
    BY Zenon, <1>4 DEF SameKeyWithDifferentVal
  <2>2. ReachesSetChecks(cmd) /\ ~NeedsSet(cmd)
    BY Zenon, <1>1, <1>2, <2>1, NoMode DEF ReachesSetChecks, SetCommands
  <2>3. SameValueInDb(cmd) /\ Argv2(cmd) = cmd.val
    BY Zenon, <1>1, <2>2 DEF NeedsSet, Argv2
  <2>4. Live(cache, p) /\ cache[p].val = cmd.val
    BY Zenon, <2>3 DEF SameValueInDb
  <2>5. cache[p].val = database[p[2]]
    BY Zenon, <1>1, <1>4, <2>4, AgreeFacts
  <2>6. cache'[p] # NULL
    BY Zenon, <1>4 DEF Live
  <2> HIDE DEF p
  <2> QED BY Zenon, <1>3, <2>4, <2>5, <2>6 DEF Touched
<1> HIDE DEF p
<1>5. \E x \in workload.commands : p = Item(x)
  BY Zenon DEF p
<1> QED BY Zenon, <1>1, <1>2, <1>3, <1>4, <1>5, AgreeFacts, AgreeTouch

\* A set waits for the database.
LEMMA AgreeEnqueue ==
  ASSUME IInv, OneWriteServesAll, SetInv, AgreeInv, SetsOnly, UNCHANGED workload,
         NEW cmd \in workload.commands,
         Enqueue(cmd)
  PROVE  AgreeInv'
<1> DEFINE p == Item(cmd)
<1>1. TypeOK /\ cmd.name = "set" /\ p \in Items
  BY Zenon, AgreeFacts, WorkloadFacts DEF SetsOnly, Only
<1>2. PICK m \in Modes, e \in Entries : Enqueued(cmd, m, e)
  BY Zenon, EnqueueFacts
<1>3. m = "set" /\ e # NULL
  BY Zenon, <1>1, <1>2, ModeFacts, NullFacts DEF Enqueued, ModeNames
<1>4. \A q \in Items : cands'["set"][q] = IF q = p THEN e ELSE cands["set"][q]
  BY ZenonT(60), <1>2, <1>3 DEF Enqueued
<1>5. job'["set"].phase \in {"called", "returned"} => job'["set"].res # NULL
  <2>1. \/ job' = job
        \/ \E j \in PendingJobs : job' = [job EXCEPT !["set"] = j] /\ j.phase = "posted"
    BY Zenon, <1>2, <1>3 DEF Enqueued
  <2> QED BY Zenon, <1>1, <1>3, <2>1, AgreeFacts DEF TypeOK
<1>6. Touched(cache', cache, p, cmd.val) /\ UNCHANGED database
  <2>1. \/ cache' = LookedUp(cmd)
        \/ cache' = Exec(cmd, LookedUp(cmd), setReply[cur], delReply[cur]).cache
    BY Zenon DEF Enqueue, Call
  <2>2. UNCHANGED database
    BY Zenon DEF Enqueue
  <2>3. CASE cache' = LookedUp(cmd)
    BY Zenon, <1>1, <2>2, <2>3, LookedUpTouches
  <2>4. CASE cache' = Exec(cmd, LookedUp(cmd), setReply[cur], delReply[cur]).cache
    BY Zenon, <1>1, <2>2, <2>4, SetCallTouches
  <2> QED BY Zenon, <2>1, <2>3, <2>4
<1>7. \E x \in workload.commands : p = Item(x)
  BY Zenon
<1> HIDE DEF p
<1> QED BY Zenon, <1>1, <1>3, <1>4, <1>5, <1>6, <1>7, AgreeTouch

\* A handler ends.
LEMMA AgreeFinish ==
  ASSUME IInv, OneWriteServesAll, SetInv, AgreeInv, SetsOnly, UNCHANGED workload, Finish
  PROVE  AgreeInv'
<1>1. TypeOK /\ hmode = "set" /\ "set" \in Modes /\ Idle.phase = "idle"
  BY Zenon, SetFacts DEF Finish, SetsOnly
<1>2. cands["set"] \in [Items -> Entries \union {NULL}]
  BY Zenon, <1>1 DEF TypeOK
<1>3. PICK j \in NewJobs(cands["set"]) : job' = [job EXCEPT !["set"] = j]
  BY Zenon, <1>1 DEF Finish, Refill
<1>4. j.phase \notin {"called", "returned"}
  BY Zenon, <1>1, <1>2, NewJobFacts
<1>5. job'["set"] = j
  BY Zenon, <1>1, <1>3 DEF TypeOK
<1>6. UNCHANGED <<cache, database, cands>>
  BY Zenon DEF Finish
<1> QED BY Zenon, <1>4, <1>5, <1>6, AgreeFrame

\* The database answers.
LEMMA AgreeReturn ==
  ASSUME IInv, OneWriteServesAll, SetInv, AgreeInv, SetsOnly, UNCHANGED workload,
         NEW m \in Modes, Return(m)
  PROVE  AgreeInv'
<1>1. TypeOK /\ job[m].phase = "called" /\ job[m] # Idle /\ job[m] \in PendingJobs
  BY Zenon, JobFacts DEF IInv, Return
<1>2. m = "set"
  BY Zenon, <1>1, SetFacts DEF SetsOnly
<1> DEFINE j == [job[m] EXCEPT !.phase = "returned"]
<1>3. job' = [job EXCEPT ![m] = j] /\ UNCHANGED <<cache, database, cands>>
  BY Zenon DEF Return
<1>4. j.res = job[m].res
  BY Zenon, <1>1 DEF PendingJobs
<1>5. job'["set"] = j
  BY Zenon, <1>1, <1>2, <1>3 DEF TypeOK
<1>6. job["set"].res # NULL
  BY Zenon, <1>1, <1>2, AgreeFacts
<1> HIDE DEF j
<1> QED BY Zenon, <1>2, <1>3, <1>4, <1>5, <1>6, AgreeFrame

\* The row that changes is that of the one key that is queued under its name.
LEMMA AgreeDbCall ==
  ASSUME IInv, OneWriteServesAll, SetInv, AgreeInv, SetsOnly, UNCHANGED workload,
         NEW m \in Modes, DbCall(m)
  PROVE  AgreeInv'
<1> DEFINE p == job[m].item
<1>1. TypeOK /\ job[m].phase = "posted" /\ job[m] # Idle /\ job[m] \in PendingJobs
  BY Zenon, JobFacts DEF IInv, DbCall
<1>2. m = "set" /\ p \in Items /\ hmode # m
  <2>1. m = "set" /\ p \in Items
    BY Zenon, <1>1, SetFacts DEF SetsOnly, PendingJobs
  <2>2. hmode # m
    BY Zenon, <1>1, NullFacts DEF IInv, MainInv
  <2> QED BY Zenon, <2>1, <2>2
<1>3. cands["set"][p] # NULL
  BY Zenon, <1>1, <1>2 DEF IInv, JobHasCandidate
<1>4. Reachable(m) /\ workload.failures = {}
  BY Zenon, <1>2, AgreeFacts DEF Reachable
<1>5. /\ job' = [job EXCEPT ![m].phase = "called", ![m].res = "done"]
      /\ database' = [database EXCEPT ![p[2]] = job[m].val]
      /\ UNCHANGED <<cache, cands>>
  BY Zenon, <1>2, <1>4 DEF DbCall, Done, Effect
<1>6. job'["set"].res # NULL
  <2>1. job' = [job EXCEPT ![m] = [job[m] EXCEPT !.phase = "called", !.res = "done"]]
    BY Zenon, <1>1, <1>5 DEF TypeOK
  <2>2. job'["set"] = [job[m] EXCEPT !.phase = "called", !.res = "done"]
    BY Zenon, <1>1, <1>2, <2>1 DEF TypeOK
  <2>3. job'["set"].res = "done"
    BY Zenon, <1>1, <2>2 DEF PendingJobs
  <2> QED BY Zenon, <2>3, NullFacts
<1> HIDE DEF p
<1>7. ASSUME NEW q \in Items, Live(cache, q), cands["set"][q] = NULL
      PROVE  cache[q].val = database'[q[2]]
  <2>1. q[2] # p[2]
    <3> SUFFICES ASSUME q[2] = p[2] PROVE FALSE
      BY Zenon
    <3>1. cache[q] # NULL
      BY Zenon, <1>7 DEF Live
    <3>2. PICK x \in workload.commands : q = Item(x)
      BY Zenon, <3>1, AgreeFacts
    <3>3. PICK y \in workload.commands : p = Item(y)
      BY Zenon, <1>2, <1>3, AgreeFacts
    <3>4. x.db = y.db
      BY Zenon DEF SetsOnly, OneDatabase
    <3>5. q = p
      BY Zenon, <3>2, <3>3, <3>4 DEF Item
    <3> QED BY Zenon, <1>3, <1>7, <3>5
  <2>2. q[2] \in Keys /\ p[2] \in Keys
    BY Zenon, <1>2, ItemFacts
  <2>3. database'[q[2]] = database[q[2]]
    BY Zenon, <1>1, <1>5, <2>1, <2>2 DEF TypeOK
  <2> QED BY Zenon, <1>7, <2>3, AgreeFacts
<1>8. \A q \in Items : cache'[q] # NULL \/ cands'["set"][q] # NULL =>
        \E cmd \in workload'.commands : q = Item(cmd)
  BY Zenon, <1>5, AgreeFacts
<1>9. \A q \in Items : Live(cache', q) /\ cands'["set"][q] = NULL => cache'[q].val = database'[q[2]]
  BY Zenon, <1>5, <1>7 DEF Live
<1> QED BY Zenon, <1>6, <1>8, <1>9 DEF AgreeInv, Item, Live

\* Every step keeps AgreeInv.
LEMMA AgreeStep ==
  ASSUME IInv, OneWriteServesAll, SetInv, AgreeInv, Running(ServerStep)
  PROVE  AgreeInv'
<1>0. /\ UNCHANGED workload /\ ServerStep
      /\ (Only({"set"}) /\ DatabaseWorks /\ OneDatabase)' <=> SetsOnly
  BY Zenon DEF Running, Only, DatabaseWorks, OneDatabase, SetsOnly
<1>1. CASE ~SetsOnly
  BY Zenon, <1>0, <1>1 DEF AgreeInv
<1>2. CASE SetsOnly
  <2>0. ASSUME UNCHANGED <<cache, database, cands, job>>
        PROVE  AgreeInv'
    BY Zenon, <1>0, <1>2, <2>0, AgreeFacts, AgreeFrame
  <2>1. ASSUME NEW c \in Clients, ReadQuery(c) \/ Disconnect(c) \/ Connect(c)
        PROVE  AgreeInv'
    <3>1. CASE ReadQuery(c) \/ Connect(c)
      BY Zenon, <2>0, <3>1 DEF ReadQuery, Connect
    <3>2. CASE Disconnect(c)
      BY Zenon, <1>0, <1>2, <3>2, AgreeFree DEF Disconnect
    <3> QED BY Zenon, <2>1, <3>1, <3>2
  <2>2. CASE EndInput \/ ResumeFreed
    BY Zenon, <2>0, <2>2 DEF EndInput, ResumeFreed
  <2>3. CASE Resume \/ Finish
    BY Zenon, <1>0, <1>2, <2>3, AgreeResume, AgreeFinish
  <2>4. ASSUME NEW cmd \in workload.commands,
               Enqueue(cmd) \/ RunDirectly(cmd) \/ CheckFails(cmd) \/ Kill(cmd)
        PROVE  AgreeInv'
    <3>1. CASE Enqueue(cmd) \/ RunDirectly(cmd)
      BY Zenon, <1>0, <1>2, <3>1, AgreeEnqueue, AgreeRun
    <3>2. CASE CheckFails(cmd)
      BY Zenon, <2>0, <3>2 DEF CheckFails
    <3>3. CASE Kill(cmd)
      BY Zenon, <1>2, <3>3 DEF Kill, SetsOnly, Only
    <3> QED BY Zenon, <2>4, <3>1, <3>2, <3>3
  <2>5. ASSUME NEW cfg \in workload.configs, ConfigSet(cfg)
        PROVE  AgreeInv'
    BY Zenon, <2>0, <2>5 DEF ConfigSet
  <2>6. ASSUME NEW m \in Modes, Handle(m) \/ WorkerStep(m)
        PROVE  AgreeInv'
    BY Zenon, <1>0, <1>2, <2>6, AgreeHandle, AgreeDbCall, AgreeReturn DEF WorkerStep
  <2>7. ASSUME NEW p \in Items, TtlElapses(p)
        PROVE  AgreeInv'
    BY Zenon, <1>0, <1>2, <2>7, AgreeTtl
  <2> QED BY Zenon, <1>0, <2>1, <2>2, <2>3, <2>4, <2>5, <2>6, <2>7 DEF ServerStep
<1> QED BY Zenon, <1>1, <1>2

\* Sets alone keep the cache and a working database equal, in every state in which nothing
\* is pending between them.
THEOREM SetsReachBothHolds == Spec => []SetsReachBoth
<1>1. Init => AgreeInv
  <2> SUFFICES ASSUME Init PROVE AgreeInv
    BY Zenon
  <2>1. /\ \A p \in Items : cache[p] = NULL
        /\ \A m \in Modes : job[m] = Idle /\ \A p \in Items : cands[m][p] = NULL
    BY Zenon DEF Init
  <2>2. "set" \in Modes /\ Idle.phase = "idle"
    BY Zenon, NullFacts DEF Idle
  <2> QED BY Zenon, <2>1, <2>2 DEF AgreeInv, Live
<1>2. IInv /\ OneWriteServesAll /\ SetInv /\ AgreeInv /\ [Next]_vars => AgreeInv'
  <2>1. CASE UNCHANGED vars
    BY Zenon, <2>1 DEF vars, AgreeInv, Only, DatabaseWorks, OneDatabase, Live, Item
  <2>2. CASE Running(ServerStep)
    BY Zenon, <2>2, AgreeStep
  <2> QED BY Zenon, <2>1, <2>2 DEF Next, Stopped
<1>3. IInv /\ AgreeInv => SetsReachBoth
  <2> SUFFICES ASSUME IInv, AgreeInv, SetsOnly, Quiescent, NEW p \in Items, Live(cache, p)
               PROVE  cache[p].val = database[p[2]]
    BY Zenon DEF SetsReachBoth, CacheMatchesDatabase, SetsOnly
  <2>1. cands["set"][p] = NULL
    BY Zenon, NullFacts DEF Quiescent, IInv, JobHasCandidate
  <2> QED BY Zenon, <2>1, AgreeFacts
<1> QED BY <1>1, <1>2, <1>3, Invariant, OneWriteServesAllHolds, SetInvariant, PTL DEF Spec
=============================================================================
