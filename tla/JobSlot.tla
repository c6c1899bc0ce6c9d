------------------------------ MODULE JobSlot ------------------------------
(***************************************************************************)
(* The hand-over of database work between the event loop (the main thread) *)
(* and the working threads of backend.c.  There is one working thread and  *)
(* one job slot (getJob, setJob, delJob) per mode, one spinlock for all    *)
(* the slots, and one pipe per mode whose bytes wake the event loop.       *)
(*                                                                         *)
(* The grain is the critical section: taking the spinlock is a step of its *)
(* own, the two stores by which a working thread returns a result are two  *)
(* steps, and writing the pipe is a step after the lock is released.       *)
(* Clients are left out: a command is the item it asks for.                *)
(***************************************************************************)
EXTENDS Naturals

CONSTANTS
  Modes,      \* the working threads: "get", "set", "del", or some of them
  DBs,        \* ids of the redis databases, 0 .. server.dbnum - 1
  Keys,       \* key names
  Results,    \* what the database answers: a value, or 1 for set and del
  NULL        \* the C null pointer; as a result: failed, or no such row

ASSUME ModesAssumption == Modes \subseteq {"get", "set", "del"}
ASSUME DBsAssumption == DBs \subseteq Nat
ASSUME NullAssumption == NULL \notin Keys /\ NULL \notin Results /\ NULL \notin Modes
                         /\ NULL \notin DBs

VARIABLES
  lock,        \* owner of spinLock: "free", "main", or the mode of a worker
  dbid, key,   \* server.{get,set,del}Job: the posted job
  payload,     \* setJob.valToBackend # NULL
  returnKey,   \* server.{get,set,del}Job.return{Get,Set,Del}Key
  result,      \* valFromBackend, setSyncResult, delSyncResult
  pipe,        \* unread bytes in the pipe of each mode
  cands,       \* keys of server.db[i].backend{Get,Set,Del}Keys, as <<i, key>>
  wpc,         \* where each working thread is
  wkey, wres,  \* its locals: the key it took, what the database answered
  mpc,         \* where the main thread is
  cmode, citem,\* the command it is processing: mode (NULL if none) and item
  hmode,       \* mode of the pipe handler it is running, or NULL
  fin,         \* the handler's locals finishDbid, finishKey and result
  pick         \* the candidate chosen for the next job

slotVars == <<dbid, key, payload, returnKey, result>>
workerVars == <<wpc, wkey, wres>>
mainVars == <<mpc, cmode, citem, hmode, fin, pick>>
vars == <<lock, slotVars, pipe, cands, workerVars, mainVars>>

Items == DBs \X Keys
NoItem == <<NULL, NULL>>
NoFin == [item |-> NoItem, res |-> NULL]

\* The mode whose slot the main thread is filling.
Target == IF cmode # NULL THEN cmode ELSE hmode

Init ==
  /\ lock = "free"
  /\ dbid = [m \in Modes |-> NULL]
  /\ key = [m \in Modes |-> NULL]
  /\ payload = [m \in Modes |-> FALSE]
  /\ returnKey = [m \in Modes |-> NULL]
  /\ result = [m \in Modes |-> NULL]
  /\ pipe = [m \in Modes |-> 0]
  /\ cands = [m \in Modes |-> {}]
  /\ wpc = [m \in Modes |-> "poll"]
  /\ wkey = [m \in Modes |-> NULL]
  /\ wres = [m \in Modes |-> NULL]
  /\ mpc = "loop"
  /\ cmode = NULL /\ citem = NoItem
  /\ hmode = NULL /\ fin = NoFin
  /\ pick = NoItem

-----------------------------------------------------------------------------
(* The spinlock: rocklock() before each critical section. *)

MainSections == {"peek", "check", "post", "fin", "clear"}
WorkerSections == {"poll", "val", "ret"}

Inside(pc) ==
  CASE pc = "peek" -> "peekIn" [] pc = "check" -> "checkIn" [] pc = "post" -> "postIn"
    [] pc = "fin" -> "finIn"   [] pc = "clear" -> "clearIn"
    [] pc = "poll" -> "takeIn" [] pc = "val" -> "valIn"     [] pc = "ret" -> "retIn"

\* pthread_spin_lock returns when nobody holds the lock.
BugCanLock == TRUE
CanLock == lock = "free"

MainLock ==
  /\ mpc \in MainSections /\ CanLock
  /\ lock' = "main"
  /\ mpc' = Inside(mpc)
  /\ UNCHANGED <<slotVars, pipe, cands, workerVars, cmode, citem, hmode, fin, pick>>

WorkerLock(m) ==
  /\ wpc[m] \in WorkerSections /\ CanLock
  /\ lock' = m
  /\ wpc' = [wpc EXCEPT ![m] = Inside(wpc[m])]
  /\ UNCHANGED <<slotVars, pipe, cands, wkey, wres, mainVars>>

-----------------------------------------------------------------------------
(* The main thread: a command that needs the database. *)

\* Where a command returns to: the event loop, or the resume loop of a handler.
AfterCommand == IF hmode = NULL THEN "loop" ELSE "resume"

\* checkNeedToBackendState.  A get that misses first looks whether the slot
\* holds a failed answer for its key; the others become candidates at once.
Command(m, i) ==
  /\ mpc \in {"loop", "resume"}
  /\ cmode' = m /\ citem' = i
  /\ \/ /\ m = "get"
        /\ mpc' = "peek"
        /\ UNCHANGED cands
     \/ /\ m # "get"
        /\ mpc' = "check"
        /\ cands' = [cands EXCEPT ![m] = @ \union {i}]
  /\ UNCHANGED <<lock, slotVars, pipe, workerVars, hmode, fin, pick>>

\* The re-entry test: a failed answer for this key name, in any redis database.
Reentry(m, i) == result[m] = NULL /\ returnKey[m] = i[2]

PeekIn ==
  /\ mpc = "peekIn"
  /\ lock' = "free"
  /\ \/ /\ Reentry(cmode, citem)
        /\ mpc' = AfterCommand
        /\ cmode' = NULL /\ citem' = NoItem
        /\ UNCHANGED cands
     \/ /\ ~Reentry(cmode, citem)
        /\ mpc' = "check"
        /\ cands' = [cands EXCEPT ![cmode] = @ \union {citem}]
        /\ UNCHANGED <<cmode, citem>>
  /\ UNCHANGED <<slotVars, pipe, workerVars, hmode, fin, pick>>

\* _hasAvailableCandidate: the first redis database that has candidates, and
\* whatever key its dictionary iterator yields first.
BugCandidates(m) == {i \in cands[m] : i[1] > 0 /\ \A j \in cands[m] : i[1] <= j[1]}
Candidates(m) == {i \in cands[m] : \A j \in cands[m] : i[1] <= j[1]}

\* all_null: no job is being worked on, and none waits to be cleared.
BugAllNull(m) == returnKey[m] = NULL
AllNull(m) == key[m] = NULL /\ returnKey[m] = NULL

\* _createNewJobIfHasMoreCandidates(mode, 1), first critical section.
CheckIn ==
  /\ mpc = "checkIn"
  /\ lock' = "free"
  /\ \/ /\ AllNull(cmode)
        /\ pick' \in Candidates(cmode)
        /\ mpc' = "post"
        /\ UNCHANGED <<cmode, citem>>
     \/ /\ ~AllNull(cmode) \/ Candidates(cmode) = {}
        /\ mpc' = AfterCommand
        /\ cmode' = NULL /\ citem' = NoItem
        /\ UNCHANGED pick
  /\ UNCHANGED <<slotVars, pipe, cands, workerVars, hmode, fin>>

\* _createNewJobIfHasMoreCandidates, second critical section.
PostIn ==
  /\ mpc = "postIn"
  /\ lock' = "free"
  /\ dbid' = [dbid EXCEPT ![Target] = pick[1]]
  /\ key' = [key EXCEPT ![Target] = pick[2]]
  /\ payload' = [payload EXCEPT ![Target] = (Target = "set")]
  /\ result' = [result EXCEPT ![Target] = IF Target = "get" THEN @ ELSE NULL]
  /\ mpc' = IF cmode # NULL THEN AfterCommand ELSE "read"
  /\ cmode' = NULL /\ citem' = NoItem /\ pick' = NoItem
  /\ UNCHANGED <<returnKey, pipe, cands, workerVars, hmode, fin>>

-----------------------------------------------------------------------------
(* The main thread: the pipe handlers and _clearFinishKey. *)

\* The pipe is readable: _{get,set,del}PipeMainThreadHandler starts.
Handler(m) ==
  /\ mpc = "loop" /\ pipe[m] > 0
  /\ hmode' = m
  /\ mpc' = "fin"
  /\ UNCHANGED <<lock, slotVars, pipe, cands, workerVars, cmode, citem, fin, pick>>

FinIn ==
  /\ mpc = "finIn"
  /\ lock' = "free"
  /\ fin' = [item |-> <<dbid[hmode], returnKey[hmode]>>, res |-> result[hmode]]
  /\ mpc' = "apply"
  /\ UNCHANGED <<slotVars, pipe, cands, workerVars, cmode, citem, hmode, pick>>

\* The finished entry leaves the dictionary before its clients are resumed.
Apply ==
  /\ mpc = "apply"
  /\ cands' = [cands EXCEPT ![hmode] = @ \ {fin.item}]
  /\ mpc' = "resume"
  /\ UNCHANGED <<lock, slotVars, pipe, workerVars, cmode, citem, hmode, fin, pick>>

\* The last client of the entry has been resumed.
EndResume ==
  /\ mpc = "resume"
  /\ mpc' = "clear"
  /\ UNCHANGED <<lock, slotVars, pipe, cands, workerVars, cmode, citem, hmode, fin, pick>>

\* The slot is emptied, and filled again if a candidate is left:
\* _createNewJobIfHasMoreCandidates(mode, 0).
ClearIn ==
  /\ mpc = "clearIn"
  /\ lock' = "free"
  /\ dbid' = [dbid EXCEPT ![hmode] = NULL]
  /\ key' = [key EXCEPT ![hmode] = NULL]
  /\ payload' = [payload EXCEPT ![hmode] = FALSE]
  /\ returnKey' = [returnKey EXCEPT ![hmode] = NULL]
  /\ result' = [result EXCEPT ![hmode] = NULL]
  /\ \/ pick' \in Candidates(hmode) /\ mpc' = "post"
     \/ Candidates(hmode) = {} /\ mpc' = "read" /\ UNCHANGED pick
  /\ UNCHANGED <<pipe, cands, workerVars, cmode, citem, hmode, fin>>

\* read(fd, buf, 1).
BugUnread(n) == 0
Unread(n) == n - 1

\* One byte is read from the pipe, after everything else.
ReadPipe ==
  /\ mpc = "read" /\ pipe[hmode] > 0
  /\ pipe' = [pipe EXCEPT ![hmode] = Unread(@)]
  /\ mpc' = "loop"
  /\ hmode' = NULL /\ fin' = NoFin
  /\ UNCHANGED <<lock, slotVars, cands, workerVars, cmode, citem, pick>>

-----------------------------------------------------------------------------
(* A working thread: _haveJobThenDoJobInWorkingThread. *)

\* A job that has not been returned yet.
BugHasJob(m) == key[m] # NULL
HasJob(m) == returnKey[m] = NULL /\ key[m] # NULL

\* _getJobInWorkingThread; without a job the thread sleeps and polls again.
TakeIn(m) ==
  /\ wpc[m] = "takeIn"
  /\ lock' = "free"
  /\ \/ /\ HasJob(m)
        /\ wkey' = [wkey EXCEPT ![m] = key[m]]
        /\ wpc' = [wpc EXCEPT ![m] = IF m = "set" THEN "val" ELSE "db"]
     \/ /\ ~HasJob(m)
        /\ wpc' = [wpc EXCEPT ![m] = "poll"]
        /\ UNCHANGED wkey
  /\ UNCHANGED <<slotVars, pipe, cands, wres, mainVars>>

\* The set thread reads valToBackend in a critical section of its own.
ValIn(m) ==
  /\ wpc[m] = "valIn"
  /\ lock' = "free"
  /\ wpc' = [wpc EXCEPT ![m] = "db"]
  /\ UNCHANGED <<slotVars, pipe, cands, wkey, wres, mainVars>>

\* The call of db_get, grpc_get, db_set or db_del, made without the lock.
DbCall(m) ==
  /\ wpc[m] = "db"
  /\ \E r \in Results \union {NULL} : wres' = [wres EXCEPT ![m] = r]
  /\ wpc' = [wpc EXCEPT ![m] = "ret"]
  /\ UNCHANGED <<lock, slotVars, pipe, cands, wkey, mainVars>>

\* The result is returned by two stores under the lock: first the return key,
RetKeyIn(m) ==
  /\ wpc[m] = "retIn"
  /\ returnKey' = [returnKey EXCEPT ![m] = wkey[m]]
  /\ wpc' = [wpc EXCEPT ![m] = "retIn2"]
  /\ UNCHANGED <<lock, dbid, key, payload, result, pipe, cands, wkey, wres, mainVars>>

\* then the result itself.
RetResIn(m) ==
  /\ wpc[m] = "retIn2"
  /\ lock' = "free"
  /\ result' = [result EXCEPT ![m] = wres[m]]
  /\ wpc' = [wpc EXCEPT ![m] = "write"]
  /\ UNCHANGED <<dbid, key, payload, returnKey, pipe, cands, wkey, wres, mainVars>>

\* One byte wakes the event loop.
WritePipe(m) ==
  /\ wpc[m] = "write"
  /\ pipe' = [pipe EXCEPT ![m] = @ + 1]
  /\ wpc' = [wpc EXCEPT ![m] = "poll"]
  /\ UNCHANGED <<lock, slotVars, cands, wkey, wres, mainVars>>

-----------------------------------------------------------------------------

MainStep == MainLock \/ PeekIn \/ CheckIn \/ PostIn \/ FinIn \/ Apply \/ EndResume
            \/ ClearIn \/ ReadPipe

WorkerStep(m) == WorkerLock(m) \/ TakeIn(m) \/ ValIn(m) \/ DbCall(m) \/ RetKeyIn(m)
                 \/ RetResIn(m) \/ WritePipe(m)

Next ==
  \/ MainStep
  \/ \E m \in Modes : Handler(m) \/ WorkerStep(m)
  \/ \E m \in Modes, i \in Items : Command(m, i)

Spec == Init /\ [][Next]_vars

-----------------------------------------------------------------------------
(* Safety. *)

MainPCs == {"loop", "apply", "resume", "read"} \union MainSections
           \union {Inside(pc) : pc \in MainSections}
WorkerPCs == {"db", "retIn2", "write"} \union WorkerSections
             \union {Inside(pc) : pc \in WorkerSections}

\* Every variable has its type: the slots hold keys, ids and results of the
\* kinds backend.c stores in getJob, setJob and delJob.
TypeOK ==
  /\ lock \in {"free", "main"} \union Modes
  /\ dbid \in [Modes -> DBs \union {NULL}]
  /\ key \in [Modes -> Keys \union {NULL}]
  /\ payload \in [Modes -> BOOLEAN]
  /\ returnKey \in [Modes -> Keys \union {NULL}]
  /\ result \in [Modes -> Results \union {NULL}]
  /\ pipe \in [Modes -> Nat]
  /\ cands \in [Modes -> SUBSET Items]
  /\ wpc \in [Modes -> WorkerPCs]
  /\ wkey \in [Modes -> Keys \union {NULL}]
  /\ wres \in [Modes -> Results \union {NULL}]
  /\ mpc \in MainPCs
  /\ cmode \in Modes \union {NULL}
  /\ citem \in Items \union {NoItem}
  /\ hmode \in Modes \union {NULL}
  /\ fin \in [item : (DBs \union {NULL}) \X (Keys \union {NULL}), res : Results \union {NULL}]
  /\ pick \in Items \union {NoItem}

\* The serverAssert()s of the main thread hold when it reaches them: a job is
\* posted into an empty slot only, a handler finds a returned job, the entry it
\* finishes is still in the dictionary, and it clears the job it finished.
MainAssertsHold ==
  /\ mpc = "postIn" => key[Target] = NULL /\ returnKey[Target] = NULL /\ ~payload[Target]
  /\ mpc = "finIn" => /\ dbid[hmode] # NULL /\ key[hmode] # NULL
                      /\ returnKey[hmode] = key[hmode]
  /\ mpc = "apply" => fin.item \in cands[hmode]
  /\ mpc = "clearIn" => /\ returnKey[hmode] # NULL /\ key[hmode] = returnKey[hmode]
                        /\ fin.item = <<dbid[hmode], key[hmode]>>

\* From the moment a working thread takes a key until it returns it, the slot
\* still holds that key: the asserts of _haveJobThenDoJobInWorkingThread hold,
\* and the key the thread passes to the database has not been freed.
WorkerAssertsHold ==
  \A m \in Modes :
    /\ wpc[m] \in {"val", "valIn", "db", "ret", "retIn"} =>
         key[m] # NULL /\ key[m] = wkey[m] /\ returnKey[m] = NULL
    /\ wpc[m] = "valIn" => payload[m]

\* What the main thread reads from a slot is what the database answered for the
\* key of the slot: a command taken for a re-entry had a failed answer (and not
\* one whose value was still to be stored), and a handler applies the answer
\* of its own job.
AnswerIsIntact ==
  /\ mpc = "peekIn" /\ Reentry(cmode, citem) => wres[cmode] = NULL /\ wkey[cmode] = citem[2]
  /\ mpc = "apply" => fin.res = wres[hmode] /\ fin.item[2] = wkey[hmode]

\* A byte in the pipe, or about to be written, stands for each returned job, and
\* one more for the handler that has cleared its job and has yet to read its
\* byte.  A byte that is lost strands the waiting clients; one too many runs a
\* handler on an empty slot.
PipeMatchesReturns ==
  \A m \in Modes :
    pipe[m] + (IF wpc[m] = "write" THEN 1 ELSE 0)
      = (IF returnKey[m] # NULL /\ wpc[m] # "retIn2" THEN 1 ELSE 0)
        + (IF hmode = m /\ cmode = NULL /\ mpc \in {"post", "postIn", "read"} THEN 1 ELSE 0)

\* Whenever the event loop waits for events, a mode that has candidates has a
\* job, for one of them: nobody waits for a job that will not be created.
NoLostJob ==
  mpc = "loop" => \A m \in Modes :
    cands[m] # {} => key[m] # NULL /\ <<dbid[m], key[m]>> \in cands[m]

-----------------------------------------------------------------------------
(* The inductive invariant behind the safety properties, by its parts. *)

\* Who is inside a critical section holds the spinlock.
LockInv ==
  /\ mpc \in {"peekIn", "checkIn", "postIn", "finIn", "clearIn"} <=> lock = "main"
  /\ \A m \in Modes : wpc[m] \in {"takeIn", "valIn", "retIn", "retIn2"} <=> lock = m

\* The main thread has a command, a handler, both or none, by where it is.
ControlInv ==
  /\ mpc \in {"peek", "peekIn", "check", "checkIn"} => cmode # NULL /\ citem # NoItem
  /\ mpc \in {"loop", "fin", "finIn", "apply", "resume", "clear", "clearIn", "read"} => cmode = NULL
  /\ mpc = "loop" => hmode = NULL
  /\ mpc \in {"fin", "finIn", "apply", "resume", "clear", "clearIn", "read"} => hmode # NULL
  /\ mpc \in {"post", "postIn"} => Target # NULL /\ pick \in cands[Target] /\ key[Target] = NULL

\* A slot is empty, posted, or returned, and its working thread knows which.
SlotInv ==
  \A m \in Modes :
    /\ key[m] = NULL <=> dbid[m] = NULL
    /\ payload[m] <=> m = "set" /\ key[m] # NULL
    /\ wpc[m] \in {"val", "valIn"} => m = "set"
    /\ wpc[m] \in {"val", "valIn", "db", "ret", "retIn"} =>
         key[m] # NULL /\ wkey[m] = key[m] /\ returnKey[m] = NULL
    /\ wpc[m] \in {"retIn2", "write"} => returnKey[m] # NULL
    /\ returnKey[m] # NULL => key[m] = returnKey[m] /\ wkey[m] = returnKey[m]
    /\ returnKey[m] # NULL /\ wpc[m] # "retIn2" => result[m] = wres[m]

\* The handler of mode hmode has not cleared its job yet.
Handling == hmode # NULL /\ mpc # "read" /\ (mpc \in {"post", "postIn"} => cmode # NULL)

\* Until a handler clears its job, the job stays returned and nobody else has it;
\* once it has copied the job, the copy is the job.
HandlerInv ==
  Handling =>
    /\ returnKey[hmode] # NULL /\ wpc[hmode] \in {"poll", "takeIn"}
    /\ mpc \notin {"fin", "finIn"} =>
         fin.item = <<dbid[hmode], key[hmode]>> /\ fin.res = result[hmode]

\* The main thread is past the Apply step of the job that mode m returned.
Finished(m) ==
  hmode = m /\ returnKey[m] # NULL /\ mpc \notin {"fin", "finIn", "apply", "read"}

\* A job is for a candidate; a mode without a job has no candidates, except
\* while the main thread is about to create a job for it.
CandidateInv ==
  \A m \in Modes :
    /\ key[m] # NULL /\ ~Finished(m) => <<dbid[m], key[m]>> \in cands[m]
    /\ key[m] = NULL /\ cands[m] # {} =>
         \/ mpc \in {"check", "checkIn"} /\ cmode = m
         \/ mpc \in {"post", "postIn"} /\ Target = m

\* All of it: what the main thread, the working threads and the pipes rely on
\* of each other, and what every step of backend.c preserves.
IInv == /\ TypeOK /\ LockInv /\ ControlInv /\ SlotInv /\ HandlerInv
        /\ CandidateInv /\ PipeMatchesReturns

-----------------------------------------------------------------------------
(* The abstract service the slots implement. *)

Serving == [m \in Modes |->
  IF key[m] = NULL \/ Finished(m) THEN NoItem ELSE <<dbid[m], key[m]>>]

Answered == [m \in Modes |->
  IF returnKey[m] = NULL \/ wpc[m] = "retIn2" \/ Finished(m) THEN <<>> ELSE <<result[m]>>]

Service == INSTANCE JobService
  WITH Answers <- Results \union {NULL}, requests <- cands, serving <- Serving, answer <- Answered

\* The slots, locks, pipes and handlers implement the one-at-a-time service: no
\* item is asked for twice per request, asked for without a request, or dropped
\* from its dictionary before the database has answered for it.
ImplementsService == Service!Spec

-----------------------------------------------------------------------------
(* Liveness. *)

\* The threads run (weak fairness); usleep() between polls lets the others take
\* the spinlock, the pipes are polled in every round of the event loop, and a
\* resumed client's query buffer ends (strong fairness).
Fairness ==
  /\ SF_vars(MainLock) /\ SF_vars(EndResume)
  /\ WF_vars(MainStep)
  /\ \A m \in Modes : SF_vars(Handler(m)) /\ SF_vars(WorkerLock(m)) /\ WF_vars(WorkerStep(m))

FairSpec == Spec /\ Fairness

\* A mode that has candidates keeps finishing them: no wake-up is lost between a
\* thread that returns a job, the pipe and the event loop.
KeepsServing == Service!FairSpec
=============================================================================
