--------------------------- MODULE JobSlotProofs ---------------------------
(***************************************************************************)
(* Proofs about JobSlot, for every set of threads, databases and keys: the *)
(* invariant IInv is inductive, it implies the safety properties, and with *)
(* it every step of JobSlot is a step of JobService or leaves it unchanged.*)
(***************************************************************************)
EXTENDS JobSlot, TLAPS, WellFoundedInduction

-----------------------------------------------------------------------------
(* Facts about the operators. *)

\* The program counters, listed.
LEMMA ProgramCounters ==
  /\ MainPCs = {"loop", "apply", "resume", "read", "peek", "check", "post", "fin", "clear",
                "peekIn", "checkIn", "postIn", "finIn", "clearIn"}
  /\ WorkerPCs = {"db", "retIn2", "write", "poll", "val", "ret", "takeIn", "valIn", "retIn"}
BY ZenonT(60) DEF MainPCs, WorkerPCs, MainSections, WorkerSections, Inside

\* A set of candidates that is not empty has one in its first database, so
\* _hasAvailableCandidate finds a candidate whenever there is one.
LEMMA CandidateExists ==
  ASSUME TypeOK, NEW m \in Modes, cands[m] # {}
  PROVE  Candidates(m) # {}
<1> DEFINE T == {i[1] : i \in cands[m]}
           R == OpToRel(<, Nat)
<1>1. cands[m] \subseteq Items
  BY Zenon DEF TypeOK
<1>2. T \subseteq Nat /\ T # {}
  BY Zenon, <1>1, DBsAssumption DEF Items
<1>3. \E x \in T : \A y \in T : ~(<<y, x>> \in R)
  <2> HIDE DEF T, R
  <2> QED BY Zenon, <1>2, NatLessThanWellFounded, WFMin DEF R
<1>4. PICK x \in T : \A y \in T : x <= y
  <2>1. PICK x \in T : \A y \in T : ~(<<y, x>> \in R)
    BY Zenon, <1>3
  <2>2. \A y \in T : ~(y < x)
    BY Zenon, <1>2, <2>1 DEF OpToRel
  <2> HIDE DEF T
  <2> QED BY <1>2, <2>2
<1>5. PICK i \in cands[m] : x = i[1]
  BY Zenon, <1>4
<1>6. i \in Candidates(m)
  BY Zenon, <1>4, <1>5 DEF Candidates
<1> QED BY Zenon, <1>6

\* While a job is about to be posted its slot is empty, nobody works on it, and it
\* is not the slot of a handler that has yet to clear its own.
LEMMA PostTarget ==
  ASSUME IInv, mpc \in {"post", "postIn"}
  PROVE  /\ Target \in Modes
         /\ pick \in Items /\ pick = <<pick[1], pick[2]>> /\ pick[1] # NULL /\ pick[2] # NULL
         /\ key[Target] = NULL /\ returnKey[Target] = NULL /\ dbid[Target] = NULL
         /\ wpc[Target] \in {"poll", "takeIn"}
<1>1. Target \in Modes /\ pick \in cands[Target] /\ key[Target] = NULL
  BY Zenon DEF IInv, TypeOK, ControlInv, Target
<1>2. returnKey[Target] = NULL /\ dbid[Target] = NULL
  BY Zenon, <1>1, NullAssumption DEF IInv, SlotInv
<1>3. wpc[Target] \in {"poll", "takeIn"}
  BY Zenon, <1>1, <1>2, ProgramCounters DEF IInv, TypeOK, SlotInv
<1>4. pick \in Items
  BY Zenon, <1>1 DEF IInv, TypeOK
<1>5. pick = <<pick[1], pick[2]>> /\ pick[1] # NULL /\ pick[2] # NULL
  BY <1>4, NullAssumption DEF Items
<1> QED BY Zenon, <1>1, <1>2, <1>3, <1>4, <1>5

-----------------------------------------------------------------------------
(* The inductive invariant. *)

\* The invariant holds when initBackendZeroJobs has run.
LEMMA InitIInv == Init => IInv
BY ProgramCounters, NullAssumption, ModesAssumption
   DEF Init, IInv, TypeOK, LockInv, ControlInv, SlotInv, HandlerInv, Handling, CandidateInv,
       Finished, PipeMatchesReturns, NoFin, NoItem, Target, Items

\* The main thread enters a critical section: only the lock and its counter change.
LEMMA MainLockStep ==
  ASSUME IInv, MainLock
  PROVE  IInv'
<1> USE ProgramCounters, NullAssumption, ModesAssumption DEF IInv, slotVars, workerVars, mainVars
<1>1. TypeOK'
  BY ZenonT(60) DEF MainLock, MainSections, CanLock, Inside, TypeOK
<1>2. LockInv'
  BY Zenon DEF MainLock, MainSections, CanLock, Inside, LockInv
<1>3. ControlInv'
  BY Zenon DEF MainLock, MainSections, CanLock, Inside, ControlInv, Target
<1>4. SlotInv'
  BY ZenonT(60) DEF MainLock, MainSections, CanLock, Inside, SlotInv
<1>5. HandlerInv'
  BY Zenon DEF MainLock, MainSections, CanLock, Inside, HandlerInv, Handling
<1>6. CandidateInv'
  BY Zenon DEF MainLock, MainSections, CanLock, Inside, CandidateInv, Finished, Target
<1>7. PipeMatchesReturns'
  BY ZenonT(60) DEF MainLock, MainSections, CanLock, Inside, PipeMatchesReturns
<1> QED BY Zenon, <1>1, <1>2, <1>3, <1>4, <1>5, <1>6, <1>7

\* The re-entry test of a get: a command that is none becomes a candidate.
LEMMA PeekInStep ==
  ASSUME IInv, PeekIn
  PROVE  IInv'
<1> USE ProgramCounters, NullAssumption, ModesAssumption DEF IInv, slotVars, workerVars, mainVars
<1>1. TypeOK'
  BY DEF PeekIn, AfterCommand, Reentry, TypeOK, ControlInv, Target, Items, NoItem
<1>2. LockInv'
  BY Zenon DEF PeekIn, AfterCommand, Reentry, LockInv
<1>3. ControlInv'
  BY Zenon DEF PeekIn, AfterCommand, Reentry, ControlInv, Target
<1>4. SlotInv'
  BY Zenon DEF PeekIn, AfterCommand, Reentry, SlotInv
<1>5. HandlerInv'
  BY Zenon DEF PeekIn, AfterCommand, Reentry, HandlerInv, Handling
<1>6. CandidateInv'
  BY SMTT(30) DEF PeekIn, AfterCommand, Reentry, TypeOK, CandidateInv, Finished, Target
<1>7. PipeMatchesReturns'
  BY Zenon DEF PeekIn, AfterCommand, Reentry, PipeMatchesReturns
<1> QED BY Zenon, <1>1, <1>2, <1>3, <1>4, <1>5, <1>6, <1>7

\* A slot is found empty, with a candidate to post, or the command is done with.
LEMMA CheckInStep ==
  ASSUME IInv, CheckIn
  PROVE  IInv'
<1> USE ProgramCounters, NullAssumption, ModesAssumption DEF IInv, slotVars, workerVars, mainVars
<1>1. TypeOK'
  BY DEF CheckIn, AfterCommand, AllNull, Candidates, TypeOK, ControlInv, Target, Items, NoItem
<1>2. LockInv'
  BY Zenon DEF CheckIn, AfterCommand, AllNull, Candidates, LockInv
<1>3. ControlInv'
  BY Zenon DEF CheckIn, AfterCommand, AllNull, Candidates, ControlInv, Target
<1>4. SlotInv'
  BY ZenonT(60) DEF CheckIn, AfterCommand, AllNull, Candidates, SlotInv
<1>5. HandlerInv'
  BY Zenon DEF CheckIn, AfterCommand, AllNull, Candidates, HandlerInv, Handling
<1>6. CandidateInv'
  BY CandidateExists DEF CheckIn, AfterCommand, AllNull, Candidates, TypeOK, ControlInv,
     SlotInv, CandidateInv, Finished, Target
<1>7. PipeMatchesReturns'
  BY Zenon DEF CheckIn, AfterCommand, AllNull, Candidates, TypeOK, ControlInv, PipeMatchesReturns
<1> QED BY Zenon, <1>1, <1>2, <1>3, <1>4, <1>5, <1>6, <1>7

\* A job is posted: the slot was empty, so no working thread and no handler is at it.
LEMMA PostInStep ==
  ASSUME IInv, PostIn
  PROVE  IInv'
<1> USE ProgramCounters, NullAssumption, ModesAssumption DEF IInv, slotVars, workerVars, mainVars
<1>1. TypeOK'
  BY DEF PostIn, AfterCommand, TypeOK, ControlInv, Target, Items, NoItem
<1>2. LockInv'
  BY Zenon DEF PostIn, AfterCommand, LockInv
<1>3. ControlInv'
  BY Zenon DEF PostIn, AfterCommand, ControlInv, Target
<1>4. SlotInv'
  <2>1. ASSUME NEW m \in Modes, m # Target
        PROVE  /\ key'[m] = key[m] /\ dbid'[m] = dbid[m] /\ payload'[m] = payload[m]
               /\ result'[m] = result[m]
    BY <2>1 DEF PostIn, TypeOK
  <2>2. /\ key'[Target] = pick[2] /\ dbid'[Target] = pick[1]
        /\ payload'[Target] = (Target = "set")
    BY ZenonT(60), PostTarget DEF PostIn, TypeOK
  <2>3. UNCHANGED <<returnKey, wpc, wkey, wres>> /\ mpc = "postIn"
    BY Zenon DEF PostIn
  <2>4. SlotInv /\ payload'[Target] \in BOOLEAN
    BY Zenon, <2>2
  <2> HIDE DEF IInv
  <2>5. ASSUME NEW m \in Modes, m # Target
        PROVE  SlotInv!(m)'
    BY ZenonT(60), <2>1, <2>3, <2>4, <2>5 DEF SlotInv
  <2>6. ASSUME NEW m \in Modes, m = Target
        PROVE  SlotInv!(m)'
    BY Zenon, <2>2, <2>3, <2>4, <2>6, PostTarget DEF SlotInv
  <2> QED BY Zenon, <2>5, <2>6 DEF SlotInv
<1>5. HandlerInv'
  BY DEF PostIn, AfterCommand, TypeOK, ControlInv, SlotInv, HandlerInv, Handling, Target
<1>6. CandidateInv'
  BY DEF PostIn, AfterCommand, TypeOK, LockInv, ControlInv, SlotInv, HandlerInv, Handling,
     CandidateInv, Finished, Target, Items, NoItem
<1>7. PipeMatchesReturns'
  BY Zenon DEF PostIn, AfterCommand, PipeMatchesReturns
<1> QED BY Zenon, <1>1, <1>2, <1>3, <1>4, <1>5, <1>6, <1>7

\* A handler copies the returned job.
LEMMA FinInStep ==
  ASSUME IInv, FinIn
  PROVE  IInv'
<1> USE ProgramCounters, NullAssumption, ModesAssumption DEF IInv, slotVars, workerVars, mainVars
<1>1. TypeOK'
  BY Zenon DEF FinIn, TypeOK, ControlInv, Target, Items, NoItem
<1>2. LockInv'
  BY Zenon DEF FinIn, LockInv
<1>3. ControlInv'
  BY Zenon DEF FinIn, ControlInv, Target
<1>4. SlotInv'
  BY Zenon DEF FinIn, SlotInv
<1>5. HandlerInv'
  BY Zenon DEF FinIn, TypeOK, ControlInv, SlotInv, HandlerInv, Handling, Target
<1>6. CandidateInv'
  BY Zenon DEF FinIn, CandidateInv, Finished, Target
<1>7. PipeMatchesReturns'
  BY Zenon DEF FinIn, PipeMatchesReturns
<1> QED BY Zenon, <1>1, <1>2, <1>3, <1>4, <1>5, <1>6, <1>7

\* The finished entry leaves the candidates; until the slot is cleared its job is Finished.
LEMMA ApplyStep ==
  ASSUME IInv, Apply
  PROVE  IInv'
<1> USE ProgramCounters, NullAssumption, ModesAssumption DEF IInv, slotVars, workerVars, mainVars
<1>1. TypeOK'
  BY Zenon DEF Apply, TypeOK
<1>2. LockInv'
  BY Zenon DEF Apply, LockInv
<1>3. ControlInv'
  BY Zenon DEF Apply, ControlInv, Target
<1>4. SlotInv'
  BY Zenon DEF Apply, SlotInv
<1>5. HandlerInv'
  BY Zenon DEF Apply, HandlerInv, Handling
<1>6. CandidateInv'
  BY DEF Apply, TypeOK, ControlInv, SlotInv, HandlerInv, Handling, CandidateInv, Finished,
     Target
<1>7. PipeMatchesReturns'
  BY Zenon DEF Apply, PipeMatchesReturns
<1> QED BY Zenon, <1>1, <1>2, <1>3, <1>4, <1>5, <1>6, <1>7

\* The resume loop ends.
LEMMA EndResumeStep ==
  ASSUME IInv, EndResume
  PROVE  IInv'
<1> USE ProgramCounters, NullAssumption, ModesAssumption DEF IInv, slotVars, workerVars, mainVars
<1>1. TypeOK'
  BY ZenonT(60) DEF EndResume, TypeOK
<1>2. LockInv'
  BY Zenon DEF EndResume, LockInv
<1>3. ControlInv'
  BY Zenon DEF EndResume, ControlInv, Target
<1>4. SlotInv'
  BY Zenon DEF EndResume, SlotInv
<1>5. HandlerInv'
  BY Zenon DEF EndResume, HandlerInv, Handling
<1>6. CandidateInv'
  BY Zenon DEF EndResume, CandidateInv, Finished, Target
<1>7. PipeMatchesReturns'
  BY Zenon DEF EndResume, PipeMatchesReturns
<1> QED BY Zenon, <1>1, <1>2, <1>3, <1>4, <1>5, <1>6, <1>7

\* The slot is cleared: no working thread is at it, and if candidates are left one is picked.
LEMMA ClearInStep ==
  ASSUME IInv, ClearIn
  PROVE  IInv'
<1> USE ProgramCounters, NullAssumption, ModesAssumption DEF IInv, slotVars, workerVars, mainVars
<1>1. TypeOK'
  BY DEF ClearIn, Candidates, TypeOK, ControlInv, Target, Items, NoItem
<1>2. LockInv'
  BY Zenon DEF ClearIn, Candidates, LockInv
<1>3. ControlInv'
  BY DEF ClearIn, Candidates, TypeOK, ControlInv, Target
<1>4. SlotInv'
  BY DEF ClearIn, Candidates, TypeOK, ControlInv, SlotInv, HandlerInv, Handling
<1>5. HandlerInv'
  BY Zenon DEF ClearIn, Candidates, TypeOK, ControlInv, HandlerInv, Handling
<1>6. CandidateInv'
  BY CandidateExists DEF ClearIn, Candidates, TypeOK, ControlInv, CandidateInv, Finished, Target
<1>7. PipeMatchesReturns'
  BY DEF ClearIn, Candidates, TypeOK, ControlInv, SlotInv, HandlerInv, Handling,
     PipeMatchesReturns
<1> QED BY Zenon, <1>1, <1>2, <1>3, <1>4, <1>5, <1>6, <1>7

\* The handler reads the byte it was started by.
LEMMA ReadPipeStep ==
  ASSUME IInv, ReadPipe
  PROVE  IInv'
<1> USE ProgramCounters, NullAssumption, ModesAssumption DEF IInv, slotVars, workerVars, mainVars
<1>1. TypeOK'
  BY DEF ReadPipe, Unread, NoFin, TypeOK, ControlInv, Target, Items, NoItem
<1>2. LockInv'
  BY Zenon DEF ReadPipe, Unread, NoFin, LockInv
<1>3. ControlInv'
  BY Zenon DEF ReadPipe, Unread, NoFin, ControlInv, Target
<1>4. SlotInv'
  BY Zenon DEF ReadPipe, Unread, NoFin, SlotInv
<1>5. HandlerInv'
  BY Zenon DEF ReadPipe, Unread, NoFin, HandlerInv, Handling
<1>6. CandidateInv'
  BY Zenon DEF ReadPipe, Unread, NoFin, CandidateInv, Finished, Target
<1>7. PipeMatchesReturns'
  BY DEF ReadPipe, Unread, NoFin, TypeOK, ControlInv, PipeMatchesReturns
<1> QED BY Zenon, <1>1, <1>2, <1>3, <1>4, <1>5, <1>6, <1>7

\* A working thread enters a critical section.
LEMMA WorkerLockStep ==
  ASSUME IInv, NEW m \in Modes, WorkerLock(m)
  PROVE  IInv'
<1> USE ProgramCounters, NullAssumption, ModesAssumption DEF IInv, slotVars, workerVars, mainVars
<1>1. TypeOK'
  BY Zenon DEF WorkerLock, WorkerSections, CanLock, Inside, TypeOK
<1>2. LockInv'
  BY DEF WorkerLock, WorkerSections, CanLock, Inside, TypeOK, LockInv
<1>3. ControlInv'
  BY Zenon DEF WorkerLock, WorkerSections, CanLock, Inside, ControlInv, Target
<1>4. SlotInv'
  BY DEF WorkerLock, WorkerSections, CanLock, Inside, SlotInv
<1>5. HandlerInv'
  BY DEF WorkerLock, WorkerSections, CanLock, Inside, HandlerInv, Handling
<1>6. CandidateInv'
  BY Zenon DEF WorkerLock, WorkerSections, CanLock, Inside, CandidateInv, Finished, Target
<1>7. PipeMatchesReturns'
  BY DEF WorkerLock, WorkerSections, CanLock, Inside, PipeMatchesReturns
<1> QED BY Zenon, <1>1, <1>2, <1>3, <1>4, <1>5, <1>6, <1>7

\* A working thread takes the key of a posted job, or polls again.
LEMMA TakeInStep ==
  ASSUME IInv, NEW m \in Modes, TakeIn(m)
  PROVE  IInv'
<1> USE ProgramCounters, NullAssumption, ModesAssumption DEF IInv, slotVars, workerVars, mainVars
<1>1. TypeOK'
  BY DEF TakeIn, HasJob, TypeOK
<1>2. LockInv'
  BY DEF TakeIn, HasJob, TypeOK, LockInv
<1>3. ControlInv'
  BY Zenon DEF TakeIn, HasJob, ControlInv, Target
<1>4. SlotInv'
  BY DEF TakeIn, HasJob, TypeOK, ControlInv, SlotInv, Target
<1>5. HandlerInv'
  BY DEF TakeIn, HasJob, TypeOK, HandlerInv, Handling
<1>6. CandidateInv'
  BY Zenon DEF TakeIn, HasJob, CandidateInv, Finished, Target
<1>7. PipeMatchesReturns'
  BY DEF TakeIn, HasJob, TypeOK, PipeMatchesReturns
<1> QED BY Zenon, <1>1, <1>2, <1>3, <1>4, <1>5, <1>6, <1>7

\* The set thread reads the value to write.
LEMMA ValInStep ==
  ASSUME IInv, NEW m \in Modes, ValIn(m)
  PROVE  IInv'
<1> USE ProgramCounters, NullAssumption, ModesAssumption DEF IInv, slotVars, workerVars, mainVars
<1>1. TypeOK'
  BY Zenon DEF ValIn, TypeOK
<1>2. LockInv'
  BY DEF ValIn, TypeOK, LockInv
<1>3. ControlInv'
  BY Zenon DEF ValIn, ControlInv, Target
<1>4. SlotInv'
  BY DEF ValIn, SlotInv
<1>5. HandlerInv'
  BY DEF ValIn, HandlerInv, Handling
<1>6. CandidateInv'
  BY Zenon DEF ValIn, CandidateInv, Finished, Target
<1>7. PipeMatchesReturns'
  BY DEF ValIn, PipeMatchesReturns
<1> QED BY Zenon, <1>1, <1>2, <1>3, <1>4, <1>5, <1>6, <1>7

\* The database call changes the locals of its thread only.
LEMMA DbCallStep ==
  ASSUME IInv, NEW m \in Modes, DbCall(m)
  PROVE  IInv'
<1> USE ProgramCounters, NullAssumption, ModesAssumption DEF IInv, slotVars, workerVars, mainVars
<1>1. TypeOK'
  BY DEF DbCall, TypeOK
<1>2. LockInv'
  BY DEF DbCall, LockInv
<1>3. ControlInv'
  BY Zenon DEF DbCall, ControlInv, Target
<1>4. SlotInv'
  BY DEF DbCall, SlotInv
<1>5. HandlerInv'
  BY DEF DbCall, HandlerInv, Handling
<1>6. CandidateInv'
  BY Zenon DEF DbCall, CandidateInv, Finished, Target
<1>7. PipeMatchesReturns'
  BY DEF DbCall, PipeMatchesReturns
<1> QED BY Zenon, <1>1, <1>2, <1>3, <1>4, <1>5, <1>6, <1>7

\* The first store of a result: no handler of this mode is running on the slot.
LEMMA RetKeyInStep ==
  ASSUME IInv, NEW m \in Modes, RetKeyIn(m)
  PROVE  IInv'
<1> USE ProgramCounters, NullAssumption, ModesAssumption DEF IInv, slotVars, workerVars, mainVars
<1>1. TypeOK'
  BY ZenonT(60) DEF RetKeyIn, TypeOK
<1>2. LockInv'
  BY DEF RetKeyIn, LockInv
<1>3. ControlInv'
  BY Zenon DEF RetKeyIn, ControlInv, Target
<1>4. SlotInv'
  BY DEF RetKeyIn, TypeOK, ControlInv, SlotInv, Target
<1>5. HandlerInv'
  BY DEF RetKeyIn, HandlerInv, Handling
<1>6. CandidateInv'
  BY DEF RetKeyIn, TypeOK, ControlInv, SlotInv, CandidateInv, Finished, Target
<1>7. PipeMatchesReturns'
  BY DEF RetKeyIn, TypeOK, SlotInv, PipeMatchesReturns
<1> QED BY Zenon, <1>1, <1>2, <1>3, <1>4, <1>5, <1>6, <1>7

\* The second store of a result: from here on a byte stands for the job.
LEMMA RetResInStep ==
  ASSUME IInv, NEW m \in Modes, RetResIn(m)
  PROVE  IInv'
<1> USE ProgramCounters, NullAssumption, ModesAssumption DEF IInv, slotVars, workerVars, mainVars
<1>1. TypeOK'
  BY Zenon DEF RetResIn, TypeOK
<1>2. LockInv'
  BY DEF RetResIn, TypeOK, LockInv
<1>3. ControlInv'
  BY Zenon DEF RetResIn, ControlInv, Target
<1>4. SlotInv'
  BY DEF RetResIn, TypeOK, ControlInv, SlotInv, Target
<1>5. HandlerInv'
  BY DEF RetResIn, HandlerInv, Handling
<1>6. CandidateInv'
  BY Zenon DEF RetResIn, CandidateInv, Finished, Target
<1>7. PipeMatchesReturns'
  BY DEF RetResIn, TypeOK, SlotInv, PipeMatchesReturns
<1> QED BY Zenon, <1>1, <1>2, <1>3, <1>4, <1>5, <1>6, <1>7

\* The byte that stood to be written is in the pipe.
LEMMA WritePipeStep ==
  ASSUME IInv, NEW m \in Modes, WritePipe(m)
  PROVE  IInv'
<1> USE ProgramCounters, NullAssumption, ModesAssumption DEF IInv, slotVars, workerVars, mainVars
<1>1. TypeOK'
  BY DEF WritePipe, TypeOK
<1>2. LockInv'
  BY DEF WritePipe, LockInv
<1>3. ControlInv'
  BY Zenon DEF WritePipe, ControlInv, Target
<1>4. SlotInv'
  BY DEF WritePipe, SlotInv
<1>5. HandlerInv'
  BY DEF WritePipe, HandlerInv, Handling
<1>6. CandidateInv'
  BY Zenon DEF WritePipe, CandidateInv, Finished, Target
<1>7. PipeMatchesReturns'
  BY DEF WritePipe, TypeOK, PipeMatchesReturns
<1> QED BY Zenon, <1>1, <1>2, <1>3, <1>4, <1>5, <1>6, <1>7

\* A byte in the pipe means a returned job that its working thread is done with.
LEMMA HandlerStep ==
  ASSUME IInv, NEW m \in Modes, Handler(m)
  PROVE  IInv'
<1> USE ProgramCounters, NullAssumption, ModesAssumption DEF IInv, slotVars, workerVars, mainVars
<1>1. TypeOK'
  BY Zenon DEF Handler, TypeOK
<1>2. LockInv'
  BY Zenon DEF Handler, LockInv
<1>3. ControlInv'
  BY Zenon DEF Handler, ControlInv, Target
<1>4. SlotInv'
  BY Zenon DEF Handler, SlotInv
<1>5. HandlerInv'
  BY DEF Handler, TypeOK, LockInv, ControlInv, SlotInv, HandlerInv, Handling, Target,
     PipeMatchesReturns
<1>6. CandidateInv'
  BY DEF Handler, TypeOK, ControlInv, CandidateInv, Finished, Target
<1>7. PipeMatchesReturns'
  BY Zenon DEF Handler, PipeMatchesReturns
<1> QED BY Zenon, <1>1, <1>2, <1>3, <1>4, <1>5, <1>6, <1>7

\* A command arrives, in the event loop or in the resume loop of a handler.
LEMMA CommandStep ==
  ASSUME IInv, NEW m \in Modes, NEW i \in Items, Command(m, i)
  PROVE  IInv'
<1> USE ProgramCounters, NullAssumption, ModesAssumption DEF IInv, slotVars, workerVars, mainVars
<1>1. TypeOK'
  BY DEF Command, TypeOK
<1>2. LockInv'
  BY Zenon DEF Command, LockInv
<1>3. ControlInv'
  BY DEF Command, TypeOK, ControlInv, Target, Items, NoItem
<1>4. SlotInv'
  BY Zenon DEF Command, SlotInv
<1>5. HandlerInv'
  BY Zenon DEF Command, HandlerInv, Handling
<1>6. CandidateInv'
  BY DEF Command, TypeOK, ControlInv, CandidateInv, Finished, Target
<1>7. PipeMatchesReturns'
  BY Zenon DEF Command, PipeMatchesReturns
<1> QED BY Zenon, <1>1, <1>2, <1>3, <1>4, <1>5, <1>6, <1>7

\* Every step of the main thread and of the working threads preserves it.
LEMMA NextIInv == IInv /\ [Next]_vars => IInv'
<1> SUFFICES ASSUME IInv, [Next]_vars
             PROVE  IInv'
  BY Zenon
<1>1. CASE MainStep
  BY Zenon, <1>1, MainLockStep, PeekInStep, CheckInStep, PostInStep, FinInStep, ApplyStep,
     EndResumeStep,
     ClearInStep, ReadPipeStep DEF MainStep
<1>2. CASE \E m \in Modes : Handler(m) \/ WorkerStep(m)
  BY Zenon, <1>2, HandlerStep, WorkerLockStep, TakeInStep, ValInStep, DbCallStep, RetKeyInStep,
     RetResInStep, WritePipeStep DEF WorkerStep
<1>3. CASE \E m \in Modes, i \in Items : Command(m, i)
  BY Zenon, <1>3, CommandStep
<1>4. CASE UNCHANGED vars
  <2> USE <1>4 DEF IInv, vars, slotVars, workerVars, mainVars
  <2>1. TypeOK' /\ LockInv'
    BY ZenonT(60) DEF TypeOK, LockInv
  <2>2. ControlInv' /\ SlotInv'
    BY Zenon DEF ControlInv, SlotInv, Target
  <2>3. HandlerInv'
    BY Zenon DEF HandlerInv, Handling
  <2>4. CandidateInv'
    BY Zenon DEF CandidateInv, Finished, Target
  <2>5. PipeMatchesReturns'
    BY Zenon DEF PipeMatchesReturns
  <2> QED BY Zenon, <2>1, <2>2, <2>3, <2>4, <2>5
<1> QED BY Zenon, <1>1, <1>2, <1>3, <1>4 DEF Next

\* The hand-over between the main thread, the working threads and the pipes keeps
\* its invariant in every behaviour.
THEOREM Invariance == Spec => []IInv
BY InitIInv, NextIInv, PTL DEF Spec

-----------------------------------------------------------------------------
(* The safety properties. *)

\* getJob, setJob, delJob, the pipes and the threads' locals keep their types.
THEOREM TypeCorrectness == Spec => []TypeOK
<1>1. IInv => TypeOK
  BY Zenon DEF IInv
<1> QED BY <1>1, Invariance, PTL

\* No serverAssert() of the main thread in backend.c fails.
THEOREM MainAsserts == Spec => []MainAssertsHold
<1>1. IInv => MainAssertsHold
  BY NullAssumption
     DEF IInv, TypeOK, ControlInv, SlotInv, HandlerInv, Handling, CandidateInv, Finished,
     MainAssertsHold, Target, Items
<1> QED BY <1>1, Invariance, PTL

\* No serverAssert() of a working thread fails, and the key it passes to the
\* database is not freed under it.
THEOREM WorkerAsserts == Spec => []WorkerAssertsHold
<1>1. IInv => WorkerAssertsHold
  BY Zenon DEF IInv, SlotInv, WorkerAssertsHold
<1> QED BY <1>1, Invariance, PTL

\* The main thread never reads a half-written answer, nor one for another key.
THEOREM IntactAnswers == Spec => []AnswerIsIntact
<1>1. IInv => AnswerIsIntact
  BY NullAssumption, ModesAssumption
     DEF IInv, TypeOK, LockInv, ControlInv, SlotInv, HandlerInv, Handling,
     AnswerIsIntact, Reentry, Items, NoItem
<1> QED BY <1>1, Invariance, PTL

\* Each returned job has its byte in the pipe, and there are no other bytes.
THEOREM PipeAccounting == Spec => []PipeMatchesReturns
<1>1. IInv => PipeMatchesReturns
  BY Zenon DEF IInv
<1> QED BY <1>1, Invariance, PTL

\* When the event loop waits, every mode with candidates has a job for one.
THEOREM NoJobIsLost == Spec => []NoLostJob
<1>1. IInv => NoLostJob
  BY NullAssumption DEF IInv, TypeOK, ControlInv, CandidateInv, Finished, NoLostJob
<1> QED BY <1>1, Invariance, PTL

-----------------------------------------------------------------------------
(* JobSlot implements JobService. *)

\* MainLock leaves the service unchanged.
LEMMA MainLockRefines ==
  ASSUME IInv, MainLock
  PROVE  UNCHANGED Service!vars
BY SMTT(30), ProgramCounters, NullAssumption, ModesAssumption
   DEF IInv, slotVars, workerVars, mainVars,
   MainLock, MainSections, CanLock, Inside, TypeOK, Service!vars, Serving, Answered, Finished

\* A get that is no re-entry is a request.
LEMMA PeekInRefines ==
  ASSUME IInv, PeekIn
  PROVE  Service!Request(cmode, citem) \/ UNCHANGED Service!vars
BY ProgramCounters, NullAssumption, ModesAssumption DEF IInv, slotVars, workerVars, mainVars,
   PeekIn, AfterCommand, Reentry, TypeOK, Service!Request, Service!vars, Serving, Answered,
   Finished

\* CheckIn leaves the service unchanged.
LEMMA CheckInRefines ==
  ASSUME IInv, CheckIn
  PROVE  UNCHANGED Service!vars
BY ProgramCounters, NullAssumption, ModesAssumption DEF IInv, slotVars, workerVars, mainVars,
   CheckIn, AfterCommand, AllNull, Candidates, TypeOK, Service!vars, Serving, Answered, Finished

\* Posting a job is dispatching a request.
LEMMA PostInRefines ==
  ASSUME IInv, PostIn
  PROVE  Service!Dispatch(Target)
<1> USE NullAssumption
<1>1. mpc = "postIn" /\ returnKey' = returnKey /\ UNCHANGED <<cands, hmode, wpc>>
  BY Zenon DEF PostIn, workerVars
<1>2. ASSUME NEW m \in Modes, m # Target
      PROVE  key'[m] = key[m] /\ dbid'[m] = dbid[m] /\ result'[m] = result[m]
  BY Zenon, <1>2 DEF IInv, TypeOK, PostIn
<1>3. key'[Target] = pick[2] /\ dbid'[Target] = pick[1]
  BY Zenon, PostTarget, <1>1 DEF IInv, TypeOK, PostIn
<1>4. ASSUME NEW m \in Modes, m # Target
      PROVE  Finished(m)' <=> Finished(m)
  <2>1. CASE cmode # NULL
    BY Zenon, <1>1, <1>4, <2>1 DEF Finished, PostIn, AfterCommand
  <2>2. CASE cmode = NULL
    BY Zenon, <1>1, <1>4, <2>2 DEF Finished, Target
  <2> QED BY Zenon, <2>1, <2>2
<1>5. ASSUME NEW m \in Modes, m = Target
      PROVE  ~Finished(m) /\ ~Finished(m)'
  BY Zenon, <1>1, <1>5, PostTarget DEF Finished
<1>6. Serving[Target] = NoItem
  BY Zenon, <1>1, PostTarget DEF Serving
<1>7. Serving' = [Serving EXCEPT ![Target] = pick]
  <2>1. ASSUME NEW m \in Modes, m # Target
        PROVE  Serving'[m] = Serving[m]
    BY Zenon, <1>2, <1>4, <2>1 DEF Serving
  <2>2. ASSUME NEW m \in Modes, m = Target
        PROVE  Serving'[m] = pick
    BY Zenon, <1>1, <1>3, <1>5, <2>2, PostTarget DEF Serving
  <2> QED BY Zenon, <1>1, <2>1, <2>2, PostTarget DEF Serving
<1>8. Answered' = Answered
  BY Zenon, <1>1, <1>2, <1>4, PostTarget DEF Answered
<1>9. pick \in cands[Target]
  BY Zenon, <1>1 DEF IInv, ControlInv
<1> QED BY Zenon, <1>1, <1>6, <1>7, <1>8, <1>9 DEF Service!Dispatch

\* FinIn leaves the service unchanged.
LEMMA FinInRefines ==
  ASSUME IInv, FinIn
  PROVE  UNCHANGED Service!vars
BY ZenonT(60), ProgramCounters, NullAssumption, ModesAssumption
   DEF IInv, slotVars, workerVars, mainVars,
   FinIn, TypeOK, Service!vars, Serving, Answered, Finished

\* Removing the finished entry completes it.
LEMMA ApplyRefines ==
  ASSUME IInv, Apply
  PROVE  Service!Complete(hmode)
<1> USE NullAssumption
<1>1. /\ mpc = "apply" /\ mpc' = "resume" /\ hmode \in Modes
      /\ UNCHANGED <<hmode, key, dbid, returnKey, result, wpc>>
  BY Zenon DEF IInv, TypeOK, ControlInv, Apply, slotVars, workerVars
<1>2. /\ returnKey[hmode] # NULL /\ key[hmode] # NULL /\ wpc[hmode] # "retIn2"
      /\ fin.item = <<dbid[hmode], key[hmode]>>
  BY Zenon, <1>1 DEF IInv, HandlerInv, Handling, SlotInv
<1>3. Finished(hmode)' /\ \A m \in Modes : ~Finished(m) /\ (m # hmode => ~Finished(m)')
  BY Zenon, <1>1, <1>2 DEF Finished
<1>4. Serving[hmode] = fin.item /\ Answered[hmode] = <<result[hmode]>>
  BY Zenon, <1>1, <1>2, <1>3 DEF Serving, Answered
<1>5. Serving' = [Serving EXCEPT ![hmode] = NoItem]
  BY Zenon, <1>1, <1>2, <1>3 DEF Serving
<1>6. Answered' = [Answered EXCEPT ![hmode] = <<>>]
  BY Zenon, <1>1, <1>2, <1>3 DEF Answered
<1>7. cands' = [cands EXCEPT ![hmode] = @ \ {Serving[hmode]}]
  BY Zenon, <1>4 DEF Apply
<1> QED BY <1>4, <1>5, <1>6, <1>7 DEF Service!Complete

\* EndResume leaves the service unchanged.
LEMMA EndResumeRefines ==
  ASSUME IInv, EndResume
  PROVE  UNCHANGED Service!vars
BY ZenonT(60), ProgramCounters, NullAssumption, ModesAssumption
   DEF IInv, slotVars, workerVars, mainVars,
   EndResume, TypeOK, Service!vars, Serving, Answered, Finished

\* ClearIn leaves the service unchanged.
LEMMA ClearInRefines ==
  ASSUME IInv, ClearIn
  PROVE  UNCHANGED Service!vars
BY SMTT(30), ProgramCounters, NullAssumption, ModesAssumption
   DEF IInv, slotVars, workerVars, mainVars,
   ClearIn, Candidates, TypeOK, ControlInv, HandlerInv, Handling, Service!vars, Serving,
   Answered, Finished

\* ReadPipe leaves the service unchanged.
LEMMA ReadPipeRefines ==
  ASSUME IInv, ReadPipe
  PROVE  UNCHANGED Service!vars
BY ProgramCounters, NullAssumption, ModesAssumption DEF IInv, slotVars, workerVars, mainVars,
   ReadPipe, Unread, NoFin, TypeOK, Service!vars, Serving, Answered, Finished

\* WorkerLock leaves the service unchanged.
LEMMA WorkerLockRefines ==
  ASSUME IInv, NEW m \in Modes, WorkerLock(m)
  PROVE  UNCHANGED Service!vars
BY SMTT(30), ProgramCounters, NullAssumption, ModesAssumption
   DEF IInv, slotVars, workerVars, mainVars,
   WorkerLock, WorkerSections, CanLock, Inside, TypeOK, Service!vars, Serving, Answered,
   Finished

\* TakeIn leaves the service unchanged.
LEMMA TakeInRefines ==
  ASSUME IInv, NEW m \in Modes, TakeIn(m)
  PROVE  UNCHANGED Service!vars
BY ProgramCounters, NullAssumption, ModesAssumption DEF IInv, slotVars, workerVars, mainVars,
   TakeIn, HasJob, TypeOK, Service!vars, Serving, Answered, Finished

\* ValIn leaves the service unchanged.
LEMMA ValInRefines ==
  ASSUME IInv, NEW m \in Modes, ValIn(m)
  PROVE  UNCHANGED Service!vars
BY ZenonT(60), ProgramCounters, NullAssumption, ModesAssumption
   DEF IInv, slotVars, workerVars, mainVars,
   ValIn, TypeOK, Service!vars, Serving, Answered, Finished

\* DbCall leaves the service unchanged.
LEMMA DbCallRefines ==
  ASSUME IInv, NEW m \in Modes, DbCall(m)
  PROVE  UNCHANGED Service!vars
BY ZenonT(60), ProgramCounters, NullAssumption, ModesAssumption
   DEF IInv, slotVars, workerVars, mainVars,
   DbCall, TypeOK, Service!vars, Serving, Answered, Finished

\* RetKeyIn leaves the service unchanged.
LEMMA RetKeyInRefines ==
  ASSUME IInv, NEW m \in Modes, RetKeyIn(m)
  PROVE  UNCHANGED Service!vars
BY SMTT(30), ProgramCounters, NullAssumption, ModesAssumption
   DEF IInv, slotVars, workerVars, mainVars,
   RetKeyIn, TypeOK, ControlInv, SlotInv, HandlerInv, Handling, Target, Service!vars, Serving,
   Answered, Finished

\* The second store of the result is the answer.
LEMMA RetResInRefines ==
  ASSUME IInv, NEW m \in Modes, RetResIn(m)
  PROVE  Service!Answer(m)
<1> USE NullAssumption
<1>1. /\ wpc[m] = "retIn2" /\ wpc' = [wpc EXCEPT ![m] = "write"]
      /\ result' = [result EXCEPT ![m] = wres[m]]
      /\ UNCHANGED <<key, dbid, returnKey, cands, hmode, mpc>>
  BY Zenon DEF RetResIn, mainVars
<1>2. returnKey[m] # NULL /\ key[m] # NULL /\ dbid[m] # NULL
  BY Zenon, <1>1 DEF IInv, SlotInv
<1>3. ~Finished(m)
  BY Zenon, <1>1, <1>2 DEF IInv, ControlInv, HandlerInv, Handling, Finished, Target
<1>4. \A n \in Modes : Finished(n)' <=> Finished(n)
  BY Zenon, <1>1 DEF Finished
<1>5. Serving' = Serving
  BY Zenon, <1>1, <1>4 DEF Serving
<1>6. Serving[m] # NoItem /\ Answered[m] = <<>>
  BY Zenon, <1>1, <1>2, <1>3 DEF Serving, Answered, NoItem
<1>7. Answered' = [Answered EXCEPT ![m] = <<wres[m]>>]
  BY Zenon, <1>1, <1>2, <1>3, <1>4 DEF IInv, TypeOK, Answered
<1>8. wres[m] \in Results \union {NULL}
  BY Zenon DEF IInv, TypeOK
<1> QED BY Zenon, <1>1, <1>5, <1>6, <1>7, <1>8 DEF Service!Answer

\* WritePipe leaves the service unchanged.
LEMMA WritePipeRefines ==
  ASSUME IInv, NEW m \in Modes, WritePipe(m)
  PROVE  UNCHANGED Service!vars
BY ZenonT(60), ProgramCounters, NullAssumption, ModesAssumption
   DEF IInv, slotVars, workerVars, mainVars,
   WritePipe, TypeOK, Service!vars, Serving, Answered, Finished

\* Handler leaves the service unchanged.
LEMMA HandlerRefines ==
  ASSUME IInv, NEW m \in Modes, Handler(m)
  PROVE  UNCHANGED Service!vars
BY ProgramCounters, NullAssumption, ModesAssumption DEF IInv, slotVars, workerVars, mainVars,
   Handler, TypeOK, ControlInv, HandlerInv, Handling, Service!vars, Serving, Answered, Finished

\* A set or del is a request at once; a get is tested for re-entry first.
LEMMA CommandRefines ==
  ASSUME IInv, NEW m \in Modes, NEW i \in Items, Command(m, i)
  PROVE  Service!Request(m, i) \/ UNCHANGED Service!vars
BY ProgramCounters, NullAssumption, ModesAssumption DEF IInv, slotVars, workerVars, mainVars,
   Command, TypeOK, Service!Request, Service!vars, Serving, Answered, Finished

\* Every step of JobSlot is a step of JobService, or leaves it unchanged.
LEMMA NextRefines == IInv /\ [Next]_vars => [Service!Next]_(Service!vars)
<1> SUFFICES ASSUME IInv, [Next]_vars
             PROVE  Service!Next \/ UNCHANGED Service!vars
  BY Zenon
<1>1. CASE MainStep
  <2>1. CASE PeekIn
    <3>1. cmode \in Modes /\ citem \in Items
      BY Zenon, <2>1 DEF IInv, TypeOK, ControlInv, PeekIn
    <3> QED BY Zenon, <2>1, <3>1, PeekInRefines DEF Service!Next
  <2>2. CASE PostIn
    <3>1. Target \in Modes
      BY Zenon, <2>2, PostTarget DEF PostIn
    <3> QED BY Zenon, <2>2, <3>1, PostInRefines DEF Service!Next, Service!Serve
  <2>3. CASE Apply
    <3>1. hmode \in Modes
      BY Zenon, <2>3 DEF IInv, TypeOK, ControlInv, Apply
    <3> QED BY Zenon, <2>3, <3>1, ApplyRefines DEF Service!Next, Service!Serve
  <2> QED BY Zenon, <1>1, <2>1, <2>2, <2>3, MainLockRefines, CheckInRefines, FinInRefines,
             EndResumeRefines,
             ClearInRefines, ReadPipeRefines DEF MainStep
<1>2. CASE \E m \in Modes : Handler(m) \/ WorkerStep(m)
  <2>1. PICK m \in Modes : Handler(m) \/ WorkerStep(m)
    BY Zenon, <1>2
  <2>2. CASE RetResIn(m)
    BY Zenon, <2>2, RetResInRefines DEF Service!Next, Service!Serve
  <2> QED BY Zenon, <2>1, <2>2, HandlerRefines, WorkerLockRefines, TakeInRefines, ValInRefines,
             DbCallRefines,
             RetKeyInRefines, WritePipeRefines DEF WorkerStep
<1>3. CASE \E m \in Modes, i \in Items : Command(m, i)
  BY Zenon, <1>3, CommandRefines DEF Service!Next
<1>4. CASE UNCHANGED vars
  BY Zenon, <1>4 DEF vars, slotVars, workerVars, mainVars, Service!vars, Serving, Answered, Finished
<1> QED BY Zenon, <1>1, <1>2, <1>3, <1>4 DEF Next

\* The slots, the spinlock, the pipes and the handlers of backend.c implement the
\* service that asks the database for one requested item at a time.
THEOREM Refinement == Spec => ImplementsService
<1>1. Init => Service!Init
  BY ZenonT(60) DEF Init, Service!Init, Serving, Answered
<1> QED BY <1>1, NextRefines, Invariance, PTL DEF Spec, ImplementsService, Service!Spec
=============================================================================
