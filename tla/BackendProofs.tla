--------------------------- MODULE BackendProofs ----------------------------
(***************************************************************************)
(* Proofs about Backend: who is resumed, what clients are answered, and that *)
(* it implements JobService.                                               *)
(***************************************************************************)
EXTENDS BackendInvariant, FiniteSetTheorems

-----------------------------------------------------------------------------
(* The registrations. *)

\* A list without duplicates has a client once or not at all.
LEMMA CountFacts ==
  ASSUME NEW s, IsInjective(s), NEW c
  PROVE  Cardinality({i \in DOMAIN s : s[i] = c}) = IF c \in Range(s) THEN 1 ELSE 0
<1> DEFINE N == {i \in DOMAIN s : s[i] = c}
<1>1. CASE c \in Range(s)
  <2>1. PICK i \in DOMAIN s : s[i] = c
    BY Zenon, <1>1 DEF Range
  <2>2. N = {i}
    BY Zenon, <2>1 DEF IsInjective
  <2>3. Cardinality({i}) = 1
    BY Zenon, FS_Singleton
  <2> QED BY Zenon, <1>1, <2>2, <2>3
<1>2. CASE c \notin Range(s)
  <2>1. N = {}
    BY Zenon, <1>2 DEF Range
  <2> QED BY Zenon, <1>2, <2>1, FS_EmptySet
<1> QED BY Zenon, <1>1, <1>2

\* In which entries a client is listed, and how often it is to be resumed.
LEMMA RegistrationFacts ==
  ASSUME IInv, NEW c \in Clients
  PROVE  /\ \A m \in Modes, p \in Items :
              <<m, p>> \in Registrations(c).dict <=>
                cands[m][p] # NULL /\ c \in Range(cands[m][p].clients)
         /\ \A x \in Registrations(c).dict :
              x[1] \in Modes /\ x[2] \in Items /\ x = <<x[1], x[2]>>
         /\ Registrations(c).once
         /\ Registrations(c).copies = IF c \in Range(todo) THEN 1 ELSE 0
<1> DEFINE slots == {x \in Modes \X Items :
                       cands[x[1]][x[2]] # NULL /\ c \in Range(cands[x[1]][x[2]].clients)}
           once == \A x \in slots : Cardinality({i \in DOMAIN cands[x[1]][x[2]].clients :
                                                   cands[x[1]][x[2]].clients[i] = c}) = 1
           copies == Cardinality({i \in DOMAIN todo : todo[i] = c})
<1>1. Registrations(c).dict = slots /\ Registrations(c).once = once
      /\ Registrations(c).copies = copies
  BY Zenon DEF Registrations
<1>2. copies = IF c \in Range(todo) THEN 1 ELSE 0
  BY Zenon, CountFacts DEF IInv, CopiedWaits
<1>3. once
  <2> SUFFICES ASSUME NEW x \in slots
               PROVE  Cardinality({i \in DOMAIN cands[x[1]][x[2]].clients :
                                     cands[x[1]][x[2]].clients[i] = c}) = 1
    BY Zenon
  <2> DEFINE s == cands[x[1]][x[2]].clients
  <2>1. x[1] \in Modes /\ x[2] \in Items /\ cands[x[1]][x[2]] # NULL /\ c \in Range(s)
    BY Zenon
  <2>2. IsInjective(s)
    BY Zenon, <2>1 DEF IInv, ListedWaits
  <2> HIDE DEF s, slots
  <2>3. Cardinality({i \in DOMAIN s : s[i] = c}) = 1
    BY Zenon, <2>1, <2>2, CountFacts
  <2> QED BY Zenon, <2>3 DEF s
<1>4. \A m \in Modes, p \in Items :
        <<m, p>> \in slots <=> cands[m][p] # NULL /\ c \in Range(cands[m][p].clients)
  BY Zenon
<1>5. \A x \in slots : x[1] \in Modes /\ x[2] \in Items /\ x = <<x[1], x[2]>>
  OBVIOUS
<1> HIDE DEF slots, once, copies
<1> QED BY Zenon, <1>1, <1>2, <1>3, <1>4, <1>5

\* The invariant leaves a client one place at most.
LEMMA RegisteredOnce == IInv => WaitersRegisteredOnce
<1> SUFFICES ASSUME IInv, NEW c \in connected
             PROVE  LET r == Registrations(c) IN
                    IF state[c] # NULL
                    THEN \/ /\ r.dict = {<<state[c], Item(argv[c])>>} /\ r.once
                            /\ r.copies = 0
                         \/ r.dict = {} /\ r.copies = 1 /\ hmode = state[c]
                    ELSE r.dict = {} /\ r.copies = 0
  BY Zenon DEF WaitersRegisteredOnce
<1> DEFINE r == Registrations(c)
<1>0. c \in Clients /\ TypeOK
  BY Zenon DEF IInv, TypeOK
<1>1. /\ \A m \in Modes, p \in Items :
           <<m, p>> \in r.dict <=> cands[m][p] # NULL /\ c \in Range(cands[m][p].clients)
      /\ \A x \in r.dict : x[1] \in Modes /\ x[2] \in Items /\ x = <<x[1], x[2]>>
      /\ r.once
      /\ r.copies = IF c \in Range(todo) THEN 1 ELSE 0
  BY Zenon, <1>0, RegistrationFacts
<1> HIDE DEF r
<1>2. \A x \in r.dict : x = <<state[c], Item(argv[c])>> /\ state[c] # NULL
  <2> SUFFICES ASSUME NEW x \in r.dict
               PROVE  x = <<state[c], Item(argv[c])>> /\ state[c] # NULL
    BY Zenon
  <2> DEFINE m == x[1]
             p == x[2]
  <2>1. m \in Modes /\ p \in Items /\ x = <<m, p>>
    BY Zenon, <1>1
  <2> HIDE DEF m, p
  <2>2. cands[m][p] # NULL /\ c \in Range(cands[m][p].clients)
    BY Zenon, <1>1, <2>1
  <2>3. state[c] = m /\ Item(argv[c]) = p
    BY Zenon, <2>1, <2>2 DEF IInv, ListedWaits
  <2> QED BY Zenon, <2>1, <2>3, NullFacts
<1>3. c \in Range(todo) => r.dict = {} /\ state[c] # NULL /\ hmode = state[c]
  <2> SUFFICES ASSUME c \in Range(todo)
               PROVE  r.dict = {} /\ state[c] # NULL /\ hmode = state[c]
    BY Zenon
  <2>1. todo # <<>> /\ state[c] = hmode
    BY Zenon, EmptyList DEF IInv, CopiedWaits
  <2>2. hmode # NULL
    BY Zenon, <2>1 DEF IInv, MainInv
  <2>3. \A m \in Modes, p \in Items : <<m, p>> \notin r.dict
    BY Zenon, <1>1 DEF IInv, CopiedWaits
  <2>4. r.dict = {}
    BY <1>1, <2>3
  <2> QED BY Zenon, <2>1, <2>2, <2>4
<1>4. ASSUME state[c] # NULL, c \notin Range(todo)
      PROVE  <<state[c], Item(argv[c])>> \in r.dict
  <2>1. /\ argv[c] # NULL /\ cands[state[c]][Item(argv[c])] # NULL
        /\ c \in Range(cands[state[c]][Item(argv[c])].clients)
    BY Zenon, <1>0, <1>4 DEF IInv, WaitsListed
  <2>2. state[c] \in Modes /\ argv[c] \in workload.commands
    BY Zenon, <1>0, <1>4, <2>1 DEF TypeOK
  <2>3. Item(argv[c]) \in Items
    BY Zenon, <1>0, <2>2, WorkloadFacts
  <2> QED BY Zenon, <1>1, <2>1, <2>2, <2>3
<1>5. CASE c \in Range(todo)
  BY Zenon, <1>1, <1>3, <1>5 DEF r
<1>6. CASE c \notin Range(todo) /\ state[c] = NULL
  <2>1. r.dict = {}
    BY Zenon, <1>2, <1>6
  <2> QED BY Zenon, <1>1, <1>6, <2>1 DEF r
<1>7. CASE c \notin Range(todo) /\ state[c] # NULL
  <2>1. r.dict = {<<state[c], Item(argv[c])>>}
    BY Zenon, <1>2, <1>4, <1>7
  <2> QED BY Zenon, <1>1, <1>7, <2>1 DEF r
<1> QED BY Zenon, <1>5, <1>6, <1>7

\* A client whose command waits for the database is registered exactly once, where its mode
\* and its key say, or with the handler that resumes it; one that does not wait is
\* registered nowhere.
THEOREM WaitersRegisteredOnceHolds == Spec => []WaitersRegisteredOnce
<1> QED BY Invariant, RegisteredOnce, PTL

\* A client that is gone is in no list, and with the commands given not to be resumed.
LEMMA ForgottenWhenGone == IInv => DisconnectedForgotten
<1> SUFFICES ASSUME IInv, Only({"get", "set", "del"}), NEW c \in Clients, c \notin connected
             PROVE  Registrations(c).dict = {} /\ Registrations(c).copies = 0
  BY Zenon DEF DisconnectedForgotten, FreedClientForgotten
<1> DEFINE r == Registrations(c)
<1>1. /\ \A m \in Modes, p \in Items :
           <<m, p>> \in r.dict <=> cands[m][p] # NULL /\ c \in Range(cands[m][p].clients)
      /\ \A x \in r.dict : x[1] \in Modes /\ x[2] \in Items /\ x = <<x[1], x[2]>>
      /\ r.copies = IF c \in Range(todo) THEN 1 ELSE 0
  BY Zenon, RegistrationFacts
<1> HIDE DEF r
<1>2. c \notin Range(todo)
  BY Zenon DEF IInv, CopiedWaits
<1>3. ASSUME NEW m \in Modes, NEW p \in Items, <<m, p>> \in r.dict
      PROVE  FALSE
  <2>1. state[c] = m
    BY <1>1, <1>3 DEF IInv, ListedWaits
  <2> QED BY Zenon, <2>1, NullFacts DEF IInv, WaitsListed
<1>4. r.dict = {}
  BY <1>1, <1>3
<1> QED BY Zenon, <1>1, <1>2, <1>4 DEF r

\* While no client is killed by another one, releaseWhenFreeClient leaves no pointer to a
\* client that is gone.
THEOREM DisconnectedForgottenHolds == Spec => []DisconnectedForgotten
<1> QED BY Invariant, ForgottenWhenGone, PTL

\* Outside of its handler a mode that has candidates has a job for one of them, and every
\* job has its candidate.
THEOREM JobHasCandidateHolds == Spec => []JobHasCandidate
<1>1. IInv => JobHasCandidate
  BY Zenon DEF IInv
<1> QED BY <1>1, Invariant, PTL

-----------------------------------------------------------------------------
(* Answers, failures and assertions. *)

\* setGenericCommand and delGenericCommand see the failure flags before they write.
LEMMA ResumeFailed ==
  ASSUME IInv, Resume, out'.via = "failed", out'.cmd.name # "get"
  PROVE  cache' = cache
<1> DEFINE c == Head(todo)
           failed == job[hmode].res = NULL
           set == setReply[c] \/ (hmode = "set" /\ failed)
           del == FailedDel(c, failed)
           o == Exec(argv[c], cache, set, del)
<1>1. /\ hmode \in Modes /\ argv[c].name \in ModeNames(hmode)
      /\ cache' = o.cache
      /\ out' = [cmd |-> argv[c], via |-> IF failed THEN "failed" ELSE "done",
                 reply |-> o.reply]
  BY Zenon, ResumeFacts
<1>2. failed /\ argv[c].name # "get"
  BY Zenon, <1>1
<1>3. CASE hmode = "set"
  <2>1. argv[c].name \in SetCommands /\ set = TRUE
    BY Zenon, <1>1, <1>2, <1>3 DEF ModeNames
  <2> HIDE DEF set, del, c
  <2>2. o = ExecSet(argv[c], cache, TRUE, del)
    BY Zenon, <2>1 DEF Exec, SetCommands
  <2>3. ExecSet(argv[c], cache, TRUE, del).cache = cache
    BY Zenon DEF ExecSet, Outcome
  <2> QED BY Zenon, <1>1, <2>2, <2>3
<1>4. CASE hmode = "del"
  <2>1. argv[c].name = "del" /\ del = TRUE
    BY Zenon, <1>1, <1>2, <1>4 DEF ModeNames, FailedDel
  <2> HIDE DEF set, del, c
  <2>2. o = ExecDel(argv[c], cache, set, TRUE)
    BY Zenon, <2>1 DEF Exec, SetCommands
  <2>3. ExecDel(argv[c], cache, set, TRUE).cache = cache
    BY Zenon DEF ExecDel, Outcome
  <2> QED BY Zenon, <1>1, <2>2, <2>3
<1>5. hmode # "get"
  BY Zenon, <1>1, <1>2 DEF ModeNames
<1> QED BY Zenon, <1>1, <1>3, <1>4, <1>5 DEF Modes

\* When a waiting set or del is told that its database statement failed, resuming it changes
\* nothing in the cache.
THEOREM FailureChangesNothingHolds == Spec => FailureChangesNothing
<1>1. IInv /\ [Next]_vars =>
        [out'.via = "failed" /\ out'.cmd.name # "get" => cache' = cache]_vars
  <2> SUFFICES ASSUME IInv, Running(ServerStep), out'.via = "failed", out'.cmd.name # "get"
               PROVE  cache' = cache
    BY Zenon DEF Next, Stopped
  <2> QED BY Zenon, OutStep, ResumeFailed, NullFacts
<1> QED BY <1>1, Invariant, PTL DEF Spec, FailureChangesNothing

\* A well-formed command leaves no failure flag of set behind, and a set that has none on
\* entry is acknowledged.
LEMMA PlainExec ==
  ASSUME NEW cmd, WellFormed(cmd), cmd.name \in {"get", "set", "del"},
         NEW ch, NEW set \in BOOLEAN, set => cmd.name = "set", NEW del
  PROVE  /\ ~Exec(cmd, ch, set, del).setReply
         /\ cmd.name = "set" /\ ~set => Exec(cmd, ch, set, del).reply = <<"ok">>
<1>1. CASE cmd.name = "get"
  BY Zenon, <1>1 DEF Exec, SetCommands, ExecGet, Outcome
<1>2. CASE cmd.name = "del"
  BY Zenon, <1>2 DEF Exec, SetCommands, ExecDel, Outcome
<1>3. CASE cmd.name = "set"
  <2>1. Exec(cmd, ch, set, del) = ExecSet(cmd, ch, set, del)
    BY Zenon, <1>3 DEF Exec, SetCommands
  <2>2. ~SyntaxError(cmd) /\ "nx" \notin cmd.opts /\ "xx" \notin cmd.opts /\ ~BadExpire(cmd)
    BY Zenon DEF WellFormed
  <2>3. CASE set
    <3>1. ExecSet(cmd, ch, set, del) = Outcome(ch, <<"nil">>, SetReplyConsumed, del)
      BY Zenon, <2>2, <2>3 DEF ExecSet
    <3>2. ExecSet(cmd, ch, set, del).setReply = FALSE
      BY <3>1 DEF Outcome, SetReplyConsumed
    <3> QED BY Zenon, <2>1, <2>3, <3>2
  <2>4. CASE ~set
    <3>1. set = FALSE
      BY Zenon, <2>4
    <3>2. /\ ExecSet(cmd, ch, FALSE, del).setReply = FALSE
          /\ ExecSet(cmd, ch, FALSE, del).reply = <<"ok">>
      BY Zenon, <1>3, <2>2 DEF ExecSet, Outcome
    <3>3. Exec(cmd, ch, set, del) = ExecSet(cmd, ch, FALSE, del)
      BY Zenon, <2>1, <3>1
    <3> QED BY Zenon, <3>2, <3>3
  <2> QED BY Zenon, <2>3, <2>4
<1> QED BY Zenon, <1>1, <1>2, <1>3

\* The flags: who is resumed after a failure has consumed its own.
LEMMA FlagStep ==
  ASSUME IInv, FlagInv, Running(ServerStep)
  PROVE  FlagInv' /\ SuccessIsAcknowledged'
<1>0. /\ UNCHANGED workload /\ TypeOK
      /\ Plain' => Plain /\ (\A c \in Clients : ~setReply[c])
                   /\ \A cmd \in workload.commands :
                        WellFormed(cmd) /\ cmd.name \in {"get", "set", "del"}
  BY Zenon DEF Running, Plain, Only, WellFormed, SyntaxError, BadExpire, FlagInv, IInv
<1>1. CASE Resume
  <2> DEFINE c == Head(todo)
             failed == job[hmode].res = NULL
             set == setReply[c] \/ (hmode = "set" /\ failed)
             o == Exec(argv[c], cache, set, FailedDel(c, failed))
  <2>1. /\ hmode \in Modes /\ c \in Clients
        /\ argv[c] \in workload.commands /\ argv[c].name \in ModeNames(hmode)
        /\ setReply' = [setReply EXCEPT ![c] = o.setReply]
        /\ out' = [cmd |-> argv[c], via |-> IF failed THEN "failed" ELSE "done",
                   reply |-> o.reply]
    BY Zenon, <1>1, ResumeFacts
  <2>2. ASSUME Plain'
        PROVE  /\ ~o.setReply
               /\ argv[c].name = "set" /\ ~set => o.reply = <<"ok">>
    <3>1. set \in BOOLEAN /\ (set => argv[c].name = "set")
      BY Zenon, <1>0, <2>1, <2>2 DEF ModeNames, SetCommands
    <3>2. WellFormed(argv[c]) /\ argv[c].name \in {"get", "set", "del"}
      BY Zenon, <1>0, <2>1, <2>2
    <3> HIDE DEF c, failed, set
    <3> QED BY Zenon, <3>1, <3>2, PlainExec
  <2>3. FlagInv'
    BY Zenon, <1>0, <2>1, <2>2 DEF FlagInv, TypeOK
  <2>4. SuccessIsAcknowledged'
    <3> SUFFICES ASSUME Plain', out'.via = "done", out'.cmd.name = "set"
                 PROVE  out'.reply = <<"ok">>
      BY Zenon DEF SuccessIsAcknowledged
    <3>1. ~failed /\ argv[c].name = "set" /\ out'.reply = o.reply
      BY Zenon, <2>1
    <3>2. ~set
      BY Zenon, <1>0, <2>1, <3>1
    <3> QED BY Zenon, <2>2, <3>1, <3>2
  <2> QED BY Zenon, <2>3, <2>4
<1>2. ASSUME ~Resume
      PROVE  SuccessIsAcknowledged'
  BY Zenon, <1>2, OutStep, NullFacts DEF SuccessIsAcknowledged
<1>3. ASSUME NEW cmd \in workload.commands, cur # NULL,
             setReply' = [setReply EXCEPT ![cur] =
                            Exec(cmd, LookedUp(cmd), setReply[cur], delReply[cur]).setReply]
      PROVE  FlagInv'
  <2> SUFFICES ASSUME Plain'
               PROVE  \A c \in Clients : ~setReply'[c]
    BY Zenon DEF FlagInv
  <2>1. cur \in Clients /\ ~setReply[cur] /\ setReply[cur] \in BOOLEAN
    BY Zenon, <1>0, <1>3 DEF TypeOK
  <2>2. ~Exec(cmd, LookedUp(cmd), setReply[cur], delReply[cur]).setReply
    BY Zenon, <1>0, <2>1, PlainExec
  <2> QED BY Zenon, <1>0, <1>3, <2>2 DEF TypeOK
<1>4. ASSUME NEW c \in Clients, FreeClient(c)
      PROVE  FlagInv'
  <2>1. setReply' = [setReply EXCEPT ![c] = FALSE]
    BY Zenon, <1>4 DEF FreeClient
  <2> QED BY Zenon, <1>0, <2>1 DEF FlagInv, TypeOK
<1>5. ASSUME UNCHANGED setReply
      PROVE  FlagInv'
  BY Zenon, <1>0, <1>5 DEF FlagInv
<1>6. ASSUME NEW c \in Clients, ReadQuery(c) \/ Disconnect(c) \/ Connect(c)
      PROVE  FlagInv'
  <2>1. Disconnect(c) => FreeClient(c)
    BY Zenon DEF Disconnect
  <2>2. ReadQuery(c) \/ Connect(c) => UNCHANGED setReply
    BY Zenon DEF ReadQuery, Connect, clientVars
  <2> QED BY Zenon, <1>4, <1>5, <1>6, <2>1, <2>2
<1>7. ASSUME EndInput \/ ResumeFreed \/ Finish
      PROVE  FlagInv'
  <2>1. UNCHANGED setReply
    BY Zenon, <1>7 DEF EndInput, ResumeFreed, Finish, clientVars
  <2> QED BY Zenon, <1>5, <2>1
<1>8. ASSUME NEW cmd \in workload.commands,
             Enqueue(cmd) \/ RunDirectly(cmd) \/ CheckFails(cmd) \/ Kill(cmd)
      PROVE  FlagInv'
  <2>1. CASE Enqueue(cmd)
    <3>1. cur # NULL /\ \/ UNCHANGED setReply
                        \/ Call(cur, cmd, LookedUp(cmd), setReply[cur], delReply[cur], NULL)
      BY Zenon, <2>1 DEF Enqueue
    <3> QED BY Zenon, <1>3, <1>5, <3>1 DEF Call
  <2>2. CASE RunDirectly(cmd)
    <3>1. cur # NULL /\ Call(cur, cmd, LookedUp(cmd), setReply[cur], delReply[cur], NULL)
      BY Zenon, <2>2 DEF RunDirectly
    <3> QED BY Zenon, <1>3, <3>1 DEF Call
  <2>3. CASE CheckFails(cmd)
    <3>1. UNCHANGED setReply
      BY Zenon, <2>3 DEF CheckFails, clientVars
    <3> QED BY Zenon, <1>5, <3>1
  <2>4. CASE Kill(cmd)
    <3>1. cmd.victim \in Clients /\ FreeClient(cmd.victim)
      BY Zenon, <1>0, <2>4 DEF Kill, TypeOK
    <3> QED BY Zenon, <1>4, <3>1
  <2> QED BY Zenon, <1>8, <2>1, <2>2, <2>3, <2>4
<1>9. ASSUME NEW cfg \in workload.configs, ConfigSet(cfg)
      PROVE  FlagInv'
  BY Zenon, <1>5, <1>9 DEF ConfigSet, clientVars
<1>10. ASSUME NEW m \in Modes, Handle(m) \/ WorkerStep(m)
       PROVE  FlagInv'
  <2>1. UNCHANGED setReply
    <3>1. CASE Handle(m)
      BY Zenon, <3>1 DEF Handle, clientVars
    <3>2. CASE DbCall(m)
      BY Zenon, <3>2 DEF DbCall, clientVars
    <3>3. CASE Return(m)
      BY Zenon, <3>3 DEF Return, clientVars
    <3> QED BY Zenon, <1>10, <3>1, <3>2, <3>3 DEF WorkerStep
  <2> QED BY Zenon, <1>5, <2>1
<1>11. ASSUME NEW p \in Items, TtlElapses(p)
       PROVE  FlagInv'
  BY Zenon, <1>5, <1>11 DEF TtlElapses, clientVars
<1>12. Resume \/ FlagInv'
  BY Zenon, <1>6, <1>7, <1>8, <1>9, <1>10, <1>11 DEF Running, ServerStep
<1> QED BY Zenon, <1>1, <1>2, <1>12

\* While commands are well-formed, a set whose database write succeeded is answered OK: the
\* flag of an earlier failure has been consumed.
THEOREM SuccessIsAcknowledgedHolds == Spec => []SuccessIsAcknowledged
<1> DEFINE J == FlagInv /\ SuccessIsAcknowledged
<1>1. Init => J
  <2> SUFFICES ASSUME Init PROVE J
    BY Zenon
  <2>1. FlagInv
    BY Zenon DEF Init, FlagInv
  <2>2. out = NoOut /\ NoOut.via = NULL
    BY Zenon DEF Init, NoOut
  <2> QED BY Zenon, <2>1, <2>2, NullFacts DEF SuccessIsAcknowledged
<1>2. IInv /\ J /\ [Next]_vars => J'
  <2>1. CASE UNCHANGED vars
    BY Zenon, <2>1
       DEF vars, clientVars, FlagInv, SuccessIsAcknowledged, Plain, Only, WellFormed, SyntaxError,
           BadExpire
  <2>2. CASE Running(ServerStep)
    BY Zenon, <2>2, FlagStep
  <2> QED BY Zenon, <2>1, <2>2 DEF Next, Stopped
<1> QED BY <1>1, <1>2, Invariant, PTL DEF Spec

-----------------------------------------------------------------------------
(* Gets alone. *)

\* The configurations in which a get must answer what the database has.
GetsOnly == Only({"get"}) /\ DatabaseWorks /\ AlwaysWaits /\ ~workload.getTtl

\* What GetInv says then, and what the configuration is.
LEMMA GetFacts ==
  ASSUME IInv, GetInv, GetsOnly
  PROVE  /\ job["set"] = Idle /\ job["del"] = Idle /\ hmode \in {NULL, "get"}
         /\ \A p \in Items : cache[p] # NULL => cache[p].ttl = "none" /\ cache[p].val = database[p[2]]
         /\ job["get"].phase \in {"called", "returned"} =>
              job["get"].res = database[job["get"].item[2]]
         /\ hmode = "get" /\ job["get"].res # NULL => cache[job["get"].item] # NULL
         /\ \A cmd \in workload.commands : cmd.name = "get"
         /\ \A m \in Modes : job[m] # Idle => m = "get"
         /\ TypeOK /\ "get" \in Modes /\ Idle.phase = "idle"
         /\ config.db = "sql" /\ config.stmts = Modes /\ config.sync = Modes
         /\ workload.failures = {} /\ workload.getTtl = FALSE
<1>1. TypeOK /\ "get" \in Modes /\ Idle.phase = "idle" /\ config \in workload.configs
  BY Zenon, NullFacts, JobFacts DEF IInv, TypeOK
<1>2. /\ config.db = "sql" /\ config.stmts = Modes /\ config.sync = Modes
      /\ workload.failures = {} /\ \A cmd \in workload.commands : cmd.name = "get"
  BY Zenon, <1>1 DEF GetsOnly, DatabaseWorks, AlwaysWaits, Only
<1>3. workload.getTtl = FALSE
  BY Zenon, <1>1, WorkloadFacts DEF GetsOnly
<1>4. /\ job["set"] = Idle /\ job["del"] = Idle /\ hmode \in {NULL, "get"}
      /\ \A p \in Items : cache[p] # NULL => cache[p].ttl = "none" /\ cache[p].val = database[p[2]]
      /\ job["get"].phase \in {"called", "returned"} =>
           job["get"].res = database[job["get"].item[2]]
      /\ hmode = "get" /\ job["get"].res # NULL => cache[job["get"].item] # NULL
  BY Zenon DEF GetInv, GetsOnly
<1>5. \A m \in Modes : job[m] # Idle => m = "get"
  BY Zenon, <1>4 DEF Modes
<1> QED BY Zenon, <1>1, <1>2, <1>3, <1>4, <1>5

\* The steps that touch neither the cache nor the rows nor the jobs.
LEMMA GetFrame ==
  ASSUME GetInv, UNCHANGED <<workload, cache, database, job, hmode>>
  PROVE  GetInv'
BY Zenon DEF GetInv, Only, DatabaseWorks, AlwaysWaits

\* Lookups change nothing, since nothing expires, and a get tells what is there.
LEMMA GetLooksUp ==
  ASSUME IInv, GetInv, GetsOnly, NEW cmd \in workload.commands, NEW set, NEW del
  PROVE  /\ LookedUp(cmd) = cache
         /\ Exec(cmd, cache, set, del).cache = cache
         /\ Exec(cmd, cache, set, del).reply =
              IF cache[Item(cmd)] = NULL THEN <<"nil">> ELSE <<"bulk", database[cmd.key]>>
<1> DEFINE p == Item(cmd)
<1>1. cache \in CacheMaps /\ p \in Items /\ cmd.name = "get" /\ p[2] = cmd.key
  BY Zenon, GetFacts, WorkloadFacts DEF TypeOK, CacheMaps, Item
<1>2. /\ cache[p] # NULL => Live(cache, p) /\ cache[p].val = database[p[2]]
      /\ cache[p] = NULL => ~Live(cache, p)
  BY Zenon, <1>1, GetFacts DEF Live
<1>3. Expire(cache, p) = cache
  BY Zenon, <1>1, <1>2 DEF Expire, CacheMaps
<1>4. LookedUp(cmd) = cache
  BY Zenon, <1>3 DEF LookedUp
<1>5. Exec(cmd, cache, set, del) = ExecGet(cmd, cache, set, del)
  BY Zenon, <1>1 DEF Exec, SetCommands
<1>6. ExecGet(cmd, cache, set, del).cache = cache
  BY Zenon, <1>3 DEF ExecGet, Outcome
<1>7. ExecGet(cmd, cache, set, del).reply =
        IF Live(cache, p) THEN <<"bulk", cache[p].val>> ELSE <<"nil">>
  BY Zenon DEF ExecGet, Outcome
<1> HIDE DEF p
<1>8. ExecGet(cmd, cache, set, del).reply =
        IF cache[p] = NULL THEN <<"nil">> ELSE <<"bulk", database[cmd.key]>>
  BY Zenon, <1>1, <1>2, <1>7
<1> QED BY Zenon, <1>4, <1>5, <1>6, <1>8 DEF p

\* What GetAnswersDatabase asks of an answer.
Answered(cmd, reply) ==
  reply = IF database[cmd.key] = NULL THEN <<"nil">> ELSE <<"bulk", database[cmd.key]>>

\* A get is answered from the cache.
LEMMA GetRun ==
  ASSUME IInv, GetInv, GetsOnly, UNCHANGED workload, NEW cmd \in workload.commands,
         RunDirectly(cmd)
  PROVE  GetInv' /\ Answered(cmd, out'.reply) /\ out'.cmd = cmd
<1> DEFINE p == Item(cmd)
           set == setReply[cur]
           del == delReply[cur]
<1>1. /\ TypeOK /\ cmd.name = "get" /\ p \in Items /\ "get" \in config.stmts
      /\ cmd.key \in Keys /\ p[2] = cmd.key
  BY Zenon, GetFacts, WorkloadFacts DEF CommandShape, Item
<1>2. /\ cache' = Exec(cmd, LookedUp(cmd), set, del).cache
      /\ out' = [cmd |-> cmd, via |-> NULL, reply |-> Exec(cmd, LookedUp(cmd), set, del).reply]
      /\ UNCHANGED <<database, job, hmode>> /\ NeededMode(cmd) = NULL
  BY Zenon DEF RunDirectly, Call, mainVars
<1> HIDE DEF set, del
<1>3. /\ cache' = cache
      /\ out'.reply = IF cache[p] = NULL THEN <<"nil">> ELSE <<"bulk", database[cmd.key]>>
      /\ out'.cmd = cmd
  BY <1>2, GetLooksUp
<1>4. CASE cache[p] # NULL
  <2>1. database[cmd.key] # NULL
    <3>1. cache[p] \in CacheEntries
      BY Zenon, <1>1, <1>4 DEF TypeOK
    <3>2. cache[p].val \in Texts /\ cache[p].val = database[cmd.key]
      BY ZenonT(60), <1>1, <1>4, <3>1, GetFacts DEF CacheEntries
    <3> QED BY Zenon, <3>2, NullFacts
  <2> QED BY Zenon, <1>2, <1>3, <1>4, <2>1, GetFrame DEF Answered
<1>5. CASE cache[p] = NULL
  <2>1. ~Live(cache, p) /\ ~NeedsGet(cmd)
    BY Zenon, <1>2, <1>5, NoMode DEF Live
  <2>2. Reentry(cmd)
    BY Zenon, <1>1, <2>1 DEF NeedsGet, Statements
  <2>3. database[cmd.key] = NULL
    BY Zenon, <2>2, GetFacts DEF Reentry
  <2> QED BY Zenon, <1>2, <1>3, <1>5, <2>3, GetFrame DEF Answered
<1> QED BY Zenon, <1>4, <1>5

\* A handler resumes a client, whose get is answered.
LEMMA GetResume ==
  ASSUME IInv, GetInv, GetsOnly, UNCHANGED workload, Resume
  PROVE  GetInv' /\ Answered(out'.cmd, out'.reply) /\ out'.cmd \in workload.commands
<1> DEFINE c == Head(todo)
           failed == job[hmode].res = NULL
           set == setReply[c] \/ (hmode = "set" /\ failed)
           del == FailedDel(c, failed)
           o == Exec(argv[c], cache, set, del)
           p == Item(argv[c])
<1>1. /\ hmode \in Modes /\ argv[c] \in workload.commands /\ p = job[hmode].item
      /\ job[hmode].phase = "returned" /\ cache' = o.cache
      /\ out' = [cmd |-> argv[c], via |-> IF failed THEN "failed" ELSE "done",
                 reply |-> o.reply]
  BY Zenon, ResumeFacts
<1>2. hmode = "get" /\ TypeOK
  BY Zenon, <1>1, GetFacts, NullFacts
<1>3. p \in Items /\ p[2] = argv[c].key
  BY Zenon, <1>1, <1>2, WorkloadFacts DEF Item
<1>4. UNCHANGED <<database, job, hmode>>
  BY Zenon DEF Resume
<1> HIDE DEF c, failed, set, del
<1>5. /\ cache' = cache
      /\ o.reply = IF cache[p] = NULL THEN <<"nil">> ELSE <<"bulk", database[argv[c].key]>>
  BY <1>1, GetLooksUp
<1>6. job["get"].res = database[argv[c].key]
  BY Zenon, <1>1, <1>2, <1>3, GetFacts
<1> HIDE DEF o, p
<1>7. CASE cache[p] # NULL
  <2>1. database[argv[c].key] # NULL
    <3>1. cache[p] \in CacheEntries
      BY Zenon, <1>2, <1>3, <1>7 DEF TypeOK
    <3>2. cache[p].val \in Texts /\ cache[p].val = database[argv[c].key]
      BY ZenonT(60), <1>3, <1>7, <3>1, GetFacts DEF CacheEntries
    <3> QED BY Zenon, <3>2, NullFacts
  <2> QED BY Zenon, <1>1, <1>4, <1>5, <1>7, <2>1, GetFrame DEF Answered
<1>8. CASE cache[p] = NULL
  <2>1. database[argv[c].key] = NULL
    BY Zenon, <1>1, <1>2, <1>6, <1>8, GetFacts
  <2> QED BY Zenon, <1>1, <1>4, <1>5, <1>8, <2>1, GetFrame DEF Answered
<1> QED BY Zenon, <1>7, <1>8

\* A handler stores what the database answered.
LEMMA GetHandle ==
  ASSUME IInv, GetInv, GetsOnly, UNCHANGED workload, NEW m \in Modes, Handle(m)
  PROVE  GetInv'
<1> DEFINE p == job[m].item
<1>1. TypeOK /\ job[m] # Idle /\ job[m] \in PendingJobs /\ job[m].phase = "returned"
  BY Zenon, JobFacts DEF IInv, Handle
<1>2. m = "get" /\ p \in Items /\ job[m].res = database[p[2]] /\ hmode' = m
  BY Zenon, <1>1, GetFacts DEF PendingJobs, Handle
<1>3. cache' = Stored(m, job[m]) /\ UNCHANGED <<database, job>>
  BY Zenon DEF Handle
<1>4. CASE job[m].res = NULL
  <2>1. cache' = cache
    BY Zenon, <1>2, <1>3, <1>4 DEF Stored
  <2> QED BY Zenon, <1>2, <1>3, <1>4, <2>1, GetFacts DEF GetInv
<1>5. CASE job[m].res # NULL
  <2> DEFINE ttl == IF workload.getTtl THEN "live"
                    ELSE IF TRUE /\ Live(cache, p) THEN cache[p].ttl ELSE "none"
             e == [val |-> job[m].res, enc |-> "str", ttl |-> ttl]
  <2>1. cache' = SetKey(cache, p, job[m].res, "str", TRUE, workload.getTtl)
    BY Zenon, <1>2, <1>3, <1>5 DEF Stored
  <2>2. ttl = "none"
    BY Zenon, <1>2, GetFacts DEF Live
  <2>3. cache' = [cache EXCEPT ![p] = e]
    BY Zenon, <2>1 DEF SetKey
  <2>4. e.ttl = "none" /\ e.val = job[m].res /\ e \in CacheEntries
    <3>1. job[m].res \in Texts
      BY Zenon, <1>1, <1>2, <1>5 DEF TypeOK
    <3> HIDE DEF ttl
    <3> QED BY Zenon, <2>2, <3>1 DEF CacheEntries
  <2> HIDE DEF e, ttl
  <2>5. cache'[p] = e /\ e # NULL /\ \A q \in Items : q # p => cache'[q] = cache[q]
    BY Zenon, <1>1, <1>2, <2>3, <2>4, NullFacts DEF TypeOK
  <2>6. \A q \in Items : cache'[q] # NULL => cache'[q].ttl = "none" /\ cache'[q].val = database[q[2]]
    BY SMTT(30), <1>2, <2>4, <2>5, GetFacts
  <2> QED BY Zenon, <1>2, <1>3, <2>5, <2>6, GetFacts DEF GetInv
<1> QED BY Zenon, <1>4, <1>5

\* A handler ends.
LEMMA GetFinish ==
  ASSUME IInv, GetInv, GetsOnly, UNCHANGED workload, Finish
  PROVE  GetInv'
<1>1. TypeOK /\ hmode = "get" /\ "get" \in Modes
  BY Zenon, GetFacts DEF Finish
<1>2. cands["get"] \in [Items -> Entries \union {NULL}]
  BY Zenon, <1>1 DEF TypeOK
<1>3. PICK j \in NewJobs(cands["get"]) : job' = [job EXCEPT !["get"] = j]
  BY Zenon, <1>1 DEF Finish, Refill
<1>4. j.phase \notin {"called", "returned"}
  BY Zenon, <1>2, NewJobFacts, GetFacts
<1>5. job'["get"] = j /\ job'["set"] = job["set"] /\ job'["del"] = job["del"]
  BY Zenon, <1>1, <1>3 DEF TypeOK, Modes
<1>6. hmode' = NULL /\ NULL # "get" /\ UNCHANGED <<cache, database>>
  BY Zenon, NullFacts DEF Finish
<1> QED BY Zenon, <1>4, <1>5, <1>6, GetFacts DEF GetInv

\* The database answers.
LEMMA GetReturn ==
  ASSUME IInv, GetInv, GetsOnly, UNCHANGED workload, NEW m \in Modes, Return(m)
  PROVE  GetInv'
<1>1. TypeOK /\ job[m].phase = "called" /\ job[m] # Idle /\ job[m] \in PendingJobs
  BY Zenon, JobFacts DEF IInv, Return
<1>2. m = "get"
  BY Zenon, <1>1, GetFacts
<1> DEFINE j == [job[m] EXCEPT !.phase = "returned"]
<1>3. job' = [job EXCEPT ![m] = j] /\ UNCHANGED <<cache, database, hmode>>
  BY Zenon DEF Return, mainVars
<1>4. j.res = job[m].res /\ j.item = job[m].item
  BY Zenon, <1>1 DEF PendingJobs
<1> HIDE DEF j
<1>5. job'["get"] = j /\ job'["set"] = job["set"] /\ job'["del"] = job["del"]
  BY Zenon, <1>1, <1>2, <1>3 DEF TypeOK, Modes
<1> QED BY ZenonT(60), <1>1, <1>2, <1>3, <1>4, <1>5, GetFacts DEF GetInv

\* The database is read.
LEMMA GetDbCall ==
  ASSUME IInv, GetInv, GetsOnly, UNCHANGED workload, NEW m \in Modes, DbCall(m)
  PROVE  GetInv'
<1>1. TypeOK /\ job[m].phase = "posted" /\ job[m] # Idle /\ job[m] \in PendingJobs
  BY Zenon, JobFacts DEF IInv, DbCall
<1>2. m = "get" /\ hmode # m
  <2>1. hmode # m
    BY Zenon, <1>1, NullFacts DEF IInv, MainInv
  <2> QED BY Zenon, <1>1, <2>1, GetFacts
<1>3. Reachable(m) /\ workload.failures = {}
  BY Zenon, <1>2, GetFacts DEF Reachable
<1> DEFINE r == database[job[m].item[2]]
           j == [job[m] EXCEPT !.phase = "called", !.res = r]
<1>4. /\ job' = [job EXCEPT ![m].phase = "called", ![m].res = r]
      /\ database' = database /\ UNCHANGED <<cache, hmode>>
  BY Zenon, <1>2, <1>3 DEF DbCall, Done, Effect, mainVars
<1> HIDE DEF r
<1>5. job' = [job EXCEPT ![m] = j]
  BY Zenon, <1>1, <1>4 DEF TypeOK
<1>6. j.res = r /\ j.item = job[m].item
  BY Zenon, <1>1 DEF PendingJobs
<1> HIDE DEF j
<1>7. job'["get"] = j /\ job'["set"] = job["set"] /\ job'["del"] = job["del"]
  BY Zenon, <1>1, <1>2, <1>5 DEF TypeOK, Modes
<1> QED BY Zenon, <1>2, <1>4, <1>6, <1>7, GetFacts DEF GetInv, r

\* A get waits for the database.
LEMMA GetEnqueue ==
  ASSUME IInv, GetInv, GetsOnly, UNCHANGED workload, NEW cmd \in workload.commands, Enqueue(cmd)
  PROVE  GetInv' /\ out' = NoOut
<1>1. PICK m \in Modes, e \in Entries : Enqueued(cmd, m, e)
  BY Zenon, EnqueueFacts
<1>2. TypeOK /\ m = "get" /\ m \in config.sync /\ m = NeededMode(cmd)
  BY ZenonT(60), <1>1, ModeFacts, NullFacts, GetFacts DEF Enqueued, ModeNames, SetCommands
<1>3. /\ cache' = LookedUp(cmd) /\ out' = NoOut /\ UNCHANGED <<database, hmode>>
  BY Zenon, <1>2 DEF Enqueue
<1>4. cache' = cache
  BY Zenon, <1>3, GetLooksUp
<1>5. \/ job' = job
      \/ /\ hmode # m
         /\ \E j \in PendingJobs : job' = [job EXCEPT ![m] = j] /\ j.phase = "posted"
  BY Zenon, <1>1 DEF Enqueued
<1>6. CASE job' = job
  BY Zenon, <1>3, <1>4, <1>6, GetFrame
<1>7. CASE job' # job
  <2>1. PICK j \in PendingJobs : job' = [job EXCEPT ![m] = j] /\ j.phase = "posted"
    BY Zenon, <1>5, <1>7
  <2>2. job'["get"] = j /\ job'["set"] = job["set"] /\ job'["del"] = job["del"]
    BY Zenon, <1>2, <2>1 DEF TypeOK, Modes
  <2>3. hmode # "get"
    BY Zenon, <1>2, <1>5, <1>7
  <2> QED BY Zenon, <1>3, <1>4, <2>1, <2>2, <2>3, GetFacts DEF GetInv
<1> QED BY Zenon, <1>6, <1>7

\* Every step keeps GetInv, and answers with the row.
LEMMA GetStep ==
  ASSUME IInv, GetInv, Running(ServerStep)
  PROVE  GetInv' /\ GetAnswersDatabase'
<1>0. /\ UNCHANGED workload /\ ServerStep
      /\ (Only({"get"}) /\ DatabaseWorks /\ AlwaysWaits /\ ~workload.getTtl)' <=> GetsOnly
  BY Zenon DEF Running, Only, DatabaseWorks, AlwaysWaits, GetsOnly
<1>1. CASE ~GetsOnly
  BY Zenon, <1>0, <1>1 DEF GetInv, GetAnswersDatabase
<1>2. CASE GetsOnly
  <2>0. ASSUME GetInv', out'.cmd # NULL => Answered(out'.cmd, out'.reply), UNCHANGED database
        PROVE  GetInv' /\ GetAnswersDatabase'
    BY Zenon, <2>0 DEF Answered, GetAnswersDatabase
  <2>1. NoOut.cmd = NULL
    BY Zenon DEF NoOut
  <2>2. ASSUME UNCHANGED <<cache, database, job, hmode>>, out' = NoOut
        PROVE  GetInv' /\ GetAnswersDatabase'
    BY Zenon, <1>0, <2>0, <2>1, <2>2, GetFrame
  <2>3. ASSUME NEW c \in Clients, ReadQuery(c) \/ Disconnect(c) \/ Connect(c)
        PROVE  GetInv' /\ GetAnswersDatabase'
    BY Zenon, <2>2, <2>3 DEF ReadQuery, Disconnect, Connect, mainVars
  <2>4. CASE EndInput \/ ResumeFreed
    BY Zenon, <2>2, <2>4 DEF EndInput, ResumeFreed, mainVars
  <2>5. CASE Resume
    BY Zenon, <1>0, <1>2, <2>0, <2>5, GetResume DEF Resume
  <2>6. CASE Finish
    <3>1. out' = NoOut /\ UNCHANGED database
      BY Zenon, <2>6 DEF Finish
    <3> QED BY Zenon, <1>0, <1>2, <2>0, <2>1, <2>6, <3>1, GetFinish
  <2>7. ASSUME NEW cmd \in workload.commands,
               Enqueue(cmd) \/ RunDirectly(cmd) \/ CheckFails(cmd) \/ Kill(cmd)
        PROVE  GetInv' /\ GetAnswersDatabase'
    <3>1. CASE Enqueue(cmd)
      <4>1. UNCHANGED database
        BY Zenon, <3>1 DEF Enqueue
      <4> QED BY Zenon, <1>0, <1>2, <2>0, <2>1, <3>1, <4>1, GetEnqueue
    <3>2. CASE RunDirectly(cmd)
      <4>1. UNCHANGED database
        BY Zenon, <3>2 DEF RunDirectly
      <4> QED BY Zenon, <1>0, <1>2, <2>0, <3>2, <4>1, GetRun
    <3>3. CASE CheckFails(cmd)
      BY Zenon, <2>2, <3>3 DEF CheckFails, mainVars
    <3>4. CASE Kill(cmd)
      BY Zenon, <1>2, <3>4 DEF Kill, GetsOnly, Only
    <3> QED BY Zenon, <2>7, <3>1, <3>2, <3>3, <3>4
  <2>8. ASSUME NEW cfg \in workload.configs, ConfigSet(cfg)
        PROVE  GetInv' /\ GetAnswersDatabase'
    BY Zenon, <2>2, <2>8 DEF ConfigSet, mainVars
  <2>9. ASSUME NEW m \in Modes, Handle(m) \/ WorkerStep(m)
        PROVE  GetInv' /\ GetAnswersDatabase'
    <3>1. out' = NoOut
      BY Zenon, <2>9 DEF Handle, WorkerStep, DbCall, Return
    <3>2. GetInv'
      BY Zenon, <1>0, <1>2, <2>9, GetHandle, GetDbCall, GetReturn DEF WorkerStep
    <3> QED BY Zenon, <2>1, <3>1, <3>2 DEF GetAnswersDatabase
  <2>10. ASSUME NEW p \in Items, TtlElapses(p)
         PROVE  GetInv' /\ GetAnswersDatabase'
    BY Zenon, <1>2, <2>10, GetFacts DEF TtlElapses
  <2> QED BY Zenon, <1>0, <2>3, <2>4, <2>5, <2>6, <2>7, <2>8, <2>9, <2>10 DEF ServerStep
<1> QED BY Zenon, <1>1, <1>2

\* While nobody writes and fetched keys do not expire, every get is answered with what the
\* row has, and with nil only if there is no row.
THEOREM GetAnswersDatabaseHolds == Spec => []GetAnswersDatabase
<1> DEFINE J == GetInv /\ GetAnswersDatabase
<1>1. Init => J
  <2> SUFFICES ASSUME Init PROVE J
    BY Zenon
  <2>1. /\ \A p \in Items : cache[p] = NULL
        /\ \A m \in Modes : job[m] = Idle
        /\ hmode = NULL /\ out = NoOut
    BY Zenon DEF Init
  <2>2. Idle.phase = "idle" /\ NoOut.cmd = NULL
    BY Zenon DEF Idle, NoOut
  <2>3. GetInv
    BY Zenon, <2>1, <2>2, NullFacts DEF GetInv
  <2> QED BY Zenon, <2>1, <2>2, <2>3 DEF GetAnswersDatabase
<1>2. IInv /\ J /\ [Next]_vars => J'
  <2>1. CASE UNCHANGED vars
    <3>1. GetInv => GetInv'
      BY Zenon, <2>1, GetFrame DEF vars, mainVars
    <3>2. GetAnswersDatabase => GetAnswersDatabase'
      BY Zenon, <2>1 DEF vars, GetAnswersDatabase, Only, DatabaseWorks, AlwaysWaits
    <3> QED BY Zenon, <3>1, <3>2
  <2>2. CASE Running(ServerStep)
    BY Zenon, <2>2, GetStep
  <2> QED BY Zenon, <2>1, <2>2 DEF Next, Stopped
<1> QED BY <1>1, <1>2, Invariant, PTL DEF Spec

-----------------------------------------------------------------------------
(* The job service. *)

\* An update of one mode, told by its values.
LEMMA ModeUpdate ==
  ASSUME NEW f, f = [n \in Modes |-> f[n]], NEW g, g = [n \in Modes |-> g[n]],
         NEW m \in Modes, NEW v, g[m] = v, \A n \in Modes : n # m => g[n] = f[n]
  PROVE  g = [f EXCEPT ![m] = v]
BY Zenon

\* The service's variables are functions of the mode.
LEMMA ServiceFunctions ==
  /\ Requested = [n \in Modes |-> Requested[n]] /\ Serving = [n \in Modes |-> Serving[n]]
  /\ Announced = [n \in Modes |-> Announced[n]]
  /\ Requested' = [n \in Modes |-> Requested'[n]] /\ Serving' = [n \in Modes |-> Serving'[n]]
  /\ Announced' = [n \in Modes |-> Announced'[n]]
BY Zenon DEF Requested, Serving, Announced

\* A step that neither begins nor ends an entry, a handler or an answer is none of the service.
LEMMA ServiceUnchanged ==
  ASSUME \A m \in Modes, p \in Items : cands[m][p] = NULL <=> cands'[m][p] = NULL,
         hmode' = hmode,
         \A m \in Modes : job'[m].item = job[m].item /\ job'[m].res = job[m].res
                            /\ (job'[m].phase = "returned" <=> job[m].phase = "returned")
  PROVE  UNCHANGED Service!vars
<1>1. Requested' = Requested
  BY Zenon DEF Requested
<1>2. Serving' = Serving
  BY Zenon DEF Serving
<1>3. Announced' = Announced
  BY Zenon DEF Announced
<1> QED BY Zenon, <1>1, <1>2, <1>3 DEF Service!vars

\* A freed client leaves the lists, and the entries remain.
LEMMA FreeClientRefines ==
  ASSUME IInv, NEW c \in Clients, FreeClient(c), UNCHANGED <<hmode, job>>
  PROVE  UNCHANGED Service!vars
<1>1. TypeOK /\ cands' = WithoutClient(c)
  BY Zenon DEF IInv, FreeClient
<1>2. \A m \in Modes, p \in Items : cands[m][p] = NULL <=> cands'[m][p] = NULL
  BY <1>1, WithoutClientEntry
<1> QED BY Zenon, <1>2, ServiceUnchanged

\* A command that needs the database is a request; an idle mode serves one at once.
LEMMA EnqueueRefines ==
  ASSUME IInv, UNCHANGED workload, NEW cmd \in workload.commands, Enqueue(cmd)
  PROVE  Service!Next
<1> DEFINE p == Item(cmd)
<1>0. TypeOK
  BY Zenon DEF IInv
<1>E. PICK m \in Modes, e \in Entries : Enqueued(cmd, m, e)
  BY Zenon, EnqueueFacts
<1>1. /\ \A n \in Modes, q \in Items :
           cands'[n][q] = IF n = m /\ q = p THEN e ELSE cands[n][q]
      /\ \/ job[m] # Idle /\ job' = job
         \/ /\ job[m] = Idle /\ hmode # m
            /\ \E j \in PendingJobs :
                 /\ job' = [job EXCEPT ![m] = j]
                 /\ j.phase = "posted" /\ j.res = NULL
                 /\ cands'[m][j.item] # NULL /\ j.val = cands'[m][j.item].val
  BY Zenon, <1>E DEF Enqueued
<1>2. /\ hmode' = hmode /\ p \in Items /\ e # NULL
  BY Zenon, <1>0, WorkloadFacts, NullFacts DEF Enqueue
<1>3. Requested' = [Requested EXCEPT ![m] = @ \union {p}]
  <2> HIDE DEF p
  <2>1. Requested'[m] = Requested[m] \union {p}
    BY <1>1, <1>2 DEF Requested
  <2>2. \A n \in Modes : n # m => Requested'[n] = Requested[n]
    BY ZenonT(60), <1>1 DEF Requested
  <2> QED BY Zenon, <2>1, <2>2, ServiceFunctions, ModeUpdate
<1>4. CASE job' = job
  <2>1. Serving' = Serving /\ Announced' = Announced
    BY Zenon, <1>2, <1>4 DEF Serving, Announced
  <2>2. Service!Request(m, p)
    BY Zenon, <1>3, <2>1 DEF Service!Request
  <2> QED BY Zenon, <1>2, <2>2 DEF Service!Next
<1>5. CASE job[m] = Idle /\ hmode # m /\ job' # job
  <2>1. PICK j \in PendingJobs : /\ job' = [job EXCEPT ![m] = j]
                                 /\ j.phase = "posted" /\ cands'[m][j.item] # NULL
    BY Zenon, <1>1, <1>5
  <2>2. job'[m] = j /\ j.item \in Items /\ \A n \in Modes : n # m => job'[n] = job[n]
    BY Zenon, <1>0, <2>1 DEF TypeOK, PendingJobs
  <2>3. job[m].item = NULL /\ job[m].phase = "idle"
    BY Zenon, <1>0, <1>5, JobFacts
  <2>4. Serving[m] = NULL /\ Serving' = [Serving EXCEPT ![m] = j.item]
    <3>1. Serving[m] = NULL /\ Serving'[m] = j.item
      BY Zenon, <1>2, <1>5, <2>2, <2>3 DEF Serving
    <3>2. \A n \in Modes : n # m => Serving'[n] = Serving[n]
      BY Zenon, <1>2, <2>2 DEF Serving
    <3> QED BY ZenonT(60), <3>1, <3>2, ServiceFunctions, ModeUpdate
  <2>5. Announced' = Announced
    BY <1>2, <2>1, <2>2, <2>3 DEF Announced
  <2>6. j.item \in Requested'[m]
    BY Zenon, <2>1, <2>2 DEF Requested
  <2>7. Service!Request(m, p)
    <3> HIDE DEF p
    <3> QED BY Zenon, <1>3, <2>4, <2>5, <2>6 DEF Service!Request
  <2> QED BY Zenon, <1>2, <2>7 DEF Service!Next
<1> QED BY Zenon, <1>1, <1>4, <1>5

\* A handler that begins removes the entry that has been answered.
LEMMA HandleRefines ==
  ASSUME IInv, NEW m \in Modes, Handle(m)
  PROVE  Service!Complete(m)
<1>0. TypeOK
  BY Zenon DEF IInv
<1> DEFINE p == job[m].item
<1>1. /\ hmode = NULL /\ hmode' = m /\ job' = job /\ job[m].phase = "returned"
      /\ cands' = [cands EXCEPT ![m][p] = NULL]
  BY Zenon DEF Handle
<1>2. p \in Items /\ hmode # m /\ \A n \in Modes : hmode # n /\ (hmode' = n <=> n = m)
  BY Zenon, <1>0, <1>1, JobFacts, NullFacts DEF PendingJobs
<1>3. \A n \in Modes, q \in Items :
        cands'[n][q] = IF n = m /\ q = p THEN NULL ELSE cands[n][q]
  <2>1. NULL \in Entries \union {NULL}
    BY Zenon
  <2> HIDE DEF p
  <2> QED BY <1>0, <1>1, <1>2, <2>1, EntryUpdate
<1>4. Serving[m] = p /\ Announced[m] = <<job[m].res>>
  BY Zenon, <1>1, <1>2 DEF Serving, Announced
<1>5. Serving' = [Serving EXCEPT ![m] = NULL]
  BY Zenon, <1>1, <1>2 DEF Serving
<1>6. Announced' = [Announced EXCEPT ![m] = <<>>]
  BY Zenon, <1>1, <1>2 DEF Announced
<1>7. Requested' = [Requested EXCEPT ![m] = @ \ {p}]
  <2> HIDE DEF p
  <2>1. Requested'[m] = Requested[m] \ {p}
    BY Zenon, <1>2, <1>3 DEF Requested
  <2>2. \A n \in Modes : n # m => Requested'[n] = Requested[n]
    BY Zenon, <1>3 DEF Requested
  <2> QED BY Zenon, <2>1, <2>2, ServiceFunctions, ModeUpdate
<1>8. Announced[m] # <<>>
  BY <1>4
<1> QED BY Zenon, <1>4, <1>5, <1>6, <1>7, <1>8 DEF Service!Complete

\* A handler that ends dispatches a request that is left, if there is one.
LEMMA FinishRefines ==
  ASSUME IInv, Finish
  PROVE  Service!Next \/ UNCHANGED Service!vars
<1>0. TypeOK
  BY Zenon DEF IInv
<1>1. /\ hmode \in Modes /\ cands[hmode] \in [Items -> Entries \union {NULL}]
      /\ hmode' = NULL /\ cands' = cands
  BY Zenon, <1>0 DEF Finish, TypeOK
<1>2. PICK j \in NewJobs(cands[hmode]) : job' = [job EXCEPT ![hmode] = j]
  BY Zenon DEF Finish, Refill
<1>3. \/ j = Idle /\ \A p \in Items : cands[hmode][p] = NULL
      \/ /\ j \in PendingJobs /\ j.phase = "posted" /\ j.res = NULL
         /\ j.item \in Items /\ cands[hmode][j.item] # NULL
         /\ j.val = cands[hmode][j.item].val
  BY Zenon, <1>1, NewJobFacts
<1>4. job'[hmode] = j /\ \A m \in Modes : m # hmode => job'[m] = job[m]
  BY Zenon, <1>0, <1>1, <1>2 DEF TypeOK
<1>5. \A m \in Modes : hmode' # m
  BY Zenon, <1>1, NullFacts
<1>6. Serving[hmode] = NULL /\ Serving' = [Serving EXCEPT ![hmode] = j.item]
  BY Zenon, <1>1, <1>4, <1>5 DEF Serving
<1>7. j.phase # "returned"
  BY <1>3 DEF Idle
<1>8. Announced' = Announced /\ Requested' = Requested
  BY Zenon, <1>1, <1>4, <1>5, <1>7 DEF Announced, Requested
<1>9. CASE j = Idle
  <2>1. Serving' = Serving
    BY Zenon, <1>1, <1>6, <1>9 DEF Serving, Idle
  <2> QED BY Zenon, <1>8, <2>1 DEF Service!vars
<1>10. CASE j # Idle
  <2>1. j.item \in Requested[hmode]
    BY Zenon, <1>1, <1>3, <1>10 DEF Requested
  <2>2. Service!Dispatch(hmode)
    BY Zenon, <1>6, <1>8, <2>1 DEF Service!Dispatch
  <2> QED BY Zenon, <1>1, <2>2 DEF Service!Next, Service!Serve
<1> QED BY Zenon, <1>9, <1>10

\* The database call is not seen before its result is returned.
LEMMA DbCallRefines ==
  ASSUME IInv, NEW m \in Modes, DbCall(m)
  PROVE  UNCHANGED Service!vars
<1>0. TypeOK /\ MainInv
  BY Zenon DEF IInv
<1>1. /\ job[m].phase = "posted" /\ hmode' = hmode /\ cands' = cands
      /\ \E res : job' = [job EXCEPT ![m].phase = "called", ![m].res = res]
  BY Zenon DEF DbCall, Done, mainVars
<1>2. PICK res : job' = [job EXCEPT ![m].phase = "called", ![m].res = res]
  BY Zenon, <1>1
<1>3. job[m] \in PendingJobs
  BY Zenon, <1>0, <1>1, JobFacts
<1>4. /\ job'[m].phase = "called" /\ job'[m].item = job[m].item
      /\ \A n \in Modes : n # m => job'[n] = job[n]
  BY Zenon, <1>0, <1>2, <1>3 DEF TypeOK, PendingJobs
<1>5. Requested' = Requested
  BY Zenon, <1>1 DEF Requested
<1>6. Serving' = Serving
  BY Zenon, <1>1, <1>4 DEF Serving
<1>7. Announced' = Announced
  BY Zenon, <1>1, <1>4 DEF Announced
<1> QED BY Zenon, <1>5, <1>6, <1>7 DEF Service!vars

\* A result that is returned is the database's answer.
LEMMA ReturnRefines ==
  ASSUME IInv, NEW m \in Modes, Return(m)
  PROVE  Service!Answer(m)
<1>0. TypeOK /\ MainInv
  BY Zenon DEF IInv
<1>1. /\ job[m].phase = "called" /\ hmode' = hmode /\ cands' = cands
      /\ job' = [job EXCEPT ![m].phase = "returned"]
  BY Zenon DEF Return, mainVars
<1>2. job[m] \in PendingJobs /\ hmode # m
  BY Zenon, <1>0, <1>1, JobFacts, NullFacts DEF MainInv
<1>3. /\ job'[m].phase = "returned" /\ job'[m].item = job[m].item /\ job'[m].res = job[m].res
      /\ \A n \in Modes : n # m => job'[n] = job[n]
  BY Zenon, <1>0, <1>1, <1>2 DEF TypeOK, PendingJobs
<1>4. job[m].item # NULL /\ job[m].res \in Texts \union {"done", NULL}
  BY Zenon, <1>2, NullFacts DEF PendingJobs
<1>5. Requested' = Requested
  BY Zenon, <1>1 DEF Requested
<1>6. Serving' = Serving /\ Serving[m] # NULL
  BY <1>1, <1>2, <1>3, <1>4 DEF Serving
<1>7. Announced[m] = <<>> /\ Announced' = [Announced EXCEPT ![m] = <<job[m].res>>]
  <2>1. Announced[m] = <<>> /\ Announced'[m] = <<job[m].res>>
    BY Zenon, <1>1, <1>2, <1>3 DEF Announced
  <2>2. \A n \in Modes : n # m => Announced'[n] = Announced[n]
    BY <1>1, <1>3 DEF Announced
  <2> QED BY Zenon, <2>1, <2>2, ServiceFunctions, ModeUpdate
<1> QED BY Zenon, <1>4, <1>5, <1>6, <1>7 DEF Service!Answer

\* Every step of the server is a step of the service or none of it.
LEMMA NextRefines == IInv /\ [Next]_vars => [Service!Next]_(Service!vars)
<1> SUFFICES ASSUME IInv, [Next]_vars
             PROVE  Service!Next \/ UNCHANGED Service!vars
  BY Zenon
<1>1. ASSUME UNCHANGED <<cands, hmode, job>>
      PROVE  UNCHANGED Service!vars
  BY Zenon, <1>1 DEF Service!vars, Requested, Serving, Announced
<1>2. CASE UNCHANGED vars
  BY Zenon, <1>1, <1>2 DEF vars, mainVars
<1>3. CASE Running(ServerStep)
  <2>1. UNCHANGED workload /\ ServerStep
    BY Zenon, <1>3 DEF Running
  <2>2. ASSUME NEW c \in Clients, ReadQuery(c) \/ Disconnect(c) \/ Connect(c)
        PROVE  UNCHANGED Service!vars
    <3>1. CASE ReadQuery(c) \/ Connect(c)
      BY Zenon, <1>1, <3>1 DEF ReadQuery, Connect, mainVars
    <3>2. CASE Disconnect(c)
      BY Zenon, <3>2, FreeClientRefines DEF Disconnect, mainVars
    <3> QED BY Zenon, <2>2, <3>1, <3>2
  <2>3. CASE EndInput \/ Resume \/ ResumeFreed
    BY Zenon, <1>1, <2>3 DEF EndInput, Resume, ResumeFreed, mainVars
  <2>4. CASE Finish
    BY Zenon, <2>4, FinishRefines
  <2>5. ASSUME NEW cmd \in workload.commands,
               Enqueue(cmd) \/ RunDirectly(cmd) \/ CheckFails(cmd) \/ Kill(cmd)
        PROVE  Service!Next \/ UNCHANGED Service!vars
    <3>1. CASE Enqueue(cmd)
      BY Zenon, <2>1, <3>1, EnqueueRefines
    <3>2. CASE RunDirectly(cmd) \/ CheckFails(cmd)
      BY Zenon, <1>1, <3>2 DEF RunDirectly, CheckFails, mainVars
    <3>3. CASE Kill(cmd)
      <4>1. cmd.victim \in Clients
        BY Zenon, <3>3 DEF Kill, IInv, TypeOK
      <4>2. FreeClient(cmd.victim) /\ UNCHANGED <<hmode, job>>
        BY Zenon, <3>3 DEF Kill, mainVars
      <4> QED BY Zenon, <4>1, <4>2, FreeClientRefines
    <3> QED BY Zenon, <2>5, <3>1, <3>2, <3>3
  <2>6. ASSUME NEW cfg, ConfigSet(cfg)
        PROVE  UNCHANGED Service!vars
    BY Zenon, <1>1, <2>6 DEF ConfigSet, mainVars
  <2>7. ASSUME NEW m \in Modes, Handle(m) \/ WorkerStep(m)
        PROVE  Service!Next \/ UNCHANGED Service!vars
    <3>1. CASE Handle(m)
      BY Zenon, <3>1, HandleRefines DEF Service!Next, Service!Serve
    <3>2. CASE DbCall(m)
      BY Zenon, <3>2, DbCallRefines
    <3>3. CASE Return(m)
      BY Zenon, <3>3, ReturnRefines DEF Service!Next, Service!Serve
    <3> QED BY Zenon, <2>7, <3>1, <3>2, <3>3 DEF WorkerStep
  <2>8. ASSUME NEW p \in Items, TtlElapses(p)
        PROVE  UNCHANGED Service!vars
    BY Zenon, <1>1, <2>8 DEF TtlElapses, mainVars
  <2> QED BY Zenon, <2>1, <2>2, <2>3, <2>4, <2>5, <2>6, <2>7, <2>8 DEF ServerStep
<1>4. CASE Stopped
  BY Zenon, <1>2, <1>4 DEF Stopped
<1> QED BY Zenon, <1>2, <1>3, <1>4 DEF Next

\* The clients, dictionaries, handlers and jobs of backend.c, with clients that are
\* killed or disconnect at any time and database calls that fail, implement the service
\* that asks the database for one requested item at a time.
THEOREM Refinement == Spec => ImplementsService
<1>1. Init => Service!Init
  <2> SUFFICES ASSUME Init PROVE Service!Init
    BY Zenon
  <2>1. \A m \in Modes : hmode # m /\ job[m] = Idle /\ \A p \in Items : cands[m][p] = NULL
    BY Zenon, NullFacts DEF Init
  <2>2. Requested = [m \in Modes |-> {}]
    BY Zenon, <2>1 DEF Requested
  <2>3. Serving = [m \in Modes |-> NULL] /\ Announced = [m \in Modes |-> <<>>]
    BY <2>1 DEF Serving, Announced, Idle
  <2> QED BY Zenon, <2>2, <2>3 DEF Service!Init
<1> QED BY <1>1, NextRefines, Invariant, PTL DEF Spec, ImplementsService, Service!Spec
=============================================================================
