--------------------------- MODULE AppendOnlyFile ---------------------------
(***************************************************************************)
(* How writes reach the disk (aof.c): the buffer that is flushed before    *)
(* clients are answered, fsync on the main thread or in the background     *)
(* (bio.c), and the rewrite of the file by a child while the parent keeps  *)
(* the differences; write errors, failing children, crashes and power      *)
(* failures.                                                               *)
(*                                                                         *)
(* A dataset is the sequence of writes that led to it, and a write is the  *)
(* database it went to and its number: replaying one twice, leaving one    *)
(* out, or applying it to another database gives another dataset.  Of an   *)
(* entry in the file only two bytes are told apart, so that it can be cut  *)
(* in the middle.  A power failure loses any end of a file that has not    *)
(* been synced; a rename is on disk when it returns.                       *)
(***************************************************************************)
EXTENDS Integers, FiniteSets, SequencesExt

CONSTANTS
  DBs, NULL,
  Situations,
  MaxBytes,   \* bound of the model: no write when the file is longer
  MaxJobs     \* bound of the model: the file is not replaced when more fsyncs wait

\* What a behaviour has: appendfsync and no-appendfsync-on-rewrite; BGREWRITEAOF,
\* CONFIG SET appendonly, writes and children that fail, crashes, and at most how many
\* writes.
SituationShape ==
  [appendfsync : {"always", "everysec", "no"}, noFsyncOnRewrite : BOOLEAN,
   rewrites : BOOLEAN, switches : BOOLEAN, faults : BOOLEAN, crashes : BOOLEAN, writes : Nat]

ASSUME AppendOnlyFileAssumption ==
  /\ \A situation \in Situations : situation \in SituationShape
  /\ DBs \subseteq Nat /\ MaxBytes \in Nat /\ MaxJobs \in Nat

VARIABLES
  server,     \* the main process and its file
  child,      \* the child that rewrites the file, or NULL
  other,      \* another child is active
  main,       \* "loop", or "renamed": inside backgroundRewriteDoneHandler
  writes,     \* the databases of the writes that were executed
  replied,    \* how many of them were answered
  situation

vars == <<server, child, other, main, writes, replied, situation>>

-----------------------------------------------------------------------------
(* What is in a file. *)

Entry(kind, x) == <<<<kind, x, 1>>, <<kind, x, 2>>>>
Snapshot(n) == <<"snapshot", n, 0>>
Hole == <<"hole", 0, 0>>

\* ftruncate; a file that is shorter is extended.
Truncate(bytes, n) == [i \in 1..n |-> IF i <= Len(bytes) THEN bytes[i] ELSE Hole]

\* loadAppendOnlyFile: perhaps a snapshot, then entries, the last of which may be cut
\* off.  ok: the server can read the file, and it restores the dataset after n writes;
\* valid: what is before an entry that was cut off (valid_up_to).  After a snapshot the
\* database that the fake client has selected depends on the format of the snapshot.
Load(bytes) ==
  LET first == IF bytes # <<>> /\ bytes[1] = Snapshot(bytes[1][2]) THEN 1 ELSE 0
      base == IF first = 1 THEN bytes[1][2] ELSE 0
      entries == 1..((Len(bytes) - first) \div 2)
      at(i) == bytes[first + 2 * i]
      wholes == {i \in entries : SubSeq(bytes, first + 2 * i - 1, first + 2 * i)
                                   = Entry(at(i)[1], at(i)[2])}
      kind(name) == {i \in entries : at(i)[1] = name}
      selects(i) == {j \in kind("select") : j < i}
      selected(i) == IF selects(i) # {} THEN at(Max(selects(i)))[2]
                     ELSE IF first = 1 THEN NULL ELSE 0
      right(i) == /\ at(i)[2] = base + Cardinality({j \in kind("write") : j <= i})
                  /\ at(i)[2] \in DOMAIN writes /\ selected(i) = writes[at(i)[2]]
  IN [n |-> base + Cardinality(kind("write")),
      valid |-> first + 2 * Cardinality(entries),
      ok |-> /\ wholes = entries
             /\ (Len(bytes) - first) % 2 = 1 => Last(bytes)[3] = 1
             /\ \A i \in kind("write") : right(i)]

-----------------------------------------------------------------------------

\* The main process that has loaded a file.  state, selected, buf, rewriteBuf,
\* stopSendingDiff, scheduled, status, size, fsyncOffset are the fields aof_*; due:
\* a second has passed since aof_last_fsync; postponed: aof_flush_postponed_start;
\* jobs: the queue of BIO_AOF_FSYNC, with what is in the file when a job is created;
\* pendingWrite: there are replies to be sent (clients_pending_write).
Loaded(bytes, synced) ==
  [state |-> "on", selected |-> -1, buf |-> <<>>, rewriteBuf |-> <<>>,
   stopSendingDiff |-> FALSE, scheduled |-> FALSE, status |-> "ok", due |-> FALSE,
   postponed |-> "no", jobs |-> <<>>, size |-> Len(bytes), fsyncOffset |-> Len(bytes),
   file |-> bytes, synced |-> synced, pendingWrite |-> FALSE]

Init ==
  /\ situation \in Situations
  /\ server = Loaded(<<>>, 0) /\ child = NULL /\ other = FALSE
  /\ main = "loop" /\ writes = <<>> /\ replied = 0

\* hasActiveChildProcess.
Active == child # NULL \/ other

-----------------------------------------------------------------------------
(* Appending. *)

\* feedAppendOnlyFile: the differences are kept for the child also while the file is
\* not in use yet.
Select(s, db) == IF s.selected # db THEN Entry("select", db) ELSE <<>>

Feed(s, n, db) ==
  LET bytes == Select(s, db) \o Entry("write", n) IN
  [s EXCEPT !.selected = db,
            !.buf = IF s.state = "on" THEN @ \o bytes ELSE @,
            !.rewriteBuf = IF child # NULL THEN @ \o bytes ELSE @]

EverySec == situation.appendfsync = "everysec"

\* aof_background_fsync.
Enqueue(s) ==
  [s EXCEPT !.jobs = Append(@, [file |-> IF s.state = "off" THEN "closed" ELSE "current",
                                upto |-> Len(s.file)])]

\* redis_fsync.
Sync(s) == [s EXCEPT !.synced = Len(s.file)]

\* try_fsync of flushAppendOnlyFile.
BugTryFsync(s, active) == IF EverySec /\ s.due /\ s.jobs = <<>> THEN Enqueue(s) ELSE s
TryFsync(s, active) ==
  IF situation.noFsyncOnRewrite /\ active THEN s
  ELSE CASE situation.appendfsync = "always" ->
              [Sync(s) EXCEPT !.fsyncOffset = s.size, !.due = FALSE]
         [] EverySec /\ s.due /\ s.jobs = <<>> ->
              [Enqueue(s) EXCEPT !.fsyncOffset = s.size, !.due = FALSE]
         [] EverySec /\ s.due /\ s.jobs # <<>> -> [s EXCEPT !.due = FALSE]
         [] OTHER -> s

\* How a write(2) of the buffer ends: bytes of it are in the file; undone: ftruncate
\* has removed them.
Outcomes(s) ==
  LET all == [bytes |-> Len(s.buf), undone |-> FALSE] IN
  IF s.state = "off" THEN {[bytes |-> 0, undone |-> FALSE]}
  ELSE IF ~situation.faults THEN {all}
  ELSE {all} \union [bytes : 0..(Len(s.buf) - 1), undone : {FALSE}]
             \union [bytes : 1..(Len(s.buf) - 1), undone : {TRUE}]

Whole(s, o) == o.bytes = Len(s.buf) /\ ~o.undone

Written(s, o) ==
  LET file == s.file \o SubSeq(s.buf, 1, o.bytes) IN
  IF o.undone THEN [s EXCEPT !.file = Truncate(file, s.size), !.synced = Min({@, s.size}),
                             !.status = "err"]
  ELSE [s EXCEPT !.file = file, !.size = @ + o.bytes,
                 !.buf = SubSeq(@, o.bytes + 1, Len(@)),
                 !.status = IF Whole(s, o) THEN "ok" ELSE "err"]

\* flushAppendOnlyFile.  While an fsync is in progress a flush is put off, for two
\* seconds at most.
PutOff(s, force) == EverySec /\ ~force /\ s.jobs # <<>> /\ s.postponed # "long"

BugIdleFsync(s) == FALSE
IdleFsync(s) == EverySec /\ s.fsyncOffset # s.size /\ s.due /\ s.jobs = <<>>

Flush(s, active, force, o) ==
  LET t == Written([s EXCEPT !.postponed = "no"], o) IN
  IF s.buf = <<>> THEN IF IdleFsync(s) THEN TryFsync(s, active) ELSE s
  ELSE IF PutOff(s, force) THEN [s EXCEPT !.postponed = "recently"]
  ELSE IF t.status = "err" THEN t
  ELSE TryFsync(t, active)

\* With appendfsync always the server exits when the write fails.
Exits(s, o) == situation.appendfsync = "always" /\ ~Whole(s, o)

-----------------------------------------------------------------------------
(* Crashes. *)

\* The server starts with appendonly yes, and loads the file; it does not start if it
\* cannot read it.  Nothing is expected of the answers if it stopped between rename and
\* fsync at the end of a rewrite.
Restart(bytes, synced) ==
  LET load == Load(bytes)
      file == SubSeq(bytes, 1, load.valid)
  IN /\ load.ok
     /\ server' = Loaded(file, Min({synced, load.valid}))
     /\ writes' = SubSeq(writes, 1, load.n)
     /\ replied' = IF main = "renamed" THEN 0 ELSE Min({replied, load.n})
     /\ child' = NULL /\ other' = FALSE /\ main' = "loop"

\* What is written survives if the process is killed.
Killed == situation.crashes /\ Restart(server.file, server.synced)

PowerFailure ==
  /\ situation.crashes
  /\ \E n \in server.synced..Len(server.file) : Restart(SubSeq(server.file, 1, n), n)

-----------------------------------------------------------------------------
(* The event loop. *)

\* writeCommandsDeniedByDiskError.
Denied == server.state # "off" /\ server.status = "err"

\* A command that writes is executed and propagated; it is answered later.
Write(db) ==
  /\ main = "loop" /\ ~Denied
  /\ Len(writes) < situation.writes /\ Len(server.file) + Len(server.buf) <= MaxBytes
  /\ writes' = Append(writes, db)
  /\ LET s == IF server.state = "off" THEN server ELSE Feed(server, Len(writes) + 1, db)
     IN server' = [s EXCEPT !.pendingWrite = TRUE]
  /\ UNCHANGED <<child, other, main, replied>>

\* beforeSleep: the buffer is written, and then the replies.
BeforeSleep(o) ==
  /\ main = "loop" /\ o \in Outcomes(server)
  /\ IF Exits(server, o) THEN Restart(Written(server, o).file, server.synced)
     ELSE /\ server' = [Flush(server, Active, FALSE, o) EXCEPT !.pendingWrite = FALSE]
          /\ replied' = IF server.pendingWrite THEN Len(writes) ELSE replied
          /\ UNCHANGED <<child, other, main, writes>>

\* serverCron: a flush that was put off or has failed is tried again.
CronFlush(o) ==
  /\ main = "loop" /\ o \in Outcomes(server) /\ ~Exits(server, o)
  /\ server.postponed # "no" \/ server.status = "err"
  /\ server' = Flush(server, Active, FALSE, o)
  /\ UNCHANGED <<child, other, main, writes, replied>>

\* The clock (server.unixtime), which flushAppendOnlyFile reads with everysec.
Second ==
  /\ main = "loop" /\ EverySec
  /\ server' = [server EXCEPT !.due = TRUE,
                              !.postponed = IF @ = "recently" THEN "long" ELSE @]
  /\ UNCHANGED <<child, other, main, writes, replied>>

\* bioProcessBackgroundJobs: at least what was in the file when the job was created is
\* on disk.
BioFsync ==
  /\ server.jobs # <<>>
  /\ LET job == Head(server.jobs) IN
     server' = [server EXCEPT !.jobs = Tail(@),
                  !.synced = IF job.file = "current"
                             THEN Max({@, Min({job.upto, Len(server.file)})}) ELSE @]
  /\ UNCHANGED <<child, other, main, writes, replied>>

-----------------------------------------------------------------------------
(* The rewrite. *)

\* rewriteAppendOnlyFileBackground.  The child has the dataset as it is now.
BugForked(s) == [s EXCEPT !.scheduled = FALSE, !.stopSendingDiff = FALSE]
Forked(s) == [s EXCEPT !.scheduled = FALSE, !.stopSendingDiff = FALSE, !.selected = -1]

NewChild == [pc |-> "saving", snapshot |-> Len(writes), diff |-> <<>>, pipe |-> <<>>]

\* bgrewriteaofCommand, and serverCron when the file has grown.
BgRewriteAof ==
  /\ main = "loop" /\ situation.rewrites /\ child = NULL
  /\ IF other THEN server' = [server EXCEPT !.scheduled = TRUE] /\ UNCHANGED child
     ELSE server' = Forked(server) /\ child' = NewChild
  /\ UNCHANGED <<other, main, writes, replied>>

\* serverCron starts a rewrite that was scheduled.
ScheduledRewrite ==
  /\ main = "loop" /\ server.scheduled /\ ~Active
  /\ server' = Forked(server) /\ child' = NewChild
  /\ UNCHANGED <<other, main, writes, replied>>

\* aofChildWriteDiffData: the pipe takes all differences, or some.
ChildWriteDiffData(n) ==
  /\ main = "loop" /\ child # NULL /\ ~server.stopSendingDiff
  /\ server.rewriteBuf # <<>>
  /\ server' = [server EXCEPT !.rewriteBuf = SubSeq(@, n + 1, Len(@))]
  /\ child' = [child EXCEPT !.pipe = @ \o SubSeq(server.rewriteBuf, 1, n)]
  /\ UNCHANGED <<other, main, writes, replied>>

\* aofReadDiffFromParent, while the child saves.
ReadDiffFromParent ==
  /\ child # NULL /\ child.pc = "saving"
  /\ child' = [child EXCEPT !.diff = @ \o child.pipe, !.pipe = <<>>]
  /\ UNCHANGED <<server, other, main, writes, replied>>

\* rewriteAppendOnlyFile: the child asks the parent to stop.
ChildAsks ==
  /\ child # NULL /\ child.pc = "saving"
  /\ child' = [child EXCEPT !.pc = "asked"]
  /\ UNCHANGED <<server, other, main, writes, replied>>

\* aofChildPipeReadable: the parent stops, and agrees.
ChildPipeReadable ==
  /\ main = "loop" /\ child # NULL /\ child.pc = "asked" /\ ~server.stopSendingDiff
  /\ server' = [server EXCEPT !.stopSendingDiff = TRUE]
  /\ UNCHANGED <<child, other, main, writes, replied>>

\* The child has the answer: it reads the final differences, and syncs the file.
BugFinalDiff(c) == c.diff
FinalDiff(c) == c.diff \o c.pipe

ChildFinishes ==
  /\ child # NULL /\ child.pc = "asked" /\ server.stopSendingDiff
  /\ child' = [child EXCEPT !.pc = "done", !.diff = FinalDiff(child), !.pipe = <<>>]
  /\ UNCHANGED <<server, other, main, writes, replied>>

\* A write fails, the answer does not come in time, or the child is killed.
ChildFails ==
  /\ situation.faults /\ child # NULL /\ child.pc \in {"saving", "asked"}
  /\ child' = [child EXCEPT !.pc = "failed"]
  /\ UNCHANGED <<server, other, main, writes, replied>>

\* The end of backgroundRewriteDoneHandler.
BugCleanup(s) == [s EXCEPT !.rewriteBuf = <<>>]
Cleanup(s) == [s EXCEPT !.rewriteBuf = <<>>,
                        !.scheduled = IF s.state = "wait" THEN TRUE ELSE @]

\* backgroundRewriteDoneHandler when the child has failed, or the differences cannot be
\* written, or the file cannot be renamed.
RewriteFailed ==
  /\ main = "loop" /\ child # NULL
  /\ child.pc = "failed" \/ (situation.faults /\ child.pc = "done")
  /\ server' = Cleanup(server) /\ child' = NULL
  /\ UNCHANGED <<other, main, writes, replied>>

\* The rest of the differences is appended to the new file, unsynced, and the file
\* is renamed.
BugResidualDiff(s) == <<>>
ResidualDiff(s) == s.rewriteBuf

RewriteRenamed ==
  /\ main = "loop" /\ child # NULL /\ child.pc = "done" /\ Len(server.jobs) <= MaxJobs
  /\ LET new == <<Snapshot(child.snapshot)>> \o child.diff
         renamed == [server EXCEPT
           !.file = new \o ResidualDiff(server), !.synced = Len(new),
           !.jobs = [i \in DOMAIN @ |-> [@[i] EXCEPT !.file = "closed"]]]
     IN IF server.state = "off"
        THEN server' = Cleanup(renamed) /\ child' = NULL /\ UNCHANGED main
        ELSE server' = renamed /\ main' = "renamed" /\ UNCHANGED child
  /\ UNCHANGED <<other, writes, replied>>

\* The server switches to the new file.
Switched(s) == [s EXCEPT !.state = "on", !.selected = -1, !.buf = <<>>]

RewriteSwitched ==
  /\ main = "renamed"
  /\ LET s == CASE situation.appendfsync = "always" -> Sync(server)
                [] situation.appendfsync = "everysec" -> Enqueue(server)
                [] situation.appendfsync = "no" -> server
     IN server' = Cleanup([Switched(s) EXCEPT !.size = Len(s.file), !.fsyncOffset = Len(s.file)])
  /\ child' = NULL /\ main' = "loop"
  /\ UNCHANGED <<other, writes, replied>>

-----------------------------------------------------------------------------
(* CONFIG SET appendonly, and shutdown. *)

\* killAppendOnlyChild.
KillChild(s) == [s EXCEPT !.rewriteBuf = <<>>]

\* stopAppendOnly.
StopAppendOnly(o) ==
  /\ main = "loop" /\ situation.switches /\ server.state # "off" /\ o \in Outcomes(server)
  /\ IF Exits(server, o) THEN Restart(Written(server, o).file, server.synced)
     ELSE LET s == Sync(Flush(server, Active, TRUE, o)) IN
          /\ server' = [KillChild(s) EXCEPT
               !.state = "off", !.selected = -1, !.scheduled = FALSE,
               !.jobs = [i \in DOMAIN @ |-> [@[i] EXCEPT !.file = "closed"]]]
          /\ child' = NULL
          /\ UNCHANGED <<other, main, writes, replied>>

\* startAppendOnly: the file is in use when it has been rewritten.
Started(s) == [s EXCEPT !.state = "wait", !.due = FALSE]

StartAppendOnly ==
  /\ main = "loop" /\ situation.switches /\ server.state = "off"
  /\ \/ /\ other
        /\ server' = [Started(server) EXCEPT !.scheduled = TRUE] /\ UNCHANGED child
     \/ /\ ~other
        /\ server' = Started(Forked(KillChild(server))) /\ child' = NewChild
     \/ /\ ~other /\ child # NULL /\ situation.faults   \* fork fails
        /\ server' = KillChild(server) /\ child' = NULL
  /\ UNCHANGED <<other, main, writes, replied>>

\* prepareForShutdown with the file in use, and a restart.
Shutdown(o) ==
  /\ main = "loop" /\ situation.crashes /\ server.state # "off" /\ o \in Outcomes(server)
  /\ ~(server.state = "wait" /\ child # NULL)
  /\ LET s == IF Exits(server, o) THEN Written(server, o)
              ELSE Sync(Flush(KillChild(server), FALSE, TRUE, o))
     IN Restart(s.file, s.synced)

\* A BGSAVE begins or ends.
OtherChild ==
  /\ main = "loop" /\ situation.switches /\ child = NULL
  /\ other' = ~other
  /\ UNCHANGED <<server, child, main, writes, replied>>

-----------------------------------------------------------------------------

Child == ReadDiffFromParent \/ ChildAsks \/ ChildFinishes \/ ChildFails

Parent ==
  \/ \E n \in 1..Len(server.rewriteBuf) : ChildWriteDiffData(n)
  \/ BgRewriteAof \/ ScheduledRewrite \/ ChildPipeReadable
  \/ RewriteFailed \/ RewriteRenamed \/ RewriteSwitched

Next ==
  /\ \/ \E db \in DBs : Write(db)
     \/ \E o \in Outcomes(server) : BeforeSleep(o) \/ CronFlush(o) \/ StopAppendOnly(o) \/ Shutdown(o)
     \/ Second \/ BioFsync \/ Child \/ Parent \/ StartAppendOnly \/ OtherChild
     \/ Killed \/ PowerFailure
  /\ UNCHANGED situation

Spec == Init /\ [][Next]_vars

\* The clock, the loop, cron and the background thread go on.  The disk does not fail
\* for ever, children do not, and other children end.
WholeWrite == [bytes |-> Len(server.buf), undone |-> FALSE]

Step(A) == A /\ UNCHANGED situation

Fairness ==
  /\ SF_vars(Step(BeforeSleep(WholeWrite))) /\ SF_vars(Step(CronFlush(WholeWrite)))
  /\ WF_vars(Step(Second)) /\ WF_vars(Step(BioFsync))
  /\ SF_vars(Step(ChildAsks)) /\ SF_vars(Step(ChildPipeReadable)) /\ SF_vars(Step(ChildFinishes))
  /\ SF_vars(Step(RewriteRenamed)) /\ WF_vars(Step(RewriteSwitched)) /\ WF_vars(Step(RewriteFailed))
  /\ SF_vars(Step(ScheduledRewrite)) /\ WF_vars(Step(OtherChild /\ other))

FairSpec == Spec /\ Fairness

-----------------------------------------------------------------------------

\* What a restart finds after a crash of the process, and after a power failure.
Recoverable == Load(server.file).n
Durable == Load(SubSeq(server.file, 1, server.synced)).n

Bytes == {<<kind, x, half>> : kind \in {"select", "write"}, x \in 0..situation.writes, half \in 1..2}
         \union {Snapshot(n) : n \in 0..situation.writes} \union {Hole}

\* The types, and that at most one child is active.
TypeOK ==
  /\ server.state \in {"off", "wait", "on"} /\ server.selected \in DBs \union {-1}
  /\ \A bytes \in {server.buf, server.rewriteBuf, server.file} : Range(bytes) \subseteq Bytes
  /\ server.synced \in 0..Len(server.file) /\ server.postponed \in {"no", "recently", "long"}
  /\ server.status \in {"ok", "err"} /\ writes \in Seq(DBs) /\ replied \in 0..Len(writes)
  /\ main \in {"loop", "renamed"} /\ ~(child # NULL /\ other)

\* Whatever end of the file a power failure takes away, the server can read the rest,
\* and restores the dataset after some number of writes: none is missing before another
\* one, repeated, or applied to another database.  The file may have been rewritten
\* while writes went on, and writes may have failed half way.
RecoversPrefix ==
  server.state = "on" =>
    \A n \in server.synced..Len(server.file) : Load(SubSeq(server.file, 1, n)).ok

\* Who was answered finds the write in the file, unless the flush has been put off or
\* the server refuses writes since the last one has failed.
WrittenBeforeReply ==
  server.state = "on" /\ server.postponed = "no" /\ server.status = "ok"
    => Recoverable >= replied

\* With appendfsync always a write that was answered survives a power failure, but for
\* the moment between rename and fsync at the end of a rewrite.
AlwaysDurable ==
  server.state = "on" /\ situation.appendfsync = "always" /\ ~situation.noFsyncOnRewrite
    /\ main = "loop" => Durable >= replied

\* A switch to a rewritten file, a flush that fails or its repetition never takes back
\* what a crash of the process would have left.
NeverForgets ==
  [][server.state = "on" /\ server'.state = "on" /\ ~PowerFailure
       => Recoverable <= Recoverable']_vars

\* With appendfsync everysec all writes are on disk in the end, also if no other follows,
\* if fsyncs are slow, or the file is rewritten.
EventuallyDurable == []<>(EverySec /\ server.state = "on" => Durable = Len(writes))

\* CONFIG SET appendonly yes takes effect, also if another child is active, if children
\* fail or the new file cannot be put in place.
SwitchedOn == server.state = "wait" ~> server.state # "wait"
=============================================================================
