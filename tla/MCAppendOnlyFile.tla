-------------------------- MODULE MCAppendOnlyFile --------------------------
(* The append only file with two databases. *)
EXTENDS AppendOnlyFile

Situation(policy, noFsync, rewrites, switches, faults, crashes, max) ==
  [appendfsync |-> policy, noFsyncOnRewrite |-> noFsync, rewrites |-> rewrites,
   switches |-> switches, faults |-> faults, crashes |-> crashes, writes |-> max]

\* Rewrites and crashes; writes that fail, and crashes.
Crashing ==
  {Situation("always", FALSE, TRUE, FALSE, FALSE, TRUE, 2)}
    \union {Situation(policy, FALSE, FALSE, FALSE, TRUE, TRUE, 2) : policy \in {"always", "no"}}

\* The clock and the background thread: rewrites; writes that fail.
Timed ==
  {Situation("everysec", noFsync, TRUE, FALSE, FALSE, FALSE, 1) : noFsync \in BOOLEAN}
    \union {Situation("everysec", FALSE, FALSE, FALSE, TRUE, FALSE, 2)}

\* CONFIG SET appendonly, with slow fsyncs, or with rewrites, and writes
\* and children that fail.
Switching ==
  {Situation("everysec", FALSE, FALSE, TRUE, FALSE, FALSE, 1),
   Situation("no", FALSE, TRUE, TRUE, TRUE, FALSE, 1),
   Situation("always", FALSE, FALSE, TRUE, TRUE, FALSE, 1)}

Main == Crashing \union Timed \union Switching
=============================================================================
