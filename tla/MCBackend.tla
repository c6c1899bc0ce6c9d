----------------------------- MODULE MCBackend -----------------------------
(* Clients, commands and configurations for the runs of Backend. *)
EXTENDS Backend, TLC

CONSTANTS c1, c2

ClientSymmetry == Permutations(Clients)

Cmd(name, db, key, val, exp, opts, victim) ==
  [name |-> name, db |-> db, key |-> key, val |-> val, exp |-> exp, opts |-> opts,
   victim |-> victim]

Get(db, k) == Cmd("get", db, k, NULL, NULL, {}, NULL)
Del(k) == Cmd("del", 0, k, NULL, NULL, {}, NULL)
Unlink(k) == Cmd("unlink", 0, k, NULL, NULL, {}, NULL)
Set(k, v) == Cmd("set", 0, k, v, NULL, {}, NULL)
SetEx(k, exp, v) == Cmd("setex", 0, k, v, exp, {}, NULL)
SetNx(k, v) == Cmd("setnx", 0, k, v, NULL, {}, NULL)
KillClient(c) == Cmd("kill", 0, CHOOSE k \in Keys : TRUE, NULL, NULL, {}, c)

Gets == {Get(db, k) : db \in DBs, k \in Keys}
Sets == {Set(k, v) : k \in Keys, v \in {"a", "b"}}
Dels == {Del(k) : k \in Keys}

\* Plain gets, sets and dels.
PlainCommands == Gets \union Sets \union Dels
PlainOnK == {Get(0, "k"), Set("k", "a"), Del("k")}
GetSetCommands == Gets \union Sets

\* Sets of every form that is well-formed.
WriteCommands ==
  {Cmd("set", 0, k, v, exp, opts, NULL) :
     k \in {"k"}, v \in {"a", "b"}, exp \in PosTexts \union {NULL}, opts \in {{}, {"keepttl"}}}

\* What the checks and handlers of backend.c are least prepared for: setex, whose
\* argv[2] is not the value, setnx, options, bad options, and killed clients.
OddCommands ==
  UNION {{Get(0, k), Set(k, "a"), Set(k, "1"), SetEx(k, "1", "a"), SetNx(k, "a"), Unlink(k)}
          \union {Cmd("set", 0, k, "a", NULL, {opt}, NULL) : opt \in {"xx", "bad"}}
         : k \in Keys}
    \union {KillClient(c) : c \in Clients}

KillCommands == Gets \union {KillClient(c) : c \in Clients}

Config(db, stmts, sync) == [db |-> db, stmts |-> stmts, sync |-> sync]
AllSync == {Config("sql", Modes, Modes)}
SyncAndAsync == {Config("sql", Modes, Modes), Config("sql", Modes, {})}
AnyDatabase == AllSync \union {Config("grpc", Modes, Modes), Config("none", Modes, Modes)}
AnyStatements == SyncAndAsync \union {Config("sql", {}, Modes)}

\* Tables with rows for the keys ks only.
Rows(ks, texts) == {[k \in Keys |-> IF k \in ks THEN r[k] ELSE NULL] : r \in [ks -> texts \union {NULL}]}

Workload(rows, commands, configs, ttl, failures, disconnects) ==
  [databases |-> rows, commands |-> commands, configs |-> configs, getTtl |-> ttl,
   failures |-> failures, disconnects |-> disconnects]

\* Waiting clients, a database that fails, and connections that break; every
\* database; every choice of statements, with fetched keys that expire; commands of
\* every form.
MainWorkloads ==
  {Workload(Rows(Keys, {"a", "b"}), PlainCommands, AllSync, FALSE, {"before", "after"}, TRUE),
   Workload(Rows(Keys, {"a"}), PlainOnK, AnyDatabase, FALSE, {}, FALSE),
   Workload(Rows(Keys, {"a"}), PlainOnK, AnyStatements, TRUE, {}, FALSE),
   Workload(Rows(Keys, {"a", ""}), OddCommands, AllSync, FALSE, {}, FALSE)}

\* Reads alone, writes alone, and everything with one key.
CaseWorkloads ==
  {Workload(Rows(Keys, {"a"}), Gets, AllSync, FALSE, {}, FALSE),
   Workload(Rows({"k"}, {"a", "b"}), WriteCommands, SyncAndAsync, FALSE, {}, FALSE),
   Workload(Rows({"k"}, {"a"}), PlainOnK, AllSync, FALSE, {"before"}, TRUE)}

StaleFillWorkloads == {Workload(Rows(Keys, Texts), GetSetCommands, AllSync, FALSE, {}, FALSE)}
KilledWaiterWorkloads == {Workload(Rows(Keys, Texts), KillCommands, AllSync, FALSE, {}, FALSE)}
=============================================================================
