--------------------------- MODULE MCTransactions ---------------------------
(* Transactions, blocked clients and gets with two keys. *)
EXTENDS Transactions

CONSTANTS c1, c2, c3, k1, k2, t1, t2

ClientSymmetry == Permutations({c2, c3})

Situation(clients, users, commands, queued, sync) ==
  [clients |-> clients, users |-> users, commands |-> commands, queued |-> queued, sync |-> sync]

Set(key, v) == Cmd("set", <<key>>, v)
Get(key) == Cmd("get", <<key>>, NULL)
Del(key) == Cmd("del", <<key>>, NULL)
Rpush(key, v) == Cmd("rpush", <<key>>, v)
Blpop(keys) == Cmd("blpop", keys, NULL)
Brpoplpush == Cmd("brpoplpush", <<k1, k2>>, NULL)
Flushall == Cmd("flushall", <<>>, NULL)
Unwatch == Cmd("unwatch", <<>>, NULL)

\* Two clients, one with transactions, and gets that fill the cache.
Watched(sync) ==
  Situation({c1, c2}, {c1},
            {Set(k1, t1), Get(k1), Del(k1), Rpush(k1, t2), Blpop(<<k1>>), Flushall, Unwatch},
            {Set(k1, t2), Get(k1), Rpush(k2, t1), Brpoplpush}, sync)

\* Two clients block on lists; the third pushes, also in transactions.
Blocked ==
  Situation({c1, c2, c3}, {c1},
            {Blpop(<<k2, k1>>), Blpop(<<k2>>), Brpoplpush, Rpush(k1, t1), Del(k2)},
            {Rpush(k1, t1), Rpush(k1, t2), Set(k2, t1), Del(k1)}, TRUE)

\* Three clients get two keys.
Getting ==
  Situation({c1, c2, c3}, {}, {Get(k1), Get(k2), Set(k1, t1), Del(k1), Blpop(<<k1, k2>>)}, {}, TRUE)

WatchedOrBlocked == {Watched(TRUE), Watched(FALSE), Blocked, Getting}
=============================================================================
