-------------------------- MODULE BackendInvariant --------------------------
(***************************************************************************)
(* The inductive invariant of Backend, for all clients, databases, keys,   *)
(* values and workloads: what the operators of Backend compute, what its   *)
(* actions do to the state, and one lemma for each action.                 *)
(***************************************************************************)
EXTENDS Backend, TLAPS, WellFoundedInduction

-----------------------------------------------------------------------------
(* Facts about the operators. *)

\* A set of numbers that is not empty has a least one.
LEMMA Least ==
  ASSUME NEW T \in SUBSET Nat, T # {}
  PROVE  \E x \in T : \A y \in T : x <= y
<1> DEFINE R == OpToRel(<, Nat)
<1>1. T \subseteq Nat
  BY Zenon
<1>2. \E x \in T : \A y \in T : ~(<<y, x>> \in R)
  <2> HIDE DEF R
  <2> QED BY Zenon, NatLessThanWellFounded, WFMin DEF R
<1>3. PICK x \in T : \A y \in T : ~(<<y, x>> \in R)
  BY Zenon, <1>2
<1>4. \A y \in T : ~(y < x)
  BY Zenon, <1>1, <1>3 DEF OpToRel
<1>5. \A y \in T : x <= y
  <2> HIDE DEF R
  <2> QED BY <1>1, <1>4
<1> QED BY Zenon, <1>5

\* What appending does to the members of a list.
LEMMA AppendFacts ==
  ASSUME NEW C, NEW s \in Seq(C), NEW e \in C
  PROVE  /\ Append(s, e) \in Seq(C)
         /\ Range(Append(s, e)) = Range(s) \union {e}
         /\ IsInjective(s) /\ e \notin Range(s) => IsInjective(Append(s, e))
<1>1. /\ Append(s, e) \in Seq(C) /\ DOMAIN Append(s, e) = 1..(Len(s) + 1)
      /\ Append(s, e)[Len(s) + 1] = e /\ \A i \in 1..Len(s) : Append(s, e)[i] = s[i]
      /\ DOMAIN s = 1..Len(s) /\ Len(s) \in Nat
  OBVIOUS
<1>2. Range(Append(s, e)) = Range(s) \union {e}
  <2>1. ASSUME NEW x \in Range(Append(s, e))
        PROVE  x \in Range(s) \union {e}
    <3>1. PICK i \in 1..(Len(s) + 1) : x = Append(s, e)[i]
      BY Zenon, <1>1 DEF Range
    <3>2. i = Len(s) + 1 \/ i \in 1..Len(s)
      BY <1>1
    <3> QED BY Zenon, <1>1, <3>1, <3>2 DEF Range
  <2>2. Range(s) \subseteq Range(Append(s, e))
    <3> SUFFICES ASSUME NEW i \in 1..Len(s)
                 PROVE  \E j \in 1..(Len(s) + 1) : Append(s, e)[j] = s[i]
      BY <1>1 DEF Range
    <3> QED BY <1>1
  <2>3. e \in Range(Append(s, e))
    <3>1. Len(s) + 1 \in 1..(Len(s) + 1)
      BY <1>1
    <3> QED BY Zenon, <1>1, <3>1 DEF Range
  <2> QED BY Zenon, <2>1, <2>2, <2>3
<1>3. ASSUME IsInjective(s), e \notin Range(s)
      PROVE  IsInjective(Append(s, e))
  <2> SUFFICES ASSUME NEW i \in 1..(Len(s) + 1), NEW j \in 1..(Len(s) + 1),
                      Append(s, e)[i] = Append(s, e)[j]
               PROVE  i = j
    BY Zenon, <1>1 DEF IsInjective
  <2>1. (i = Len(s) + 1 \/ i \in 1..Len(s)) /\ (j = Len(s) + 1 \/ j \in 1..Len(s))
    BY <1>1
  <2>2. \A k \in 1..Len(s) : s[k] # e
    BY Zenon, <1>1, <1>3 DEF Range
  <2> QED BY Zenon, <1>1, <1>3, <2>1, <2>2 DEF IsInjective
<1> QED BY Zenon, <1>1, <1>2, <1>3

\* releaseWhenFreeClient deletes the nodes of a client and no other, in their order.
LEMMA WithoutFacts ==
  ASSUME NEW C, NEW s \in Seq(C), NEW c
  PROVE  /\ Without(s, c) \in Seq(C)
         /\ Range(Without(s, c)) = Range(s) \ {c}
         /\ IsInjective(s) => IsInjective(Without(s, c))
<1> DEFINE step(g, i) ==
             IF i = 0 THEN <<>> ELSE IF s[i] = c THEN g[i - 1] ELSE Append(g[i - 1], s[i])
           Is(g, n) == g = [i \in 0..n |-> step(g, i)]
<1>1. Len(s) \in Nat /\ DOMAIN s = 1..Len(s) /\ \A i \in 1..Len(s) : s[i] \in C
  OBVIOUS
<1>2. \E g : Is(g, Len(s))
  <2> DEFINE T == {n \in Nat : ~\E g : Is(g, n)}
  <2>1. T = {}
    <3> SUFFICES ASSUME T # {} PROVE FALSE
      BY Zenon
    <3>1. PICK n \in T : \A m \in T : n <= m
      <4> HIDE DEF T
      <4>1. T \in SUBSET Nat
        BY Zenon DEF T
      <4> QED BY Zenon, <4>1, Least
    <3>2. CASE n = 0
      <4> DEFINE g == [i \in 0..0 |-> <<>>]
      <4>1. Is(g, 0)
        OBVIOUS
      <4> QED BY Zenon, <3>1, <3>2, <4>1
    <3>3. CASE n # 0
      <4>1. n \in Nat /\ n - 1 \in Nat /\ n - 1 \notin T
        <5>1. n \in Nat
          BY Zenon, <3>1
        <5> HIDE DEF T
        <5> QED BY <3>1, <3>3, <5>1
      <4>2. PICK g : Is(g, n - 1)
        BY Zenon, <4>1
      <4> DEFINE h == [i \in 0..n |-> IF i = n THEN step(g, n) ELSE g[i]]
      <4>3. \A i \in 0..n : h[i] = step(h, i)
        <5> SUFFICES ASSUME NEW i \in 0..n PROVE h[i] = step(h, i)
          BY Zenon
        <5>1. CASE i = n
          <6>1. h[n] = step(g, n) /\ h[n - 1] = g[n - 1]
            BY <4>1
          <6> QED BY Zenon, <5>1, <6>1, <3>3
        <5>2. CASE i # n
          <6>1. i \in 0..(n - 1) /\ h[i] = g[i] /\ (i # 0 => h[i - 1] = g[i - 1])
            BY SMTT(30), <4>1, <5>2
          <6>2. g[i] = step(g, i)
            BY Zenon, <4>2, <6>1
          <6> QED BY Zenon, <6>1, <6>2
        <5> QED BY Zenon, <5>1, <5>2
      <4>4. Is(h, n)
        BY Zenon, <4>3
      <4> QED BY Zenon, <3>1, <4>4
    <3> QED BY Zenon, <3>2, <3>3
  <2> QED BY Zenon, <1>1, <2>1
<1>3. PICK g : Is(g, Len(s)) /\ Without(s, c) = g[Len(s)]
  <2> DEFINE k == CHOOSE k : Is(k, Len(s))
  <2>1. Is(k, Len(s))
    BY Zenon, <1>2
  <2>2. Without(s, c) = k[Len(s)]
    BY Zenon DEF Without
  <2> QED BY Zenon, <2>1, <2>2
<1> DEFINE Upto(i) == {s[j] : j \in 1..i}
           Good(i) == /\ g[i] \in Seq(C) /\ Range(g[i]) = Upto(i) \ {c}
                      /\ IsInjective(s) => IsInjective(g[i])
           T == {i \in Nat : i <= Len(s) /\ ~Good(i)}
<1>4. T = {}
  <2> SUFFICES ASSUME T # {} PROVE FALSE
    BY Zenon
  <2>1. PICK i \in T : \A j \in T : i <= j
    <3> HIDE DEF T
    <3>1. T \in SUBSET Nat
      BY Zenon DEF T
    <3> QED BY Zenon, <3>1, Least
  <2>2. i \in Nat /\ i <= Len(s) /\ i \in 0..Len(s) /\ ~Good(i)
    BY <1>1, <2>1
  <2>3. CASE i = 0
    <3>1. g[0] = <<>>
      BY Zenon, <1>3, <2>2, <2>3
    <3>2. Range(<<>>) = {} /\ Upto(0) = {} /\ IsInjective(<<>>) /\ <<>> \in Seq(C)
      BY DEF Range, IsInjective
    <3> QED BY Zenon, <2>2, <2>3, <3>1, <3>2
  <2>4. CASE i # 0
    <3>1. i - 1 \in Nat /\ i - 1 <= Len(s) /\ i \in 1..Len(s) /\ i - 1 \notin T
      <4> HIDE DEF T, Good
      <4> QED BY <1>1, <2>1, <2>2, <2>4
    <3>2. Good(i - 1)
      BY Zenon, <3>1
    <3>3. g[i] = IF s[i] = c THEN g[i - 1] ELSE Append(g[i - 1], s[i])
      BY Zenon, <1>3, <2>2, <2>4
    <3>4. Upto(i) = Upto(i - 1) \union {s[i]}
      <4>1. \A j \in 1..i : j = i \/ j \in 1..(i - 1)
        BY <3>1
      <4>2. \A j \in 1..(i - 1) : j \in 1..i
        BY <3>1
      <4>3. i \in 1..i
        BY <3>1
      <4> QED BY Zenon, <4>1, <4>2, <4>3
    <3>5. CASE s[i] = c
      BY Zenon, <2>2, <3>2, <3>3, <3>4, <3>5
    <3>6. CASE s[i] # c
      <4>1. g[i] = Append(g[i - 1], s[i]) /\ s[i] \in C
        BY Zenon, <1>1, <3>1, <3>3, <3>6
      <4>2. IsInjective(s) => s[i] \notin Range(g[i - 1])
        <5>1. IsInjective(s) => \A j \in 1..(i - 1) : s[j] # s[i]
          BY <1>1, <3>1 DEF IsInjective
        <5> QED BY Zenon, <3>2, <5>1
      <4>3. /\ g[i] \in Seq(C) /\ Range(g[i]) = Range(g[i - 1]) \union {s[i]}
            /\ IsInjective(g[i - 1]) /\ s[i] \notin Range(g[i - 1]) => IsInjective(g[i])
        <5> HIDE DEF Upto
        <5> QED BY <3>2, <4>1, AppendFacts
      <4>4. Range(g[i]) = Upto(i) \ {c}
        <5> HIDE DEF Upto
        <5> QED BY Zenon, <3>2, <3>4, <3>6, <4>3
      <4> QED BY Zenon, <2>2, <3>2, <4>2, <4>3, <4>4
    <3> QED BY Zenon, <3>5, <3>6
  <2> QED BY Zenon, <2>3, <2>4
<1>5. Good(Len(s))
  <2> HIDE DEF Good
  <2> QED BY <1>1, <1>4
<1>6. Upto(Len(s)) = Range(s)
  BY Zenon, <1>1 DEF Range
<1> QED BY Zenon, <1>3, <1>5, <1>6

\* An item is a pair, and a command of a workload has one.
LEMMA ItemFacts ==
  /\ \A cmd \in CommandShape : Item(cmd) \in Items
  /\ \A p \in Items : p = <<p[1], p[2]>> /\ p[1] \in DBs /\ p[2] \in Keys
BY DEF Item, Items, CommandShape

\* What a workload consists of.
LEMMA WorkloadFacts ==
  ASSUME TypeOK
  PROVE  /\ \A cmd \in workload.commands :
              /\ cmd \in CommandShape /\ cmd # NULL /\ Item(cmd) \in Items
              /\ cmd.name \in SetCommands => cmd.val \in Texts
         /\ workload.configs \subseteq ConfigShape
         /\ workload.getTtl \in BOOLEAN
         /\ workload.databases \subseteq [Keys -> Texts \union {NULL}]
BY Zenon, BackendAssumption, ItemFacts DEF TypeOK

\* A job is idle or for an item, and NULL is none of the values.
LEMMA JobFacts ==
  ASSUME TypeOK, NEW m \in Modes
  PROVE  /\ Idle.phase = "idle" /\ Idle.item = NULL /\ Idle \notin PendingJobs
         /\ job[m] # Idle => job[m] \in PendingJobs
         /\ job[m].phase \in {"posted", "called", "returned"} => job[m] # Idle
<1>1. Idle.phase = "idle" /\ Idle.item = NULL
  BY Zenon DEF Idle
<1>2. Idle \notin PendingJobs
  BY Zenon, <1>1 DEF PendingJobs
<1>3. job[m] \in PendingJobs \union {Idle}
  BY Zenon DEF TypeOK
<1> QED BY Zenon, <1>1, <1>2, <1>3

\* What NULL is different from, and which modes there are.
LEMMA NullFacts ==
  /\ NULL \notin Texts /\ NULL \notin Clients /\ NULL \notin Modes /\ NULL # "done"
  /\ NULL # "failed"
  /\ NULL # "assert same value" /\ NULL \notin Items /\ NULL \notin CacheEntries
  /\ NULL \notin Entries /\ NULL \notin CommandShape
  /\ Modes = {"get", "set", "del"} /\ "get" \in Modes /\ "set" \in Modes /\ "del" \in Modes
  /\ DBs \subseteq Nat
BY Zenon, BackendAssumption DEF Modes

\* The members of a list.
LEMMA EmptyList == Range(<<>>) = {} /\ IsInjective(<<>>)
BY DEF Range, IsInjective

\* The members of a list of clients are clients, and one that is not empty has some.
LEMMA RangeType ==
  ASSUME NEW C, NEW s \in Seq(C)
  PROVE  /\ Range(s) \subseteq C
         /\ s # <<>> => Range(s) # {}
<1>1. DOMAIN s = 1..Len(s) /\ Len(s) \in Nat /\ \A i \in DOMAIN s : s[i] \in C
  OBVIOUS
<1>2. Range(s) \subseteq C
  BY Zenon, <1>1 DEF Range
<1>3. ASSUME s # <<>>
      PROVE  Range(s) # {}
  <2>1. 1 \in DOMAIN s
    BY <1>1, <1>3
  <2> QED BY Zenon, <2>1 DEF Range
<1> QED BY Zenon, <1>2, <1>3

\* An entry of the candidates of a mode lists clients.
LEMMA EntryFacts ==
  ASSUME TypeOK, NEW m \in Modes, NEW p \in Items
  PROVE  /\ cands[m] \in [Items -> Entries \union {NULL}]
         /\ cands[m][p] # NULL =>
              /\ cands[m][p] \in Entries
              /\ cands[m][p].clients \in Seq(Clients)
              /\ Range(cands[m][p].clients) \subseteq Clients
<1>1. cands[m] \in [Items -> Entries \union {NULL}]
  BY Zenon DEF TypeOK
<1>2. cands[m][p] # NULL => cands[m][p] \in Entries
  BY Zenon, <1>1
<1>3. cands[m][p] # NULL => cands[m][p].clients \in Seq(Clients)
  BY Zenon, <1>2 DEF Entries
<1> QED BY Zenon, <1>1, <1>2, <1>3, RangeType

\* The keyspace: every item has an entry or none.
CacheMaps == [Items -> CacheEntries \union {NULL}]

\* A lookup keeps the type of the keyspace, and so does storing a value.
LEMMA KeyspaceType ==
  ASSUME NEW ch \in CacheMaps, NEW p \in Items
  PROVE  /\ Expire(ch, p) \in CacheMaps
         /\ \A v \in Texts, enc \in {"int", "str"}, k \in BOOLEAN, t \in BOOLEAN :
              SetKey(ch, p, v, enc, k, t) \in CacheMaps
<1>1. Expire(ch, p) \in CacheMaps
  BY Zenon DEF Expire, CacheMaps
<1>2. ASSUME NEW v \in Texts, NEW enc \in {"int", "str"}, NEW k \in BOOLEAN, NEW t \in BOOLEAN
      PROVE  SetKey(ch, p, v, enc, k, t) \in CacheMaps
  <2> DEFINE ttl == IF t THEN "live" ELSE IF k /\ Live(ch, p) THEN ch[p].ttl ELSE "none"
             entry == [val |-> v, enc |-> enc, ttl |-> ttl]
  <2>1. ttl \in {"none", "live", "due"}
    BY Zenon DEF Live, CacheMaps, CacheEntries
  <2>2. entry \in CacheEntries
    <3> HIDE DEF ttl
    <3> QED BY Zenon, <2>1 DEF CacheEntries
  <2>3. SetKey(ch, p, v, enc, k, t) = [ch EXCEPT ![p] = entry]
    BY Zenon DEF SetKey
  <2> HIDE DEF entry
  <2> QED BY Zenon, <2>2, <2>3 DEF CacheMaps
<1> QED BY Zenon, <1>1, <1>2

\* A command keeps the type of the keyspace and of the failure flags.
LEMMA ExecType ==
  ASSUME NEW cmd \in CommandShape, cmd.name # "kill",
         cmd.name \in SetCommands => cmd.val \in Texts,
         NEW ch \in CacheMaps, NEW set \in BOOLEAN, NEW del \in BOOLEAN
  PROVE  /\ Exec(cmd, ch, set, del).cache \in CacheMaps
         /\ Exec(cmd, ch, set, del).setReply \in BOOLEAN
         /\ Exec(cmd, ch, set, del).delReply \in BOOLEAN
<1>1. Item(cmd) \in Items
  BY Zenon, ItemFacts
<1>2. Expire(ch, Item(cmd)) \in CacheMaps
  BY Zenon, <1>1, KeyspaceType
<1>3. CASE cmd.name = "get"
  <2>1. Exec(cmd, ch, set, del) = ExecGet(cmd, ch, set, del)
    BY Zenon, <1>3 DEF Exec, SetCommands
  <2> QED BY <1>2, <2>1 DEF ExecGet, Outcome
<1>4. CASE cmd.name \in SetCommands
  <2> DEFINE sk == SetKey(ch, Item(cmd), cmd.val, IF cmd.val \in IntTexts THEN "int" ELSE "str",
                          "keepttl" \in cmd.opts, cmd.exp # NULL)
  <2>1. sk \in CacheMaps
    <3> DEFINE ttl == IF cmd.exp # NULL THEN "live"
                      ELSE IF "keepttl" \in cmd.opts /\ Live(ch, Item(cmd)) THEN ch[Item(cmd)].ttl
                      ELSE "none"
               entry == [val |-> cmd.val, enc |-> IF cmd.val \in IntTexts THEN "int" ELSE "str",
                         ttl |-> ttl]
    <3>1. ttl \in {"none", "live", "due"}
      BY Zenon, <1>1 DEF Live, CacheMaps, CacheEntries
    <3>2. entry \in CacheEntries
      <4> HIDE DEF ttl
      <4> QED BY Zenon, <1>4, <3>1 DEF CacheEntries
    <3>3. sk = [ch EXCEPT ![Item(cmd)] = entry]
      BY Zenon DEF SetKey
    <3> HIDE DEF entry, sk
    <3> QED BY Zenon, <1>1, <3>2, <3>3 DEF CacheMaps
  <2>2. Exec(cmd, ch, set, del) = ExecSet(cmd, ch, set, del)
    BY Zenon, <1>4 DEF Exec, SetCommands
  <2>3. ExecSet(cmd, ch, set, del).cache \in {ch, Expire(ch, Item(cmd)), sk}
    BY Zenon DEF ExecSet, Outcome
  <2>4. /\ ExecSet(cmd, ch, set, del).setReply \in {set, SetReplyConsumed}
        /\ ExecSet(cmd, ch, set, del).delReply = del
    BY Zenon DEF ExecSet, Outcome
  <2> HIDE DEF sk
  <2> QED BY Zenon, <1>2, <2>1, <2>2, <2>3, <2>4 DEF SetReplyConsumed
<1>5. CASE cmd.name \in {"del", "unlink"}
  <2>1. [ch EXCEPT ![Item(cmd)] = NULL] \in CacheMaps
    BY Zenon, <1>1 DEF CacheMaps
  <2>2. Exec(cmd, ch, set, del) = ExecDel(cmd, ch, set, del)
    BY Zenon, <1>5 DEF Exec, SetCommands
  <2>3. /\ ExecDel(cmd, ch, set, del).cache \in {ch, [ch EXCEPT ![Item(cmd)] = NULL]}
        /\ ExecDel(cmd, ch, set, del).setReply = set
        /\ ExecDel(cmd, ch, set, del).delReply \in {del, FALSE}
    BY Zenon DEF ExecDel, Outcome
  <2> QED BY Zenon, <2>1, <2>2, <2>3
<1> QED BY Zenon, <1>3, <1>4, <1>5 DEF CommandShape

\* The keyspace after the checks of checkNeedToBackendState.
LEMMA LookedUpType ==
  ASSUME TypeOK, NEW cmd \in workload.commands
  PROVE  LookedUp(cmd) \in CacheMaps
<1>1. Item(cmd) \in Items /\ cache \in CacheMaps
  BY Zenon, WorkloadFacts DEF TypeOK, CacheMaps
<1>2. Expire(cache, Item(cmd)) \in CacheMaps
  BY Zenon, <1>1, KeyspaceType
<1> QED BY Zenon, <1>1, <1>2 DEF LookedUp


\* releaseWhenFreeClient changes nothing in the dictionaries but the lists.
LEMMA WithoutClientFacts ==
  ASSUME TypeOK, NEW c \in Clients
  PROVE  /\ WithoutClient(c) \in [Modes -> [Items -> Entries \union {NULL}]]
         /\ \A m \in Modes, p \in Items :
              /\ cands[m][p] = NULL => WithoutClient(c)[m][p] = NULL
              /\ cands[m][p] # NULL =>
                   /\ WithoutClient(c)[m][p] # NULL
                   /\ WithoutClient(c)[m][p].val = cands[m][p].val
                   /\ WithoutClient(c)[m][p].ttl = cands[m][p].ttl
                   /\ Range(WithoutClient(c)[m][p].clients) = Range(cands[m][p].clients) \ {c}
                   /\ IsInjective(cands[m][p].clients) =>
                        IsInjective(WithoutClient(c)[m][p].clients)
<1>1. ASSUME NEW m \in Modes, NEW p \in Items, cands[m][p] = NULL
      PROVE  WithoutClient(c)[m][p] = NULL
  BY Zenon, <1>1 DEF WithoutClient
<1>2. ASSUME NEW m \in Modes, NEW p \in Items, cands[m][p] # NULL
      PROVE  /\ WithoutClient(c)[m][p] \in Entries
             /\ WithoutClient(c)[m][p].val = cands[m][p].val
             /\ WithoutClient(c)[m][p].ttl = cands[m][p].ttl
             /\ WithoutClient(c)[m][p].clients = Without(cands[m][p].clients, c)
             /\ cands[m][p].clients \in Seq(Clients)
  <2>1. cands[m][p] \in Entries /\ cands[m][p].clients \in Seq(Clients)
    BY Zenon, <1>2, EntryFacts
  <2>2. Without(cands[m][p].clients, c) \in Seq(Clients)
    BY Zenon, <2>1, WithoutFacts
  <2>3. WithoutClient(c)[m][p] = [cands[m][p] EXCEPT !.clients = Without(cands[m][p].clients, c)]
    BY Zenon, <1>2 DEF WithoutClient
  <2> QED BY Zenon, <2>1, <2>2, <2>3 DEF Entries
<1>3. ASSUME NEW m \in Modes, NEW p \in Items, cands[m][p] # NULL
      PROVE  /\ Range(WithoutClient(c)[m][p].clients) = Range(cands[m][p].clients) \ {c}
             /\ IsInjective(cands[m][p].clients) => IsInjective(WithoutClient(c)[m][p].clients)
  <2> DEFINE s == cands[m][p].clients
  <2>1. WithoutClient(c)[m][p].clients = Without(s, c) /\ s \in Seq(Clients)
    BY Zenon, <1>2, <1>3
  <2> HIDE DEF s
  <2>2. Range(Without(s, c)) = Range(s) \ {c} /\ (IsInjective(s) => IsInjective(Without(s, c)))
    BY Zenon, <2>1, WithoutFacts
  <2> QED BY Zenon, <2>1, <2>2 DEF s
<1>4. WithoutClient(c) \in [Modes -> [Items -> Entries \union {NULL}]]
  <2>1. \A m \in Modes, p \in Items : WithoutClient(c)[m][p] \in Entries \union {NULL}
    BY Zenon, <1>1, <1>2
  <2> QED BY Zenon, <2>1 DEF WithoutClient
<1>5. \A m \in Modes, p \in Items :
         cands[m][p] # NULL => WithoutClient(c)[m][p] # NULL
  <2> SUFFICES ASSUME NEW m \in Modes, NEW p \in Items, cands[m][p] # NULL
               PROVE  WithoutClient(c)[m][p] # NULL
    BY Zenon
  <2>1. WithoutClient(c)[m][p] \in Entries /\ NULL \notin Entries
    BY Zenon, <1>2, NullFacts
  <2> QED BY Zenon, <2>1
<1> QED BY Zenon, <1>1, <1>2, <1>3, <1>4, <1>5

\* The same, for one entry.
LEMMA WithoutClientEntry ==
  ASSUME TypeOK, NEW c \in Clients, NEW m \in Modes, NEW p \in Items, NEW new,
         new = WithoutClient(c)
  PROVE  /\ cands[m][p] = NULL <=> new[m][p] = NULL
         /\ cands[m][p] # NULL =>
              /\ new[m][p].val = cands[m][p].val
              /\ Range(new[m][p].clients) = Range(cands[m][p].clients) \ {c}
              /\ IsInjective(cands[m][p].clients) => IsInjective(new[m][p].clients)
BY Zenon, WithoutClientFacts

\* The result of a job is stored under its item.
LEMMA StoredType ==
  ASSUME TypeOK, NEW m \in Modes, job[m] \in PendingJobs
  PROVE  Stored(m, job[m]) \in CacheMaps
<1>1. cache \in CacheMaps /\ job[m].item \in Items /\ workload.getTtl \in BOOLEAN
      /\ job[m].ttl \in BOOLEAN
  BY Zenon, WorkloadFacts DEF TypeOK, CacheMaps, PendingJobs
<1>2. CASE m = "get" /\ job[m].res # NULL
  <2>1. job[m].res \in Texts
    BY Zenon, <1>2 DEF TypeOK
  <2>2. Stored(m, job[m]) = SetKey(cache, job[m].item, job[m].res, "str", TRUE, workload.getTtl)
    BY Zenon, <1>2 DEF Stored
  <2> QED BY Zenon, <1>1, <2>1, <2>2, KeyspaceType
<1>3. CASE m = "set" /\ job[m].res # NULL
  <2>1. job[m].val \in Texts
    BY Zenon, <1>3, JobFacts DEF TypeOK
  <2>2. Stored(m, job[m]) = SetKey(cache, job[m].item, job[m].val, "str", TRUE, job[m].ttl)
    BY Zenon, <1>3 DEF Stored
  <2> QED BY ZenonT(60), <1>1, <2>1, <2>2, KeyspaceType
<1>4. CASE ~(m = "get" /\ job[m].res # NULL) /\ ~(m = "set" /\ job[m].res # NULL)
  BY Zenon, <1>1, <1>4 DEF Stored
<1> QED BY Zenon, <1>2, <1>3, <1>4

\* One entry of one dictionary changes.
LEMMA EntryUpdate ==
  ASSUME TypeOK, NEW m \in Modes, NEW p \in Items, NEW e \in Entries \union {NULL}
  PROVE  /\ [cands EXCEPT ![m][p] = e] \in [Modes -> [Items -> Entries \union {NULL}]]
         /\ \A n \in Modes, q \in Items :
              [cands EXCEPT ![m][p] = e][n][q] = IF n = m /\ q = p THEN e ELSE cands[n][q]
<1>1. cands \in [Modes -> [Items -> Entries \union {NULL}]]
  BY Zenon DEF TypeOK
<1>2. cands[m] \in [Items -> Entries \union {NULL}]
  BY Zenon, <1>1
<1>3. [cands[m] EXCEPT ![p] = e] \in [Items -> Entries \union {NULL}]
  BY Zenon, <1>2
<1>4. [cands EXCEPT ![m][p] = e] = [cands EXCEPT ![m] = [cands[m] EXCEPT ![p] = e]]
  BY Zenon, <1>1, <1>2
<1>5. [cands EXCEPT ![m][p] = e] \in [Modes -> [Items -> Entries \union {NULL}]]
  BY Zenon, <1>1, <1>3, <1>4
<1>6. ASSUME NEW n \in Modes, NEW q \in Items
      PROVE  [cands EXCEPT ![m][p] = e][n][q] = IF n = m /\ q = p THEN e ELSE cands[n][q]
  <2>1. [cands EXCEPT ![m][p] = e][n] = IF n = m THEN [cands[m] EXCEPT ![p] = e] ELSE cands[n]
    BY Zenon, <1>1, <1>4
  <2> QED BY <1>2, <2>1
<1> QED BY Zenon, <1>5, <1>6

\* The list without its first client.
LEMMA TailFacts ==
  ASSUME NEW C, NEW s \in Seq(C), s # <<>>
  PROVE  /\ Head(s) \in C /\ Tail(s) \in Seq(C)
         /\ Range(s) = Range(Tail(s)) \union {Head(s)}
         /\ IsInjective(s) => IsInjective(Tail(s)) /\ Head(s) \notin Range(Tail(s))
<1>1. /\ Len(s) \in Nat \ {0} /\ DOMAIN s = 1..Len(s) /\ Head(s) = s[1] /\ s[1] \in C
      /\ Tail(s) \in Seq(C) /\ DOMAIN Tail(s) = 1..(Len(s) - 1)
      /\ \A i \in 1..(Len(s) - 1) : Tail(s)[i] = s[i + 1]
  OBVIOUS
<1>2. Range(s) \subseteq Range(Tail(s)) \union {Head(s)}
  <2> SUFFICES ASSUME NEW x \in Range(s), x # Head(s)
               PROVE  x \in Range(Tail(s))
    BY Zenon
  <2>1. PICK i \in 1..Len(s) : x = s[i]
    BY Zenon, <1>1 DEF Range
  <2>2. i - 1 \in 1..(Len(s) - 1) /\ Tail(s)[i - 1] = x
    BY <1>1, <2>1
  <2> QED BY Zenon, <1>1, <2>2 DEF Range
<1>3. Range(Tail(s)) \subseteq Range(s) /\ Head(s) \in Range(s)
  <2>1. \A i \in 1..(Len(s) - 1) : i + 1 \in 1..Len(s) /\ Tail(s)[i] = s[i + 1]
    BY <1>1
  <2>2. 1 \in 1..Len(s)
    BY <1>1
  <2> QED BY Zenon, <1>1, <2>1, <2>2 DEF Range
<1>4. ASSUME IsInjective(s)
      PROVE  IsInjective(Tail(s)) /\ Head(s) \notin Range(Tail(s))
  <2>1. \A i, j \in 1..Len(s) : s[i] = s[j] => i = j
    BY Zenon, <1>1, <1>4 DEF IsInjective
  <2>2. \A i \in 1..(Len(s) - 1) : i + 1 \in 1..Len(s) /\ i + 1 # 1
    BY <1>1
  <2>3. 1 \in 1..Len(s)
    BY <1>1
  <2>4. Head(s) \notin Range(Tail(s))
    BY <1>1, <2>1, <2>2, <2>3 DEF Range
  <2>5. IsInjective(Tail(s))
    BY <1>1, <2>1, <2>2 DEF IsInjective
  <2> QED BY Zenon, <2>4, <2>5
<1> QED BY Zenon, <1>1, <1>2, <1>3, <1>4

\* _hasAvailableCandidate finds one when there is one.
LEMMA CandidatesFound ==
  ASSUME NEW entries, NEW p \in Items, entries[p] # NULL
  PROVE  Candidates(entries) # {}
<1> DEFINE Q == {q \in Items : entries[q] # NULL}
           T == {q[1] : q \in Q}
<1>1. \A q \in Items : q[1] \in Nat
  BY Zenon, ItemFacts, NullFacts
<1>2. T \in SUBSET Nat /\ T # {}
  BY Zenon, <1>1
<1>3. PICK x \in T : \A y \in T : x <= y
  <2> HIDE DEF T
  <2> QED BY Zenon, <1>2, Least
<1>4. PICK q \in Q : x = q[1]
  BY Zenon, <1>3
<1>5. \A r \in Items : entries[r] # NULL => q[1] <= r[1]
  BY Zenon, <1>3, <1>4
<1> QED BY Zenon, <1>4, <1>5 DEF Candidates

\* A new job is for an entry, and there is none only when there are no entries.
LEMMA NewJobFacts ==
  ASSUME NEW entries \in [Items -> Entries \union {NULL}], NEW j \in NewJobs(entries)
  PROVE  \/ j = Idle /\ \A p \in Items : entries[p] = NULL
         \/ /\ j \in PendingJobs /\ j.phase = "posted" /\ j.res = NULL
            /\ j.item \in Items /\ entries[j.item] # NULL
            /\ j.val = entries[j.item].val
<1>1. CASE Candidates(entries) = {}
  BY Zenon, <1>1, CandidatesFound DEF NewJobs
<1>2. CASE Candidates(entries) # {}
  <2>1. PICK p \in Candidates(entries) :
          j = [phase |-> "posted", item |-> p, val |-> entries[p].val, ttl |-> entries[p].ttl,
               res |-> NULL]
    BY Zenon, <1>2 DEF NewJobs
  <2>2. p \in Items /\ entries[p] # NULL
    BY Zenon DEF Candidates
  <2>3. entries[p].val \in Texts \union {NULL} /\ entries[p].ttl \in BOOLEAN
    BY Zenon, <2>2 DEF Entries
  <2>4. j \in PendingJobs
    BY Zenon, <2>1, <2>2, <2>3 DEF PendingJobs
  <2> QED BY Zenon, <2>1, <2>2, <2>4
<1> QED BY Zenon, <1>1, <1>2

\* Which mode a command needs.
LEMMA ModeFacts ==
  ASSUME NEW cmd, NeededMode(cmd) # NULL
  PROVE  /\ NeededMode(cmd) \in Modes /\ cmd.name \in ModeNames(NeededMode(cmd))
         /\ cmd.name # "kill"
         /\ NeededMode(cmd) = "get" => NeedsGet(cmd)
         /\ NeededMode(cmd) = "set" => NeedsSet(cmd)
         /\ NeededMode(cmd) = "del" => NeedsDel(cmd)
<1>1. \/ NeedsGet(cmd) /\ NeededMode(cmd) = "get"
      \/ NeedsSet(cmd) /\ NeededMode(cmd) = "set"
      \/ NeedsDel(cmd) /\ NeededMode(cmd) = "del"
  BY DEF NeededMode
<1>2. /\ NeedsGet(cmd) => cmd.name = "get"
      /\ NeedsSet(cmd) => cmd.name \in SetCommands
      /\ NeedsDel(cmd) => cmd.name = "del"
  BY Zenon DEF NeedsGet, NeedsSet, ReachesSetChecks, NeedsDel
<1> QED BY Zenon, <1>1, <1>2 DEF Modes, ModeNames, SetCommands

\* A command that needs no mode passes none of the checks that would send it to the database.
LEMMA NoMode ==
  ASSUME NEW cmd, NeededMode(cmd) = NULL
  PROVE  ~NeedsGet(cmd) /\ ~NeedsSet(cmd) /\ ~NeedsDel(cmd)
<1>1. NULL # "get" /\ NULL # "set" /\ NULL # "del"
  BY Zenon, NullFacts
<1>2. /\ NeedsGet(cmd) => cmd.name = "get"
      /\ NeedsSet(cmd) => cmd.name \in SetCommands
      /\ NeedsDel(cmd) => cmd.name = "del"
  BY Zenon DEF NeedsGet, NeedsSet, ReachesSetChecks, NeedsDel
<1> QED BY Zenon, <1>1, <1>2 DEF NeededMode, SetCommands

\* Who reads commands is not registered.
LEMMA CurUnregistered ==
  ASSUME IInv, cur # NULL
  PROVE  /\ cur \in Clients /\ cur \in connected /\ state[cur] = NULL
         /\ cur \notin Range(todo)
         /\ \A m \in Modes, p \in Items :
              cands[m][p] # NULL => cur \notin Range(cands[m][p].clients)
<1>1. cur \in Clients /\ cur \in connected /\ state[cur] = NULL
  BY Zenon DEF IInv, TypeOK, MainInv
<1>2. Range(todo) # {} => todo # <<>>
  BY Zenon, EmptyList
<1>3. cur \notin Range(todo)
  BY Zenon, <1>1, <1>2 DEF IInv, CopiedWaits, MainInv
<1>4. ASSUME NEW m \in Modes, NEW p \in Items, cands[m][p] # NULL
      PROVE  cur \notin Range(cands[m][p].clients)
  BY Zenon, <1>1, <1>4, NullFacts DEF IInv, ListedWaits
<1> QED BY Zenon, <1>1, <1>3, <1>4

\* What _addKeyToBackendKeys does to the entry of a command.
LEMMA AddKeyFacts ==
  ASSUME TypeOK, NEW m \in Modes, NEW c \in Clients, NEW cmd \in workload.commands,
         NEW old, old = cands[m][Item(cmd)],
         old # NULL => IsInjective(old.clients) /\ c \notin Range(old.clients)
  PROVE  \E e \in Entries :
           /\ AddKey(m, c, cmd) = [cands EXCEPT ![m][Item(cmd)] = e]
           /\ e.val = IF old = NULL THEN cmd.val ELSE old.val
           /\ IsInjective(e.clients)
           /\ Range(e.clients) = (IF old = NULL THEN {} ELSE Range(old.clients))
                                   \union (IF m \in config.sync THEN {c} ELSE {})
<1> DEFINE joined == IF old = NULL THEN NewClients ELSE old.clients
           list == IF m \in config.sync THEN Append(joined, c) ELSE joined
           e == [clients |-> list, val |-> IF old = NULL THEN cmd.val ELSE old.val,
                 ttl |-> TtlForSet(cmd)]
<1>1. Item(cmd) \in Items /\ cmd \in CommandShape
  BY Zenon, WorkloadFacts
<1>2. old # NULL => old \in Entries /\ old.clients \in Seq(Clients)
  BY Zenon, <1>1, EntryFacts
<1>3. /\ joined \in Seq(Clients) /\ IsInjective(joined) /\ c \notin Range(joined)
      /\ Range(joined) = IF old = NULL THEN {} ELSE Range(old.clients)
  <2>1. CASE old = NULL
    <3>1. joined = <<>>
      BY Zenon, <2>1 DEF NewClients
    <3> QED BY <2>1, <3>1, EmptyList
  <2>2. CASE old # NULL
    <3>1. joined = old.clients
      BY Zenon, <2>2
    <3> HIDE DEF joined
    <3> QED BY Zenon, <1>2, <2>2, <3>1
  <2> QED BY Zenon, <2>1, <2>2
<1> HIDE DEF joined
<1>4. /\ list \in Seq(Clients) /\ IsInjective(list)
      /\ Range(list) = Range(joined) \union (IF m \in config.sync THEN {c} ELSE {})
  BY <1>3, AppendFacts
<1>5. AddKey(m, c, cmd) = [cands EXCEPT ![m][Item(cmd)] = e]
  BY Zenon DEF AddKey, joined
<1> HIDE DEF list
<1>6. e \in Entries
  <2>1. (IF old = NULL THEN cmd.val ELSE old.val) \in Texts \union {NULL}
    BY Zenon, <1>1, <1>2 DEF Entries, CommandShape
  <2>2. TtlForSet(cmd) \in BOOLEAN
    BY Zenon DEF TtlForSet
  <2> QED BY Zenon, <1>4, <2>1, <2>2 DEF Entries
<1>7. e.clients = list /\ e.val = IF old = NULL THEN cmd.val ELSE old.val
  BY Zenon
<1> HIDE DEF e
<1> QED BY Zenon, <1>3, <1>4, <1>5, <1>6, <1>7

\* What Enqueue does to the dictionaries and to the jobs: entry e of mode m.
Enqueued(cmd, m, e) ==
  LET p == Item(cmd) IN
  /\ m = NeededMode(cmd)
  /\ cands' \in [Modes -> [Items -> Entries \union {NULL}]]
  /\ \A n \in Modes, q \in Items :
       cands'[n][q] = IF n = m /\ q = p THEN e ELSE cands[n][q]
  /\ m = "set" => e.val = cmd.val
  /\ cands[m][p] # NULL => e.val = cands[m][p].val
  /\ IsInjective(e.clients)
  /\ Range(e.clients) = (IF cands[m][p] = NULL THEN {} ELSE Range(cands[m][p].clients))
                          \union (IF m \in config.sync THEN {cur} ELSE {})
  /\ \/ job[m] # Idle /\ job' = job
     \/ /\ job[m] = Idle /\ hmode # m
        /\ \E j \in PendingJobs :
             /\ job' = [job EXCEPT ![m] = j]
             /\ j.phase = "posted" /\ j.res = NULL
             /\ cands'[m][j.item] # NULL /\ j.val = cands'[m][j.item].val

\* Enqueue does that.
LEMMA EnqueueFacts ==
  ASSUME IInv, NEW cmd \in workload.commands, Enqueue(cmd)
  PROVE  \E m \in Modes, e \in Entries : Enqueued(cmd, m, e)
<1>0. TypeOK /\ MainInv /\ ListedWaits
  BY Zenon DEF IInv
<1> DEFINE m == NeededMode(cmd)
           p == Item(cmd)
           old == cands[m][p]
<1>1. m \in Modes /\ p \in Items /\ (m = "set" => NeedsSet(cmd))
  BY Zenon, <1>0, ModeFacts, WorkloadFacts DEF Enqueue
<1>2. /\ cur # NULL /\ cands' = AddKey(m, cur, cmd)
      /\ \/ AllNull(m) /\ \E j \in NewJobs(cands'[m]) : job' = [job EXCEPT ![m] = j]
         \/ ~AllNull(m) /\ UNCHANGED job
      /\ m = "set" => old = NULL \/ old.val = cmd.val
  BY Zenon, <1>1 DEF Enqueue, DifferentValueQueued
<1> HIDE DEF m
<1>3. cur \in Clients /\ (old # NULL => IsInjective(old.clients) /\ cur \notin Range(old.clients))
  <2>1. cur \in Clients /\ (old # NULL => cur \notin Range(old.clients))
    BY Zenon, <1>1, <1>2, CurUnregistered
  <2>2. old # NULL => IsInjective(old.clients)
    BY Zenon, <1>0, <1>1 DEF ListedWaits
  <2> QED BY Zenon, <2>1, <2>2
<1>4. PICK e \in Entries :
           /\ AddKey(m, cur, cmd) = [cands EXCEPT ![m][Item(cmd)] = e]
           /\ e.val = IF old = NULL THEN cmd.val ELSE old.val
           /\ IsInjective(e.clients)
           /\ Range(e.clients) = (IF old = NULL THEN {} ELSE Range(old.clients))
                                   \union (IF m \in config.sync THEN {cur} ELSE {})
  <2>1. old = cands[m][Item(cmd)]
    BY Zenon
  <2> HIDE DEF old, p
  <2> QED BY SMTT(30), <1>0, <1>1, <1>3, <2>1, AddKeyFacts
<1>5. /\ cands' \in [Modes -> [Items -> Entries \union {NULL}]]
      /\ \A n \in Modes, q \in Items :
           cands'[n][q] = IF n = m /\ q = p THEN e ELSE cands[n][q]
  <2>1. cands' = [cands EXCEPT ![m][p] = e]
    BY Zenon, <1>2, <1>4
  <2> HIDE DEF p, old
  <2> QED BY <1>0, <1>1, <2>1, EntryUpdate
<1> HIDE DEF p, old
<1>6. cands'[m] \in [Items -> Entries \union {NULL}] /\ cands'[m][p] # NULL
  BY <1>1, <1>4, <1>5, NullFacts
<1>7. \/ job[m] # Idle /\ job' = job
      \/ /\ job[m] = Idle /\ hmode # m
         /\ \E j \in PendingJobs :
              /\ job' = [job EXCEPT ![m] = j]
              /\ j.phase = "posted" /\ j.res = NULL
              /\ cands'[m][j.item] # NULL /\ j.val = cands'[m][j.item].val
  <2>1. CASE ~AllNull(m)
    BY Zenon, <1>2, <2>1 DEF AllNull
  <2>2. CASE AllNull(m)
    <3>1. job[m] = Idle /\ hmode # m
      BY Zenon, <1>0, <1>1, <2>2, JobFacts, NullFacts DEF AllNull, MainInv
    <3>2. PICK j \in NewJobs(cands'[m]) : job' = [job EXCEPT ![m] = j]
      BY Zenon, <1>2, <2>2
    <3>3. /\ j \in PendingJobs /\ j.phase = "posted" /\ j.res = NULL
          /\ j.item \in Items /\ cands'[m][j.item] # NULL
          /\ j.val = cands'[m][j.item].val
      BY Zenon, <1>1, <1>6, NewJobFacts
    <3> QED BY Zenon, <3>1, <3>2, <3>3
  <2> QED BY Zenon, <2>1, <2>2
<1>8. m = "set" => e.val = cmd.val
  BY Zenon, <1>2, <1>4
<1> QED BY ZenonT(60), <1>1, <1>4, <1>5, <1>7, <1>8 DEF Enqueued, m, p, old


\* Only a client that is resumed is answered after a job.
LEMMA OutStep ==
  ASSUME Running(ServerStep)
  PROVE  Resume \/ out'.via = NULL
<1>0. NoOut.via = NULL
  BY Zenon DEF NoOut
<1>1. ASSUME NEW c \in Clients, ReadQuery(c) \/ Disconnect(c) \/ Connect(c)
      PROVE  out' = NoOut
  BY Zenon, <1>1 DEF ReadQuery, Disconnect, Connect
<1>2. CASE EndInput \/ ResumeFreed \/ Finish
  BY Zenon, <1>0, <1>2 DEF EndInput, ResumeFreed, Finish
<1>3. ASSUME NEW cmd \in workload.commands,
             Enqueue(cmd) \/ RunDirectly(cmd) \/ CheckFails(cmd) \/ Kill(cmd)
      PROVE  out'.via = NULL
  <2>1. CASE Enqueue(cmd)
    <3>1. \/ out' = NoOut
          \/ Call(cur, cmd, LookedUp(cmd), setReply[cur], delReply[cur], NULL)
      BY Zenon, <2>1 DEF Enqueue
    <3> QED BY <1>0, <3>1 DEF Call
  <2>2. CASE RunDirectly(cmd)
    <3>1. Call(cur, cmd, LookedUp(cmd), setReply[cur], delReply[cur], NULL)
      BY Zenon, <2>2 DEF RunDirectly
    <3> QED BY Zenon, <3>1 DEF Call
  <2>3. CASE CheckFails(cmd)
    BY Zenon, <1>0, <2>3 DEF CheckFails
  <2>4. CASE Kill(cmd)
    BY Zenon, <2>4 DEF Kill
  <2> QED BY Zenon, <1>3, <2>1, <2>2, <2>3, <2>4
<1>4. ASSUME NEW cfg \in workload.configs, ConfigSet(cfg)
      PROVE  out' = NoOut
  BY Zenon, <1>4 DEF ConfigSet
<1>5. ASSUME NEW m \in Modes, Handle(m) \/ WorkerStep(m)
      PROVE  out' = NoOut
  <2>1. CASE Handle(m)
    BY Zenon, <2>1 DEF Handle
  <2>2. CASE DbCall(m)
    BY Zenon, <2>2 DEF DbCall
  <2>3. CASE Return(m)
    BY Zenon, <2>3 DEF Return
  <2> QED BY Zenon, <1>5, <2>1, <2>2, <2>3 DEF WorkerStep
<1>6. ASSUME NEW p \in Items, TtlElapses(p)
      PROVE  out' = NoOut
  BY Zenon, <1>6 DEF TtlElapses
<1> QED BY Zenon, <1>0, <1>1, <1>2, <1>3, <1>4, <1>5, <1>6 DEF Running, ServerStep

\* Who is resumed, and with which outcome.
LEMMA ResumeFacts ==
  ASSUME IInv, Resume
  PROVE  LET c == Head(todo)
             failed == job[hmode].res = NULL
             o == Exec(argv[c], cache, setReply[c] \/ (hmode = "set" /\ failed),
                       FailedDel(c, failed))
         IN /\ hmode \in Modes /\ c \in Clients /\ c \in connected /\ c \in Range(todo)
            /\ argv[c] \in workload.commands /\ argv[c].name \in ModeNames(hmode)
            /\ Item(argv[c]) = job[hmode].item /\ job[hmode].phase = "returned"
            /\ job[hmode] \in PendingJobs
            /\ cache' = o.cache /\ setReply' = [setReply EXCEPT ![c] = o.setReply]
            /\ out' = [cmd |-> argv[c], via |-> IF failed THEN "failed" ELSE "done",
                       reply |-> o.reply]
<1> DEFINE c == Head(todo)
<1>0. TypeOK /\ MainInv /\ CopiedWaits /\ WaitsListed
  BY Zenon DEF IInv
<1>1. hmode \in Modes /\ todo \in Seq(Clients) /\ todo # <<>> /\ c \in connected
  BY Zenon, <1>0 DEF Resume, TypeOK
<1>2. c \in Clients /\ c \in Range(todo)
  BY <1>1, TailFacts
<1>3. Item(argv[c]) = job[hmode].item /\ state[c] = hmode /\ state[c] # NULL
  BY Zenon, <1>0, <1>1, <1>2, NullFacts DEF CopiedWaits
<1>4. argv[c] \in workload.commands /\ argv[c].name \in ModeNames(hmode)
  BY Zenon, <1>0, <1>2, <1>3 DEF WaitsListed, TypeOK
<1>5. job[hmode].phase = "returned" /\ job[hmode] \in PendingJobs
  BY Zenon, <1>0, <1>1, JobFacts, NullFacts DEF MainInv
<1> QED BY Zenon, <1>1, <1>2, <1>3, <1>4, <1>5 DEF Resume, Call

-----------------------------------------------------------------------------
(* Every action keeps the invariant. *)

\* The invariant holds initially.
LEMMA InitIInv == Init => IInv
<1> SUFFICES ASSUME Init PROVE IInv
  BY Zenon
<1>1. TypeOK
  <2>1. workload \in Workloads /\ config \in workload.configs
    BY Zenon DEF Init
  <2>2. database \in [Keys -> Texts \union {NULL}]
    BY Zenon, <2>1, BackendAssumption DEF Init
  <2>3. cands \in [Modes -> [Items -> Entries \union {NULL}]]
    BY Zenon DEF Init
  <2>4. job \in [Modes -> PendingJobs \union {Idle}]
    BY Zenon DEF Init
  <2>5. setReply \in [Clients -> BOOLEAN] /\ delReply \in [Clients -> BOOLEAN]
    BY Zenon DEF Init
  <2>6. cache \in [Items -> CacheEntries \union {NULL}]
    BY Zenon DEF Init
  <2>7. state \in [Clients -> Modes \union {NULL}] /\ argv \in [Clients -> workload.commands \union {NULL}]
    BY Zenon DEF Init
  <2>8. \A p \in Items : cands["set"][p] = NULL
    BY Zenon, NullFacts DEF Init
  <2>9. job["set"] = Idle /\ job["get"].res = NULL
    BY Zenon, NullFacts DEF Init, Idle
  <2>10. connected \subseteq Clients /\ cur = NULL /\ hmode = NULL /\ todo \in Seq(Clients)
    BY DEF Init
  <2> QED BY Zenon, <2>1, <2>2, <2>3, <2>4, <2>5, <2>6, <2>7, <2>8, <2>9, <2>10 DEF TypeOK
<1>2. MainInv /\ ListedWaits /\ WaitsListed /\ JobHasCandidate
  BY Zenon DEF Init, MainInv, ListedWaits, WaitsListed, JobHasCandidate, Modes
<1>3. CopiedWaits
  BY DEF Init, CopiedWaits, IsInjective, Range
<1> QED BY Zenon, <1>1, <1>2, <1>3 DEF IInv

\* A step that leaves clients, dictionaries and handler alone keeps all registrations.
LEMMA WaitFrame ==
  ASSUME IInv, UNCHANGED <<workload, cands, connected, state, argv, hmode, todo>>,
         hmode # NULL => job'[hmode] = job[hmode]
  PROVE  ListedWaits' /\ CopiedWaits' /\ WaitsListed'
<1>1. ListedWaits'
  BY DEF IInv, ListedWaits
<1>2. WaitsListed'
  BY Zenon DEF IInv, WaitsListed
<1>3. CopiedWaits'
  <2>1. Only({"get", "set", "del"})' <=> Only({"get", "set", "del"})
    BY Zenon DEF Only
  <2>2. todo # <<>> => hmode # NULL
    BY Zenon DEF IInv, MainInv
  <2>3. Range(todo) # {} => todo # <<>>
    BY DEF Range
  <2> QED BY Zenon, <2>1, <2>2, <2>3 DEF IInv, CopiedWaits
<1> QED BY Zenon, <1>1, <1>2, <1>3

\* A command is read.
LEMMA ReadQueryStep ==
  ASSUME IInv, UNCHANGED workload, NEW c \in Clients, ReadQuery(c)
  PROVE  IInv'
<1> USE NullFacts DEF IInv, ReadQuery, clientVars
<1>1. TypeOK'
  BY Zenon DEF TypeOK
<1>2. MainInv'
  BY Zenon DEF MainInv
<1>3. JobHasCandidate'
  BY ZenonT(60) DEF JobHasCandidate
<1> QED BY Zenon, <1>1, <1>2, <1>3, WaitFrame

\* The input of a client ends.
LEMMA EndInputStep ==
  ASSUME IInv, UNCHANGED workload, EndInput
  PROVE  IInv'
<1> USE NullFacts DEF IInv, EndInput, clientVars
<1>1. TypeOK'
  BY Zenon DEF TypeOK
<1>2. MainInv'
  BY Zenon DEF MainInv
<1>3. JobHasCandidate'
  BY ZenonT(60) DEF JobHasCandidate
<1> QED BY Zenon, <1>1, <1>2, <1>3, WaitFrame

\* A command runs without the database.
LEMMA RunDirectlyStep ==
  ASSUME IInv, UNCHANGED workload, NEW cmd \in workload.commands, RunDirectly(cmd)
  PROVE  IInv'
<1> USE NullFacts DEF IInv, mainVars
<1>1. TypeOK'
  <2> DEFINE o == Exec(cmd, LookedUp(cmd), setReply[cur], delReply[cur])
  <2>1. cur \in Clients /\ cmd.name # "kill"
    BY Zenon DEF RunDirectly, TypeOK
  <2>2. setReply[cur] \in BOOLEAN /\ delReply[cur] \in BOOLEAN /\ LookedUp(cmd) \in CacheMaps
    BY Zenon, <2>1, LookedUpType DEF TypeOK
  <2>3. o.cache \in CacheMaps /\ o.setReply \in BOOLEAN /\ o.delReply \in BOOLEAN
    BY Zenon, <2>1, <2>2, WorkloadFacts, ExecType
  <2>4. /\ cache' = o.cache
        /\ setReply' = [setReply EXCEPT ![cur] = o.setReply]
        /\ delReply' = [delReply EXCEPT ![cur] = o.delReply]
    BY Zenon DEF RunDirectly, Call
  <2> HIDE DEF o
  <2>5. /\ cache' \in CacheMaps
        /\ setReply' \in [Clients -> BOOLEAN] /\ delReply' \in [Clients -> BOOLEAN]
    BY Zenon, <2>3, <2>4 DEF TypeOK
  <2> QED BY Zenon, <2>5 DEF RunDirectly, TypeOK, CacheMaps
<1>2. MainInv'
  BY Zenon DEF RunDirectly, MainInv
<1>3. JobHasCandidate'
  BY ZenonT(60) DEF RunDirectly, JobHasCandidate
<1> QED BY Zenon, <1>1, <1>2, <1>3, WaitFrame DEF RunDirectly

\* A command is refused.
LEMMA CheckFailsStep ==
  ASSUME IInv, UNCHANGED workload, NEW cmd \in workload.commands, CheckFails(cmd)
  PROVE  IInv'
<1> USE NullFacts DEF IInv, CheckFails, clientVars, mainVars
<1>1. TypeOK'
  BY Zenon DEF TypeOK
<1>2. MainInv'
  BY Zenon DEF MainInv
<1>3. JobHasCandidate'
  BY ZenonT(60) DEF JobHasCandidate
<1> QED BY Zenon, <1>1, <1>2, <1>3, WaitFrame

\* CONFIG SET changes a statement.
LEMMA ConfigSetStep ==
  ASSUME IInv, UNCHANGED workload, NEW cfg \in workload.configs, ConfigSet(cfg)
  PROVE  IInv'
<1> USE NullFacts DEF IInv, ConfigSet, clientVars, mainVars
<1>1. TypeOK'
  BY Zenon DEF TypeOK
<1>2. MainInv'
  BY Zenon DEF MainInv
<1>3. JobHasCandidate'
  BY ZenonT(60) DEF JobHasCandidate
<1> QED BY Zenon, <1>1, <1>2, <1>3, WaitFrame

\* A key expires.
LEMMA TtlElapsesStep ==
  ASSUME IInv, UNCHANGED workload, NEW p \in Items, TtlElapses(p)
  PROVE  IInv'
<1> USE NullFacts DEF IInv, clientVars, mainVars
<1>1. TypeOK'
  <2>1. cache[p] \in CacheEntries /\ cache' = [cache EXCEPT ![p] = [cache[p] EXCEPT !.ttl = "due"]]
    BY Zenon DEF TtlElapses, TypeOK
  <2>2. [cache[p] EXCEPT !.ttl = "due"] \in CacheEntries
    BY Zenon, <2>1 DEF CacheEntries
  <2>3. cache' \in [Items -> CacheEntries \union {NULL}]
    BY Zenon, <2>1, <2>2 DEF TypeOK
  <2> QED BY Zenon, <2>3 DEF TtlElapses, TypeOK
<1>2. MainInv'
  BY Zenon DEF TtlElapses, MainInv
<1>3. JobHasCandidate'
  BY ZenonT(60) DEF TtlElapses, JobHasCandidate
<1> QED BY Zenon, <1>1, <1>2, <1>3, WaitFrame DEF TtlElapses

\* The next client of a handler is gone.
LEMMA ResumeFreedStep ==
  ASSUME IInv, UNCHANGED workload, ResumeFreed
  PROVE  IInv'
<1> USE NullFacts DEF IInv, ResumeFreed, clientVars, mainVars
<1>1. TypeOK'
  BY Zenon DEF TypeOK
<1>2. MainInv'
  BY Zenon DEF MainInv
<1>3. JobHasCandidate'
  BY ZenonT(60) DEF JobHasCandidate
<1> QED BY Zenon, <1>1, <1>2, <1>3, WaitFrame

\* A call and a return change one job, which is not the one that is handled.
LEMMA ReturnStep ==
  ASSUME IInv, UNCHANGED workload, NEW m \in Modes, Return(m)
  PROVE  IInv'
<1>0. TypeOK /\ MainInv /\ JobHasCandidate
  BY Zenon DEF IInv
<1>1. job[m] \in PendingJobs /\ job[m].phase = "called" /\ hmode # m
  BY Zenon, <1>0, JobFacts, NullFacts DEF Return, MainInv
<1> DEFINE j == [job[m] EXCEPT !.phase = "returned"]
<1>2. /\ job' = [job EXCEPT ![m] = j] /\ j \in PendingJobs
      /\ j.item = job[m].item /\ j.val = job[m].val /\ j.res = job[m].res
  BY Zenon, <1>1 DEF Return, PendingJobs
<1>3. job[m] # Idle /\ j # Idle
  BY Zenon, <1>0, <1>1, <1>2, JobFacts
<1>4. UNCHANGED <<config, cache, database, cands, connected, state, argv, setReply, delReply,
                  cur, hmode, todo>>
  BY Zenon DEF Return, clientVars, mainVars
<1> HIDE DEF j
<1>5. job'[m] = j /\ \A n \in Modes : n # m => job'[n] = job[n]
  BY Zenon, <1>0, <1>2 DEF TypeOK
<1>6. TypeOK'
  BY <1>0, <1>2, <1>3, <1>4 DEF TypeOK
<1>7. hmode # NULL => job'[hmode] = job[hmode]
  BY Zenon, <1>0, <1>1, <1>5 DEF TypeOK
<1>8. MainInv'
  BY Zenon, <1>0, <1>4, <1>7 DEF MainInv
<1>9. JobHasCandidate'
  <2>1. \A n \in Modes : (job'[n] = Idle <=> job[n] = Idle) /\ job'[n].item = job[n].item
    BY Zenon, <1>2, <1>3, <1>5
  <2> QED BY Zenon, <1>0, <1>4, <2>1 DEF JobHasCandidate
<1>10. ListedWaits' /\ CopiedWaits' /\ WaitsListed'
  BY Zenon, <1>4, <1>7, WaitFrame
<1> QED BY Zenon, <1>6, <1>8, <1>9, <1>10 DEF IInv

\* A thread calls the database.
LEMMA DbCallStep ==
  ASSUME IInv, UNCHANGED workload, NEW m \in Modes, DbCall(m)
  PROVE  IInv'
<1>0. TypeOK /\ MainInv /\ JobHasCandidate
  BY Zenon DEF IInv
<1>1. job[m] \in PendingJobs /\ job[m].phase = "posted" /\ hmode # m
  BY Zenon, <1>0, JobFacts, NullFacts DEF DbCall, MainInv
<1>2. job[m].item[2] \in Keys /\ job[m].val \in Texts \union {NULL}
  BY Zenon, <1>1, ItemFacts DEF PendingJobs
<1>3. database[job[m].item[2]] \in Texts \union {NULL}
  BY Zenon, <1>0, <1>2 DEF TypeOK
<1>4. Effect(m, job[m]) \in [Keys -> Texts \union {NULL}]
  BY Zenon, <1>0, <1>2 DEF Effect, TypeOK, Modes
<1>5. PICK r \in Texts \union {"done", NULL}, db \in [Keys -> Texts \union {NULL}] :
        Done(m, db, r) /\ (m = "get" => r \in Texts \union {NULL})
  BY Zenon, <1>0, <1>3, <1>4 DEF DbCall, TypeOK
<1> DEFINE j == [job[m] EXCEPT !.phase = "called", !.res = r]
<1>6. database' \in [Keys -> Texts \union {NULL}] /\ job' = [job EXCEPT ![m] = j]
  BY Zenon, <1>0, <1>1, <1>5 DEF Done, TypeOK
<1>7. j \in PendingJobs /\ j.item = job[m].item /\ j.val = job[m].val /\ j.res = r
  BY Zenon, <1>1, <1>5 DEF PendingJobs
<1>8. job[m] # Idle /\ j # Idle
  BY Zenon, <1>0, <1>1, <1>7, JobFacts
<1>9. UNCHANGED <<config, cache, cands, connected, state, argv, setReply, delReply, cur, hmode, todo>>
  BY Zenon DEF DbCall, clientVars, mainVars
<1> HIDE DEF j
<1>10. job'[m] = j /\ \A n \in Modes : n # m => job'[n] = job[n]
  BY Zenon, <1>0, <1>6 DEF TypeOK
<1>11. TypeOK'
  BY SMTT(30), <1>0, <1>5, <1>6, <1>7, <1>8, <1>9 DEF TypeOK
<1>12. hmode # NULL => job'[hmode] = job[hmode]
  BY Zenon, <1>0, <1>1, <1>10 DEF TypeOK
<1>13. MainInv'
  BY Zenon, <1>0, <1>9, <1>12 DEF MainInv
<1>14. JobHasCandidate'
  <2>1. \A n \in Modes : (job'[n] = Idle <=> job[n] = Idle) /\ job'[n].item = job[n].item
    BY Zenon, <1>7, <1>8, <1>10
  <2> QED BY Zenon, <1>0, <1>9, <2>1 DEF JobHasCandidate
<1>15. ListedWaits' /\ CopiedWaits' /\ WaitsListed'
  BY Zenon, <1>9, <1>12, WaitFrame
<1> QED BY Zenon, <1>11, <1>13, <1>14, <1>15 DEF IInv

\* createClient: a client that is new waits for nothing.
LEMMA ConnectStep ==
  ASSUME IInv, UNCHANGED workload, NEW c \in Clients, Connect(c)
  PROVE  IInv'
<1> USE NullFacts DEF IInv, mainVars
<1>1. hmode = NULL /\ todo = <<>> /\ connected' = connected \union {c}
  BY Zenon DEF Connect, MainInv
<1>2. UNCHANGED <<config, cache, database, cands, job, state, argv, setReply, delReply, cur, hmode, todo>>
  BY Zenon DEF Connect
<1>3. TypeOK'
  BY Zenon, <1>1, <1>2 DEF TypeOK
<1>4. MainInv'
  BY Zenon, <1>1, <1>2 DEF MainInv
<1>5. ListedWaits'
  BY ZenonT(60), <1>2 DEF ListedWaits
<1>6. WaitsListed'
  BY Zenon, <1>1, <1>2 DEF WaitsListed
<1>7. JobHasCandidate'
  BY ZenonT(60), <1>2 DEF JobHasCandidate
<1>8. CopiedWaits'
  <2>1. Range(<<>>) = {} /\ IsInjective(<<>>) /\ todo' = <<>>
    BY Zenon, <1>1, <1>2, EmptyList
  <2> QED BY Zenon, <2>1 DEF CopiedWaits
<1> QED BY Zenon, <1>3, <1>4, <1>5, <1>6, <1>7, <1>8

\* A client that is freed, by another one or by the event loop.
LEMMA FreeClientStep ==
  ASSUME IInv, NEW c \in Clients, c # cur, FreeClient(c),
         c \in Range(todo) => ~Only({"get", "set", "del"}),
         UNCHANGED <<workload, config, cache, database, job, cur, hmode, todo>>
  PROVE  IInv'
<1> USE DEF IInv
<1>1. /\ connected' = connected \ {c}
      /\ state' = [state EXCEPT ![c] = NULL] /\ argv' = [argv EXCEPT ![c] = NULL]
      /\ cands' = WithoutClient(c)
  BY Zenon DEF FreeClient
<1>2. cands' \in [Modes -> [Items -> Entries \union {NULL}]]
  BY Zenon, <1>1, WithoutClientFacts
<1>3. ASSUME NEW m \in Modes, NEW p \in Items
      PROVE  /\ cands[m][p] = NULL <=> cands'[m][p] = NULL
             /\ cands[m][p] # NULL =>
                  /\ cands'[m][p].val = cands[m][p].val
                  /\ Range(cands'[m][p].clients) = Range(cands[m][p].clients) \ {c}
                  /\ IsInjective(cands[m][p].clients) => IsInjective(cands'[m][p].clients)
  <2>1. TypeOK /\ cands' = WithoutClient(c)
    BY Zenon, <1>1
  <2> HIDE DEF IInv
  <2> QED BY <2>1, WithoutClientEntry
<1>4. \A d \in Clients \ {c} : state'[d] = state[d] /\ argv'[d] = argv[d]
  BY Zenon, <1>1 DEF TypeOK
<1>5. TypeOK'
  <2>1. \A p \in Items : cands'["set"][p] # NULL => cands'["set"][p].val \in Texts
    <3> TAKE p \in Items
    <3>1. "set" \in Modes
      BY Zenon, NullFacts
    <3>2. cands["set"][p] # NULL => cands["set"][p].val \in Texts
      BY Zenon DEF TypeOK
    <3> HIDE DEF IInv
    <3> QED BY Zenon, <1>3, <3>1, <3>2
  <2>2. /\ state' \in [Clients -> Modes \union {NULL}]
        /\ argv' \in [Clients -> workload.commands \union {NULL}]
        /\ setReply' \in [Clients -> BOOLEAN] /\ delReply' \in [Clients -> BOOLEAN]
    BY Zenon DEF FreeClient, TypeOK
  <2> QED BY Zenon, <1>1, <1>2, <2>1, <2>2 DEF TypeOK
<1>6. MainInv'
  BY Zenon, <1>1, <1>4 DEF MainInv, TypeOK
<1>7. ListedWaits'
  <2> SUFFICES ASSUME NEW m \in Modes, NEW p \in Items, cands'[m][p] # NULL
               PROVE  /\ IsInjective(cands'[m][p].clients)
                      /\ \A d \in Range(cands'[m][p].clients) : state'[d] = m /\ Item(argv'[d]) = p
    BY Zenon DEF ListedWaits, Item
  <2>1. Range(cands[m][p].clients) \subseteq Clients
    BY ZenonT(60), <1>3, EntryFacts
  <2>2. cands[m][p] # NULL /\ Range(cands'[m][p].clients) = Range(cands[m][p].clients) \ {c}
    BY Zenon, <1>3
  <2>3. IsInjective(cands[m][p].clients)
    BY Zenon, <2>2 DEF ListedWaits
  <2>4. IsInjective(cands'[m][p].clients)
    BY Zenon, <1>3, <2>2, <2>3
  <2>5. ASSUME NEW d \in Range(cands'[m][p].clients)
        PROVE  state'[d] = m /\ Item(argv'[d]) = p
    <3>1. d \in Range(cands[m][p].clients) /\ d \in Clients \ {c}
      BY Zenon, <2>1, <2>2
    <3>2. state[d] = m /\ Item(argv[d]) = p
      BY Zenon, <2>2, <3>1 DEF ListedWaits
    <3> QED BY Zenon, <1>4, <3>1, <3>2
  <2> QED BY Zenon, <2>4, <2>5
<1>8. CopiedWaits'
  <2>1. Only({"get", "set", "del"})' <=> Only({"get", "set", "del"})
    BY Zenon DEF Only
  <2>2. Range(todo) \subseteq Clients
    BY Zenon, RangeType DEF TypeOK
  <2> SUFFICES ASSUME NEW d \in Range(todo)
               PROVE  /\ \A m \in Modes, p \in Items :
                           cands'[m][p] # NULL => d \notin Range(cands'[m][p].clients)
                      /\ d \in connected' => state'[d] = hmode /\ Item(argv'[d]) = job[hmode].item
                      /\ Only({"get", "set", "del"}) => d \in connected'
    BY Zenon, <2>1 DEF CopiedWaits, Item
  <2>3. \A m \in Modes, p \in Items :
          cands'[m][p] # NULL => d \notin Range(cands'[m][p].clients)
    <3> SUFFICES ASSUME NEW m \in Modes, NEW p \in Items, cands'[m][p] # NULL
                 PROVE  d \notin Range(cands'[m][p].clients)
      BY Zenon
    <3>1. cands[m][p] # NULL /\ Range(cands'[m][p].clients) = Range(cands[m][p].clients) \ {c}
      BY Zenon, <1>3
    <3>2. d \notin Range(cands[m][p].clients)
      BY Zenon, <3>1 DEF CopiedWaits
    <3> QED BY Zenon, <3>1, <3>2
  <2> QED BY Zenon, <1>1, <1>4, <2>2, <2>3 DEF CopiedWaits
<1>9. WaitsListed'
  <2> SUFFICES ASSUME NEW d \in Clients, state'[d] # NULL
               PROVE  /\ d \in connected' /\ argv'[d] # NULL /\ argv'[d].name \in ModeNames(state'[d])
                      /\ \/ /\ cands'[state'[d]][Item(argv'[d])] # NULL
                            /\ d \in Range(cands'[state'[d]][Item(argv'[d])].clients)
                         \/ hmode = state'[d] /\ d \in Range(todo)
    BY Zenon DEF WaitsListed, Item, ModeNames
  <2>1. d # c /\ state'[d] = state[d] /\ argv'[d] = argv[d]
    BY Zenon, <1>1, <1>4 DEF TypeOK
  <2>2. state[d] \in Modes /\ argv[d] \in workload.commands
    BY Zenon, <2>1 DEF TypeOK, WaitsListed
  <2>3. Item(argv[d]) \in Items
    BY Zenon, <2>2, WorkloadFacts
  <2>4. d \in connected /\ argv[d] # NULL /\ argv[d].name \in ModeNames(state[d])
    BY Zenon, <2>1, <2>2 DEF WaitsListed
  <2>5. CASE /\ cands[state[d]][Item(argv[d])] # NULL
             /\ d \in Range(cands[state[d]][Item(argv[d])].clients)
    <3> DEFINE m == state[d]
               p == Item(argv[d])
    <3>1. m \in Modes /\ p \in Items /\ cands[m][p] # NULL /\ d \in Range(cands[m][p].clients)
      BY Zenon, <2>2, <2>3, <2>5
    <3> HIDE DEF m, p
    <3>2. cands'[m][p] # NULL /\ d \in Range(cands'[m][p].clients)
      BY Zenon, <1>3, <2>1, <3>1
    <3> QED BY Zenon, <1>1, <2>1, <2>4, <3>2 DEF m, p
  <2>6. CASE hmode = state[d] /\ d \in Range(todo)
    BY Zenon, <1>1, <2>1, <2>4, <2>6
  <2> QED BY Zenon, <2>1, <2>2, <2>5, <2>6 DEF WaitsListed
<1>10. JobHasCandidate'
  <2>1. \A m \in Modes : job[m] # Idle => job[m].item \in Items
    BY Zenon, JobFacts DEF PendingJobs
  <2> QED BY ZenonT(60), <1>3, <2>1 DEF JobHasCandidate
<1> QED BY Zenon, <1>5, <1>6, <1>7, <1>8, <1>9, <1>10

\* client kill.
LEMMA KillStep ==
  ASSUME IInv, UNCHANGED workload, NEW cmd \in workload.commands, Kill(cmd)
  PROVE  IInv'
<1>1. cmd.victim \in Clients /\ cmd.victim # cur /\ FreeClient(cmd.victim)
  BY Zenon DEF Kill, IInv, TypeOK
<1>2. ~Only({"get", "set", "del"})
  BY Zenon DEF Kill, Only
<1>3. UNCHANGED <<workload, config, cache, database, job, cur, hmode, todo>>
  BY Zenon DEF Kill, mainVars
<1> QED BY Zenon, <1>1, <1>2, <1>3, FreeClientStep

\* A connection that is closed: no handler is running.
LEMMA DisconnectStep ==
  ASSUME IInv, UNCHANGED workload, NEW c \in Clients, Disconnect(c)
  PROVE  IInv'
<1>1. c # cur /\ FreeClient(c)
  BY Zenon, NullFacts DEF Disconnect
<1>2. c \notin Range(todo)
  BY Zenon, EmptyList DEF Disconnect, IInv, MainInv
<1>3. UNCHANGED <<workload, config, cache, database, job, cur, hmode, todo>>
  BY Zenon DEF Disconnect, mainVars
<1> QED BY Zenon, <1>1, <1>2, <1>3, FreeClientStep

\* The pipe handler takes an entry out of its dictionary, with its clients.
LEMMA HandleStep ==
  ASSUME IInv, UNCHANGED workload, NEW m \in Modes, Handle(m)
  PROVE  IInv'
<1>0. TypeOK /\ MainInv /\ ListedWaits /\ CopiedWaits /\ WaitsListed /\ JobHasCandidate
  BY Zenon DEF IInv
<1> DEFINE p == job[m].item
           L == cands[m][p].clients
<1>1. job[m] # Idle /\ job[m] \in PendingJobs /\ job[m].phase = "returned"
  BY Zenon, <1>0, JobFacts DEF Handle
<1>2. p \in Items /\ hmode = NULL /\ hmode # m
  BY Zenon, <1>1, NullFacts DEF PendingJobs, Handle
<1>3. cands[m][p] # NULL
  BY Zenon, <1>0, <1>1, <1>2 DEF JobHasCandidate
<1>4. L \in Seq(Clients) /\ Range(L) \subseteq Clients
  BY Zenon, <1>0, <1>2, <1>3, EntryFacts
<1>5. IsInjective(L) /\ \A c \in Range(L) : state[c] = m /\ Item(argv[c]) = p
  BY Zenon, <1>0, <1>2, <1>3 DEF ListedWaits
<1>6. /\ cache' = Stored(m, job[m]) /\ todo' = L /\ hmode' = m
      /\ cands' = [cands EXCEPT ![m][p] = NULL] /\ cur' = NULL
      /\ UNCHANGED <<config, database, job, connected, state, argv, setReply, delReply>>
  BY Zenon DEF Handle, clientVars
<1>7. /\ cands' \in [Modes -> [Items -> Entries \union {NULL}]]
      /\ \A n \in Modes, q \in Items :
           cands'[n][q] = IF n = m /\ q = p THEN NULL ELSE cands[n][q]
  <2>1. NULL \in Entries \union {NULL}
    BY Zenon
  <2> HIDE DEF p
  <2> QED BY <1>0, <1>2, <1>6, <2>1, EntryUpdate
<1>8. cache' \in CacheMaps
  BY Zenon, <1>0, <1>1, <1>6, StoredType
<1> HIDE DEF p, L
<1>9. TypeOK'
  <2>1. "set" \in Modes
    BY Zenon, NullFacts
  <2>2. \A q \in Items : cands'["set"][q] # NULL => cands'["set"][q].val \in Texts
    BY ZenonT(60), <1>0, <1>7, <2>1 DEF TypeOK
  <2> QED BY Zenon, <1>0, <1>4, <1>6, <1>7, <1>8, <2>2 DEF TypeOK, CacheMaps
<1>10. MainInv'
  BY Zenon, <1>1, <1>6, NullFacts DEF MainInv
<1>11. ListedWaits'
  <2> SUFFICES ASSUME NEW n \in Modes, NEW q \in Items, cands'[n][q] # NULL
               PROVE  /\ IsInjective(cands'[n][q].clients)
                      /\ \A d \in Range(cands'[n][q].clients) : state'[d] = n /\ Item(argv'[d]) = q
    BY Zenon DEF ListedWaits, Item
  <2>1. cands'[n][q] = cands[n][q]
    BY Zenon, <1>7
  <2>2. /\ IsInjective(cands[n][q].clients)
        /\ \A d \in Range(cands[n][q].clients) : state[d] = n /\ Item(argv[d]) = q
    BY Zenon, <1>0, <2>1 DEF ListedWaits
  <2> QED BY Zenon, <1>6, <2>1, <2>2
<1>12. CopiedWaits'
  <2> SUFFICES ASSUME NEW d \in Range(L)
               PROVE  /\ \A n \in Modes, q \in Items :
                           cands'[n][q] # NULL => d \notin Range(cands'[n][q].clients)
                      /\ d \in connected /\ state[d] = m /\ Item(argv[d]) = p
    BY Zenon, <1>5, <1>6 DEF CopiedWaits, Item, p
  <2>1. state[d] = m /\ Item(argv[d]) = p /\ d \in connected
    BY Zenon, <1>0, <1>4, <1>5, NullFacts DEF WaitsListed
  <2>2. ASSUME NEW n \in Modes, NEW q \in Items, cands'[n][q] # NULL,
               d \in Range(cands'[n][q].clients)
        PROVE  FALSE
    <3>1. ~(n = m /\ q = p) /\ cands'[n][q] = cands[n][q]
      BY Zenon, <1>7, <2>2
    <3>2. state[d] = n /\ Item(argv[d]) = q
      BY Zenon, <1>0, <2>2, <3>1 DEF ListedWaits
    <3> QED BY Zenon, <2>1, <3>1, <3>2
  <2> QED BY Zenon, <2>1, <2>2
<1>13. WaitsListed'
  <2> SUFFICES ASSUME NEW d \in Clients, state[d] # NULL
               PROVE  /\ d \in connected /\ argv[d] # NULL /\ argv[d].name \in ModeNames(state[d])
                      /\ \/ /\ cands'[state[d]][Item(argv[d])] # NULL
                            /\ d \in Range(cands'[state[d]][Item(argv[d])].clients)
                         \/ m = state[d] /\ d \in Range(L)
    BY Zenon, <1>6 DEF WaitsListed, Item, ModeNames
  <2>1. state[d] \in Modes /\ argv[d] \in workload.commands
    BY Zenon, <1>0 DEF TypeOK, WaitsListed
  <2>2. Item(argv[d]) \in Items
    BY Zenon, <1>0, <2>1, WorkloadFacts
  <2>3. d \notin Range(todo)
    BY Zenon, <1>0, <1>2, EmptyList DEF MainInv
  <2>4. /\ d \in connected /\ argv[d] # NULL /\ argv[d].name \in ModeNames(state[d])
        /\ cands[state[d]][Item(argv[d])] # NULL
        /\ d \in Range(cands[state[d]][Item(argv[d])].clients)
    BY Zenon, <1>0, <2>3 DEF WaitsListed
  <2>5. CASE state[d] = m /\ Item(argv[d]) = p
    BY Zenon, <2>4, <2>5 DEF L
  <2>6. CASE ~(state[d] = m /\ Item(argv[d]) = p)
    <3>1. cands'[state[d]][Item(argv[d])] = cands[state[d]][Item(argv[d])]
      BY Zenon, <1>7, <2>1, <2>2, <2>6
    <3> QED BY Zenon, <2>4, <3>1
  <2> QED BY Zenon, <2>5, <2>6
<1>14. JobHasCandidate'
  <2> SUFFICES ASSUME NEW n \in Modes, n # m
               PROVE  /\ job[n] = Idle => \A q \in Items : cands'[n][q] = NULL
                      /\ job[n] # Idle => cands'[n][job[n].item] # NULL
    BY Zenon, <1>6 DEF JobHasCandidate
  <2>1. job[n] # Idle => job[n].item \in Items
    BY Zenon, <1>0, JobFacts DEF PendingJobs
  <2>2. hmode # n
    BY Zenon, <1>2, NullFacts
  <2> QED BY <1>0, <1>7, <2>1, <2>2 DEF JobHasCandidate
<1> QED BY Zenon, <1>9, <1>10, <1>11, <1>12, <1>13, <1>14 DEF IInv

\* A client is resumed: it waits no more, and was in no list.
LEMMA ResumeStep ==
  ASSUME IInv, UNCHANGED workload, Resume
  PROVE  IInv'
<1>0. TypeOK /\ MainInv /\ ListedWaits /\ CopiedWaits /\ WaitsListed /\ JobHasCandidate
  BY Zenon DEF IInv
<1> DEFINE c == Head(todo)
           failed == job[hmode].res = NULL
           set == setReply[c] \/ (hmode = "set" /\ failed)
           o == Exec(argv[c], cache, set, FailedDel(c, failed))
<1>1. todo \in Seq(Clients) /\ todo # <<>> /\ c \in connected /\ hmode \in Modes
  BY Zenon, <1>0 DEF Resume, TypeOK
<1>2. /\ c \in Clients /\ Tail(todo) \in Seq(Clients)
      /\ Range(todo) = Range(Tail(todo)) \union {c}
      /\ IsInjective(Tail(todo)) /\ c \notin Range(Tail(todo))
  BY Zenon, <1>0, <1>1, TailFacts DEF CopiedWaits
<1>3. state[c] = hmode /\ Item(argv[c]) = job[hmode].item
  BY Zenon, <1>0, <1>1, <1>2 DEF CopiedWaits
<1>4. /\ state[c] # NULL /\ argv[c] \in workload.commands
      /\ argv[c].name \in ModeNames(hmode) /\ argv[c].name # "kill"
  <2>1. state[c] # NULL /\ argv[c] # NULL /\ argv[c].name \in ModeNames(hmode)
    BY Zenon, <1>0, <1>1, <1>2, <1>3, NullFacts DEF WaitsListed
  <2> QED BY Zenon, <1>0, <1>1, <1>2, <2>1 DEF TypeOK, ModeNames, SetCommands, Modes
<1>5. /\ cache' = o.cache
      /\ setReply' = [setReply EXCEPT ![c] = o.setReply]
      /\ delReply' = [delReply EXCEPT ![c] = o.delReply]
      /\ state' = [state EXCEPT ![c] = NULL] /\ argv' = [argv EXCEPT ![c] = NULL]
      /\ cur' = c /\ todo' = Tail(todo)
      /\ UNCHANGED <<config, database, cands, job, connected, hmode>>
  BY Zenon DEF Resume, Call
<1>6. o.cache \in CacheMaps /\ o.setReply \in BOOLEAN /\ o.delReply \in BOOLEAN
  <2>1. set \in BOOLEAN /\ FailedDel(c, failed) \in BOOLEAN
    BY Zenon DEF FailedDel
  <2>2. cache \in CacheMaps
    BY Zenon, <1>0 DEF TypeOK, CacheMaps
  <2>3. argv[c] \in CommandShape /\ (argv[c].name \in SetCommands => argv[c].val \in Texts)
    BY Zenon, <1>0, <1>4, WorkloadFacts
  <2> HIDE DEF c, set, failed
  <2> QED BY ZenonT(60), <1>4, <2>1, <2>2, <2>3, ExecType
<1> HIDE DEF c, failed, set, o
<1>7. \A d \in Clients \ {c} : state'[d] = state[d] /\ argv'[d] = argv[d]
  BY Zenon, <1>0, <1>5 DEF TypeOK
<1>8. TypeOK'
  <2>1. cache' \in CacheMaps
        /\ setReply' \in [Clients -> BOOLEAN] /\ delReply' \in [Clients -> BOOLEAN]
    BY Zenon, <1>0, <1>5, <1>6 DEF TypeOK
  <2> QED BY Zenon, <1>0, <1>2, <1>5, <2>1 DEF TypeOK, CacheMaps
<1>9. MainInv'
  BY Zenon, <1>0, <1>1, <1>2, <1>5, NullFacts DEF MainInv, TypeOK
<1>10. ListedWaits'
  <2> SUFFICES ASSUME NEW m \in Modes, NEW p \in Items, cands[m][p] # NULL
               PROVE  /\ IsInjective(cands[m][p].clients)
                      /\ \A d \in Range(cands[m][p].clients) : state'[d] = m /\ Item(argv'[d]) = p
    BY Zenon, <1>5 DEF ListedWaits, Item
  <2>1. /\ IsInjective(cands[m][p].clients)
        /\ \A d \in Range(cands[m][p].clients) : state[d] = m /\ Item(argv[d]) = p
    BY Zenon, <1>0 DEF ListedWaits
  <2>2. c \notin Range(cands[m][p].clients)
    BY Zenon, <1>0, <1>2 DEF CopiedWaits
  <2>3. Range(cands[m][p].clients) \subseteq Clients
    BY Zenon, <1>0, EntryFacts
  <2> QED BY Zenon, <1>7, <2>1, <2>2, <2>3
<1>11. CopiedWaits'
  <2> SUFFICES ASSUME NEW d \in Range(Tail(todo))
               PROVE  /\ \A m \in Modes, p \in Items :
                           cands[m][p] # NULL => d \notin Range(cands[m][p].clients)
                      /\ d \in connected => state'[d] = hmode /\ Item(argv'[d]) = job[hmode].item
                      /\ Only({"get", "set", "del"}) => d \in connected
    BY Zenon, <1>2, <1>5 DEF CopiedWaits, Item, Only
  <2>1. d \in Range(todo) /\ d # c
    BY Zenon, <1>2
  <2>2. d \in Clients
    BY Zenon, <1>2, RangeType
  <2> QED BY Zenon, <1>0, <1>7, <2>1, <2>2 DEF CopiedWaits
<1>12. WaitsListed'
  <2> SUFFICES ASSUME NEW d \in Clients, state'[d] # NULL
               PROVE  /\ d \in connected /\ argv'[d] # NULL /\ argv'[d].name \in ModeNames(state'[d])
                      /\ \/ /\ cands[state'[d]][Item(argv'[d])] # NULL
                            /\ d \in Range(cands[state'[d]][Item(argv'[d])].clients)
                         \/ hmode = state'[d] /\ d \in Range(Tail(todo))
    BY Zenon, <1>5 DEF WaitsListed, Item, ModeNames
  <2>1. d # c /\ state'[d] = state[d] /\ argv'[d] = argv[d]
    BY Zenon, <1>0, <1>2, <1>5, <1>7 DEF TypeOK
  <2>2. d \in Range(todo) => d \in Range(Tail(todo))
    BY Zenon, <1>2, <2>1
  <2> QED BY Zenon, <1>0, <2>1, <2>2 DEF WaitsListed
<1>13. JobHasCandidate'
  BY Zenon, <1>0, <1>5 DEF JobHasCandidate
<1> QED BY Zenon, <1>8, <1>9, <1>10, <1>11, <1>12, <1>13 DEF IInv

\* The handler ends, and a candidate of its mode takes the slot.
LEMMA FinishStep ==
  ASSUME IInv, UNCHANGED workload, Finish
  PROVE  IInv'
<1>0. TypeOK /\ MainInv /\ ListedWaits /\ CopiedWaits /\ WaitsListed /\ JobHasCandidate
  BY Zenon DEF IInv
<1>1. hmode \in Modes /\ cands[hmode] \in [Items -> Entries \union {NULL}]
  BY Zenon, <1>0 DEF Finish, TypeOK
<1>2. PICK j \in NewJobs(cands[hmode]) : job' = [job EXCEPT ![hmode] = j]
  BY Zenon DEF Finish, Refill
<1>3. \/ j = Idle /\ \A p \in Items : cands[hmode][p] = NULL
      \/ /\ j \in PendingJobs /\ j.phase = "posted" /\ j.res = NULL
         /\ j.item \in Items /\ cands[hmode][j.item] # NULL
         /\ j.val = cands[hmode][j.item].val
  BY Zenon, <1>1, NewJobFacts
<1>4. /\ hmode' = NULL /\ cur' = NULL /\ todo = <<>> /\ todo' = <<>>
      /\ UNCHANGED <<config, cache, database, cands, connected, state, argv, setReply, delReply>>
  BY Zenon DEF Finish, clientVars
<1>5. /\ job' \in [Modes -> PendingJobs \union {Idle}]
      /\ job'[hmode] = j /\ \A m \in Modes : m # hmode => job'[m] = job[m]
  BY Zenon, <1>0, <1>1, <1>2, <1>3 DEF TypeOK
<1>6. TypeOK'
  <2>1. "set" \in Modes /\ "get" \in Modes /\ Idle.res = NULL
    BY Zenon, NullFacts DEF Idle
  <2>2. job'["set"] # Idle => job'["set"].val \in Texts
    BY ZenonT(60), <1>0, <1>3, <1>5, <2>1 DEF TypeOK
  <2>3. job'["get"].res \in Texts \union {NULL}
    BY Zenon, <1>0, <1>3, <1>5, <2>1 DEF TypeOK
  <2> QED BY Zenon, <1>0, <1>4, <1>5, <2>2, <2>3 DEF TypeOK
<1>7. MainInv'
  BY Zenon, <1>4 DEF MainInv
<1>8. ListedWaits'
  BY <1>0, <1>4 DEF ListedWaits
<1>9. CopiedWaits'
  BY Zenon, <1>4, EmptyList DEF CopiedWaits
<1>10. WaitsListed'
  <2>1. Range(todo) = {}
    BY Zenon, <1>4, EmptyList
  <2> QED BY Zenon, <1>0, <1>4, <2>1 DEF WaitsListed
<1>11. JobHasCandidate'
  <2> SUFFICES ASSUME NEW m \in Modes
               PROVE  /\ job'[m] = Idle => \A q \in Items : cands[m][q] = NULL
                      /\ job'[m] # Idle => cands[m][job'[m].item] # NULL
    BY Zenon, <1>4 DEF JobHasCandidate
  <2>1. CASE m = hmode
    <3>1. Idle \notin PendingJobs
      BY Zenon, <1>0, JobFacts
    <3> QED BY Zenon, <1>3, <1>5, <2>1, <3>1
  <2>2. CASE m # hmode
    BY Zenon, <1>0, <1>5, <2>2 DEF JobHasCandidate
  <2> QED BY Zenon, <2>1, <2>2
<1> QED BY Zenon, <1>6, <1>7, <1>8, <1>9, <1>10, <1>11 DEF IInv

\* What Enqueue does to the jobs and to the client that sent the command.
Waiting(cmd, m) ==
  /\ UNCHANGED <<config, database, connected, hmode, todo>>
  /\ \/ /\ m \in config.sync
        /\ state' = [state EXCEPT ![cur] = m] /\ argv' = [argv EXCEPT ![cur] = cmd]
        /\ cur' = NULL
     \/ m \notin config.sync /\ UNCHANGED <<state, argv, cur>>
  /\ m \in config.sync => state'[cur] = m /\ argv'[cur] = cmd /\ cur' = NULL
  /\ \A d \in Clients : d # cur => state'[d] = state[d] /\ argv'[d] = argv[d]

\* An idle mode gets a job with an entry, a busy one keeps its job.
LEMMA EnqueuedJob ==
  ASSUME IInv, NEW cmd, NEW m \in Modes, NEW e \in Entries, Enqueued(cmd, m, e)
  PROVE  /\ job' \in [Modes -> PendingJobs \union {Idle}]
         /\ \A n \in Modes : n # m => job'[n] = job[n]
         /\ hmode = m => job' = job
         /\ job'[m] # Idle /\ job'[m] \in PendingJobs
         /\ \/ job' = job
            \/ /\ job'[m].res = NULL /\ cands'[m][job'[m].item] # NULL
               /\ job'[m].val = cands'[m][job'[m].item].val
<1>0. TypeOK
  BY Zenon DEF IInv
<1>1. \/ job[m] # Idle /\ job' = job
      \/ /\ job[m] = Idle /\ hmode # m
         /\ \E j \in PendingJobs :
              /\ job' = [job EXCEPT ![m] = j]
              /\ j.phase = "posted" /\ j.res = NULL
              /\ cands'[m][j.item] # NULL /\ j.val = cands'[m][j.item].val
  BY Zenon DEF Enqueued
<1>2. CASE job[m] # Idle /\ job' = job
  BY Zenon, <1>0, <1>2, JobFacts DEF TypeOK
<1>3. CASE ~(job[m] # Idle /\ job' = job)
  <2>1. job[m] = Idle /\ hmode # m
    BY Zenon, <1>1, <1>3
  <2>2. PICK j \in PendingJobs :
          /\ job' = [job EXCEPT ![m] = j]
          /\ j.phase = "posted" /\ j.res = NULL
          /\ cands'[m][j.item] # NULL /\ j.val = cands'[m][j.item].val
    BY Zenon, <1>1, <1>3
  <2>3. job'[m] = j /\ j # Idle
    BY Zenon, <1>0, <2>2, JobFacts DEF TypeOK
  <2> QED BY Zenon, <1>0, <2>1, <2>2, <2>3 DEF TypeOK
<1> QED BY Zenon, <1>2, <1>3

\* A synchronous command waits with its client, who reads on no further.
LEMMA EnqueuedClient ==
  ASSUME IInv, UNCHANGED workload, NEW cmd \in workload.commands, Enqueue(cmd), NEW m \in Modes,
         m = NeededMode(cmd)
  PROVE  /\ Waiting(cmd, m) /\ cache' \in CacheMaps
         /\ setReply' \in [Clients -> BOOLEAN] /\ delReply' \in [Clients -> BOOLEAN]
<1>0. /\ TypeOK /\ cur \in Clients /\ cmd.name # "kill"
      /\ cmd \in CommandShape /\ (cmd.name \in SetCommands => cmd.val \in Texts)
  BY Zenon, CurUnregistered, ModeFacts, WorkloadFacts, NullFacts DEF Enqueue, IInv
<1>1. UNCHANGED <<config, database, connected, hmode, todo>>
  BY Zenon DEF Enqueue
<1>2. state \in [Clients -> Modes \union {NULL}] /\ argv \in [Clients -> workload.commands \union {NULL}]
  BY Zenon, <1>0 DEF TypeOK
<1>3. CASE m \in config.sync
  <2>1. /\ state' = [state EXCEPT ![cur] = m] /\ argv' = [argv EXCEPT ![cur] = cmd]
        /\ cur' = NULL /\ cache' = LookedUp(cmd) /\ UNCHANGED <<setReply, delReply>>
    BY Zenon, <1>3 DEF Enqueue, ReadsOn
  <2>2. cache' \in CacheMaps
    BY Zenon, <1>0, <2>1, LookedUpType
  <2>3. /\ state'[cur] = m /\ argv'[cur] = cmd
        /\ \A d \in Clients : d # cur => state'[d] = state[d] /\ argv'[d] = argv[d]
    BY Zenon, <1>0, <1>2, <2>1
  <2>4. setReply' \in [Clients -> BOOLEAN] /\ delReply' \in [Clients -> BOOLEAN]
    BY Zenon, <1>0, <2>1 DEF TypeOK
  <2> QED BY Zenon, <1>1, <1>3, <2>1, <2>2, <2>3, <2>4 DEF Waiting
<1>4. CASE m \notin config.sync
  <2> DEFINE o == Exec(cmd, LookedUp(cmd), setReply[cur], delReply[cur])
  <2>1. setReply[cur] \in BOOLEAN /\ delReply[cur] \in BOOLEAN /\ LookedUp(cmd) \in CacheMaps
    BY Zenon, <1>0, LookedUpType DEF TypeOK
  <2>2. o.cache \in CacheMaps /\ o.setReply \in BOOLEAN /\ o.delReply \in BOOLEAN
    BY Zenon, <1>0, <2>1, ExecType
  <2>3. /\ cache' = o.cache
        /\ setReply' = [setReply EXCEPT ![cur] = o.setReply]
        /\ delReply' = [delReply EXCEPT ![cur] = o.delReply]
        /\ UNCHANGED <<state, argv, cur>>
    BY Zenon, <1>4 DEF Enqueue, Call
  <2> HIDE DEF o
  <2>4. setReply' \in [Clients -> BOOLEAN] /\ delReply' \in [Clients -> BOOLEAN]
    BY Zenon, <1>0, <2>2, <2>3 DEF TypeOK
  <2> QED BY Zenon, <1>1, <1>4, <2>2, <2>3, <2>4 DEF Waiting
<1> QED BY Zenon, <1>3, <1>4

\* The client joins the list of its item and waits for it; the others wait as before.
LEMMA EnqueueListed ==
  ASSUME IInv, NEW cmd, NEW m \in Modes, NEW e \in Entries, Enqueued(cmd, m, e),
         Waiting(cmd, m), cur # NULL
  PROVE  ListedWaits'
<1> DEFINE p == Item(cmd)
<1>1. /\ \A n \in Modes, q \in Items :
           cands'[n][q] = IF n = m /\ q = p THEN e ELSE cands[n][q]
      /\ IsInjective(e.clients)
      /\ Range(e.clients) = (IF cands[m][p] = NULL THEN {} ELSE Range(cands[m][p].clients))
                              \union (IF m \in config.sync THEN {cur} ELSE {})
  BY Zenon DEF Enqueued
<1>2. /\ m \in config.sync => state'[cur] = m /\ argv'[cur] = cmd
      /\ \A d \in Clients : d # cur => state'[d] = state[d] /\ argv'[d] = argv[d]
  BY Zenon DEF Waiting
<1> HIDE DEF p
<1> SUFFICES ASSUME NEW n \in Modes, NEW q \in Items, cands'[n][q] # NULL
             PROVE  /\ IsInjective(cands'[n][q].clients)
                    /\ \A d \in Range(cands'[n][q].clients) : state'[d] = n /\ Item(argv'[d]) = q
  BY Zenon DEF ListedWaits, Item
<1>3. ASSUME cands[n][q] # NULL
      PROVE  \A d \in Range(cands[n][q].clients) : state'[d] = n /\ Item(argv'[d]) = q
  <2>1. \A d \in Range(cands[n][q].clients) : d \in Clients /\ d # cur
    BY ZenonT(60), <1>3, EntryFacts, CurUnregistered DEF IInv
  <2>2. \A d \in Range(cands[n][q].clients) : state[d] = n /\ Item(argv[d]) = q
    BY Zenon, <1>3 DEF IInv, ListedWaits
  <2> QED BY Zenon, <1>2, <2>1, <2>2
<1>4. CASE n = m /\ q = p
  <2>1. cands'[n][q] = e
    BY Zenon, <1>1, <1>4
  <2>2. \A d \in Range(e.clients) : state'[d] = n /\ Item(argv'[d]) = q
    BY Zenon, <1>1, <1>2, <1>3, <1>4 DEF p
  <2> QED BY Zenon, <1>1, <2>1, <2>2
<1>5. CASE ~(n = m /\ q = p)
  <2>1. cands'[n][q] = cands[n][q]
    BY Zenon, <1>1, <1>5
  <2>2. IsInjective(cands[n][q].clients)
    BY Zenon, <2>1 DEF IInv, ListedWaits
  <2> QED BY Zenon, <1>3, <2>1, <2>2
<1> QED BY Zenon, <1>4, <1>5

\* Those who are to be resumed stay out of the lists.
LEMMA EnqueueCopied ==
  ASSUME IInv, UNCHANGED workload, NEW cmd, NEW m \in Modes, NEW e \in Entries,
         Enqueued(cmd, m, e), Waiting(cmd, m), cur # NULL
  PROVE  CopiedWaits'
<1>0. TypeOK /\ MainInv /\ CopiedWaits
  BY Zenon DEF IInv
<1> DEFINE p == Item(cmd)
<1>1. /\ \A n \in Modes, q \in Items :
           cands'[n][q] = IF n = m /\ q = p THEN e ELSE cands[n][q]
      /\ Range(e.clients) = (IF cands[m][p] = NULL THEN {} ELSE Range(cands[m][p].clients))
                              \union (IF m \in config.sync THEN {cur} ELSE {})
  BY Zenon DEF Enqueued
<1>2. /\ UNCHANGED <<connected, hmode, todo>>
      /\ \A d \in Clients : d # cur => state'[d] = state[d] /\ argv'[d] = argv[d]
  BY Zenon DEF Waiting
<1> HIDE DEF p
<1>3. Only({"get", "set", "del"})' <=> Only({"get", "set", "del"})
  BY Zenon DEF Only
<1> SUFFICES ASSUME NEW d \in Range(todo)
             PROVE  /\ \A n \in Modes, q \in Items :
                         cands'[n][q] # NULL => d \notin Range(cands'[n][q].clients)
                    /\ d \in connected => state'[d] = hmode /\ Item(argv'[d]) = job'[hmode].item
                    /\ Only({"get", "set", "del"}) => d \in connected
  BY Zenon, <1>0, <1>2, <1>3 DEF CopiedWaits, Item
<1>4. d # cur /\ d \in Clients
  <2>1. todo \in Seq(Clients)
    BY Zenon, <1>0 DEF TypeOK
  <2> QED BY Zenon, <2>1, CurUnregistered, RangeType
<1>5. ASSUME NEW n \in Modes, NEW q \in Items, cands'[n][q] # NULL
      PROVE  d \notin Range(cands'[n][q].clients)
  <2>1. cands[n][q] # NULL => d \notin Range(cands[n][q].clients)
    BY Zenon, <1>0 DEF CopiedWaits
  <2>2. CASE n = m /\ q = p
    <3>1. cands'[n][q] = e
      BY Zenon, <1>1, <2>2
    <3>2. d \notin Range(e.clients)
      BY Zenon, <1>1, <1>4, <2>1, <2>2
    <3> QED BY Zenon, <3>1, <3>2
  <2>3. CASE ~(n = m /\ q = p)
    <3>1. cands'[n][q] = cands[n][q]
      BY Zenon, <1>1, <2>3
    <3> QED BY Zenon, <1>5, <2>1, <3>1
  <2> QED BY Zenon, <2>2, <2>3
<1>6. hmode \in Modes /\ job'[hmode] = job[hmode]
  <2>1. todo # <<>>
    BY Zenon, EmptyList
  <2>2. hmode \in Modes
    BY Zenon, <1>0, <2>1 DEF MainInv, TypeOK
  <2> QED BY Zenon, <2>2, EnqueuedJob
<1>7. /\ d \in connected => state[d] = hmode /\ Item(argv[d]) = job[hmode].item
      /\ Only({"get", "set", "del"}) => d \in connected
  BY Zenon, <1>0 DEF CopiedWaits
<1> QED BY Zenon, <1>2, <1>4, <1>5, <1>6, <1>7

\* Whoever begins to wait is listed, and nobody is taken off a list.
LEMMA EnqueueWaits ==
  ASSUME IInv, NEW cmd \in workload.commands, NEW m \in Modes, NEW e \in Entries,
         Enqueued(cmd, m, e), Waiting(cmd, m), cur # NULL, cmd.name \in ModeNames(m)
  PROVE  WaitsListed'
<1>0. TypeOK /\ WaitsListed /\ cmd # NULL /\ Item(cmd) \in Items
  BY Zenon, WorkloadFacts DEF IInv
<1> DEFINE p == Item(cmd)
<1>1. /\ \A n \in Modes, q \in Items :
           cands'[n][q] = IF n = m /\ q = p THEN e ELSE cands[n][q]
      /\ Range(e.clients) = (IF cands[m][p] = NULL THEN {} ELSE Range(cands[m][p].clients))
                              \union (IF m \in config.sync THEN {cur} ELSE {})
  BY Zenon DEF Enqueued
<1>2. /\ UNCHANGED <<connected, hmode, todo>>
      /\ m \in config.sync => state'[cur] = m /\ argv'[cur] = cmd
      /\ m \notin config.sync => state'[cur] = state[cur]
      /\ \A d \in Clients : d # cur => state'[d] = state[d] /\ argv'[d] = argv[d]
  BY Zenon DEF Waiting
<1>3. e # NULL /\ cur \in Clients /\ cur \in connected /\ state[cur] = NULL
  BY Zenon, NullFacts, CurUnregistered
<1> HIDE DEF p
<1> SUFFICES ASSUME NEW d \in Clients, state'[d] # NULL
             PROVE  /\ d \in connected /\ argv'[d] # NULL /\ argv'[d].name \in ModeNames(state'[d])
                    /\ \/ /\ cands'[state'[d]][Item(argv'[d])] # NULL
                          /\ d \in Range(cands'[state'[d]][Item(argv'[d])].clients)
                       \/ hmode = state'[d] /\ d \in Range(todo)
  BY Zenon, <1>2 DEF WaitsListed, Item, ModeNames
<1>4. CASE d = cur
  <2>1. m \in config.sync /\ state'[d] = m /\ argv'[d] = cmd
    BY Zenon, <1>2, <1>3, <1>4
  <2>2. cands'[m][p] = e /\ d \in Range(e.clients)
    BY Zenon, <1>0, <1>1, <1>4, <2>1 DEF p
  <2>3. cands'[state'[d]][Item(argv'[d])] = e
    BY Zenon, <2>1, <2>2 DEF p
  <2> QED BY Zenon, <1>0, <1>3, <1>4, <2>1, <2>2, <2>3
<1>5. CASE d # cur
  <2> DEFINE n == state[d]
             q == Item(argv[d])
  <2>1. state'[d] = state[d] /\ argv'[d] = argv[d]
    BY Zenon, <1>2, <1>5
  <2>2. n \in Modes /\ argv[d] \in workload.commands
    BY Zenon, <1>0, <2>1 DEF TypeOK, WaitsListed
  <2>3. q \in Items
    BY Zenon, <1>0, <2>2, WorkloadFacts
  <2>4. /\ d \in connected /\ argv[d] # NULL /\ argv[d].name \in ModeNames(n)
        /\ \/ cands[n][q] # NULL /\ d \in Range(cands[n][q].clients)
           \/ hmode = n /\ d \in Range(todo)
    BY Zenon, <1>0, <2>1 DEF WaitsListed
  <2> HIDE DEF n, q
  <2>5. cands[n][q] # NULL /\ d \in Range(cands[n][q].clients) =>
          cands'[n][q] # NULL /\ d \in Range(cands'[n][q].clients)
    BY Zenon, <1>1, <1>3, <2>2, <2>3
  <2> QED BY Zenon, <2>1, <2>4, <2>5 DEF n, q
<1> QED BY Zenon, <1>4, <1>5

\* The mode has a job that has an entry.
LEMMA EnqueueJobs ==
  ASSUME IInv, NEW cmd, NEW m \in Modes, NEW e \in Entries, Enqueued(cmd, m, e), hmode' = hmode
  PROVE  JobHasCandidate'
<1>0. TypeOK /\ JobHasCandidate /\ e # NULL
  BY Zenon, NullFacts DEF IInv
<1>1. \A n \in Modes, q \in Items :
        cands'[n][q] = IF n = m /\ q = Item(cmd) THEN e ELSE cands[n][q]
  BY Zenon DEF Enqueued
<1>2. /\ \A n \in Modes : n # m => job'[n] = job[n]
      /\ job'[m] # Idle /\ (job' = job \/ cands'[m][job'[m].item] # NULL)
  BY Zenon, EnqueuedJob
<1> SUFFICES ASSUME NEW n \in Modes, hmode # n
             PROVE  /\ job'[n] = Idle => \A q \in Items : cands'[n][q] = NULL
                    /\ job'[n] # Idle => cands'[n][job'[n].item] # NULL
  BY Zenon DEF JobHasCandidate
<1>3. /\ job[n] = Idle => \A q \in Items : cands[n][q] = NULL
      /\ job[n] # Idle => cands[n][job[n].item] # NULL
  BY Zenon, <1>0 DEF JobHasCandidate
<1>4. job[n] # Idle => job[n].item \in Items
  BY Zenon, <1>0, JobFacts DEF PendingJobs
<1>5. CASE n # m
  <2>1. job'[n] = job[n] /\ \A q \in Items : cands'[n][q] = cands[n][q]
    BY Zenon, <1>1, <1>2, <1>5
  <2> QED BY Zenon, <1>3, <1>4, <2>1
<1>6. CASE n = m
  <2>1. job' = job => cands'[n][job[n].item] # NULL
    BY Zenon, <1>0, <1>1, <1>2, <1>3, <1>4, <1>6
  <2> QED BY Zenon, <1>2, <1>6, <2>1
<1> QED BY Zenon, <1>5, <1>6

\* A command that needs the database joins the entry of its item; a synchronous one waits.
LEMMA EnqueueStep ==
  ASSUME IInv, UNCHANGED workload, NEW cmd \in workload.commands, Enqueue(cmd)
  PROVE  IInv'
<1>0. TypeOK /\ MainInv
  BY Zenon DEF IInv
<1>1. PICK m \in Modes, e \in Entries : Enqueued(cmd, m, e)
  BY Zenon, EnqueueFacts
<1>2. /\ m = NeededMode(cmd) /\ (m = "set" => e.val = cmd.val)
      /\ cands' \in [Modes -> [Items -> Entries \union {NULL}]]
      /\ \A n \in Modes, q \in Items :
           cands'[n][q] = IF n = m /\ q = Item(cmd) THEN e ELSE cands[n][q]
  BY Zenon, <1>1 DEF Enqueued
<1>3. /\ cur # NULL /\ cmd.name \in ModeNames(m)
      /\ (cmd.name \in SetCommands => cmd.val \in Texts)
  BY Zenon, <1>0, <1>2, ModeFacts, WorkloadFacts, NullFacts DEF Enqueue
<1>4. cur \in Clients /\ cur \in connected /\ state[cur] = NULL
  BY Zenon, <1>3, CurUnregistered
<1>5. /\ Waiting(cmd, m) /\ cache' \in CacheMaps
      /\ setReply' \in [Clients -> BOOLEAN] /\ delReply' \in [Clients -> BOOLEAN]
  BY Zenon, <1>2, EnqueuedClient
<1>6. /\ job' \in [Modes -> PendingJobs \union {Idle}]
      /\ \A n \in Modes : n # m => job'[n] = job[n]
      /\ hmode = m => job' = job
      /\ \/ job' = job
         \/ /\ job'[m].res = NULL /\ cands'[m][job'[m].item] # NULL
            /\ job'[m].val = cands'[m][job'[m].item].val
  BY Zenon, <1>1, EnqueuedJob
<1>7. /\ UNCHANGED <<config, database, connected, hmode, todo>>
      /\ \/ /\ m \in config.sync
            /\ state' = [state EXCEPT ![cur] = m] /\ argv' = [argv EXCEPT ![cur] = cmd]
            /\ cur' = NULL
         \/ m \notin config.sync /\ UNCHANGED <<state, argv, cur>>
  BY Zenon, <1>5 DEF Waiting
<1>8. TypeOK'
  <2>1. "set" \in Modes /\ "get" \in Modes
    BY Zenon, NullFacts
  <2>2. \A q \in Items : cands'["set"][q] # NULL => cands'["set"][q].val \in Texts
    <3>1. m = "set" => e.val \in Texts
      BY Zenon, <1>2, <1>3 DEF ModeNames
    <3>2. \A q \in Items : cands["set"][q] # NULL => cands["set"][q].val \in Texts
      BY Zenon, <1>0 DEF TypeOK
    <3> QED BY ZenonT(60), <1>2, <2>1, <3>1, <3>2
  <2>3. job'["set"] # Idle => job'["set"].val \in Texts
    <3>1. job'["set"] # Idle => job'["set"].item \in Items
      BY Zenon, <1>6, <2>1 DEF PendingJobs
    <3>2. job["set"] # Idle => job["set"].val \in Texts
      BY Zenon, <1>0 DEF TypeOK
    <3> QED BY Zenon, <1>6, <2>1, <2>2, <3>1, <3>2
  <2>4. job'["get"].res \in Texts \union {NULL}
    <3>1. job["get"].res \in Texts \union {NULL}
      BY Zenon, <1>0 DEF TypeOK
    <3> QED BY Zenon, <1>6, <2>1, <3>1
  <2>5. /\ state' \in [Clients -> Modes \union {NULL}]
        /\ argv' \in [Clients -> workload.commands \union {NULL}]
        /\ cur' \in Clients \union {NULL}
    <3>1. /\ state \in [Clients -> Modes \union {NULL}]
          /\ argv \in [Clients -> workload.commands \union {NULL}]
      BY Zenon, <1>0 DEF TypeOK
    <3>2. CASE m \in config.sync
      BY Zenon, <1>7, <3>1, <3>2
    <3>3. CASE m \notin config.sync
      BY Zenon, <1>4, <1>7, <3>1, <3>3
    <3> QED BY Zenon, <3>2, <3>3
  <2> QED BY Zenon, <1>0, <1>2, <1>5, <1>6, <1>7, <2>2, <2>3, <2>4, <2>5 DEF TypeOK, CacheMaps
<1>9. MainInv'
  <2>1. cur' # NULL => cur' \in connected' /\ state'[cur'] = NULL
    BY Zenon, <1>4, <1>7
  <2>2. hmode # NULL => job'[hmode] = job[hmode]
    BY Zenon, <1>0, <1>6 DEF TypeOK
  <2> QED BY Zenon, <1>0, <1>7, <2>1, <2>2 DEF MainInv
<1>10. ListedWaits'
  BY Zenon, <1>1, <1>3, <1>5, EnqueueListed
<1>11. CopiedWaits'
  BY Zenon, <1>1, <1>3, <1>5, EnqueueCopied
<1>12. WaitsListed'
  BY Zenon, <1>1, <1>3, <1>5, EnqueueWaits
<1>13. JobHasCandidate'
  BY Zenon, <1>1, <1>7, EnqueueJobs
<1> QED BY Zenon, <1>8, <1>9, <1>10, <1>11, <1>12, <1>13 DEF IInv

\* Every step of the server keeps the invariant, and so does standing still.
LEMMA NextIInv == IInv /\ [Next]_vars => IInv'
<1> SUFFICES ASSUME IInv, [Next]_vars PROVE IInv'
  BY Zenon
<1>1. CASE UNCHANGED vars
  <2>1. UNCHANGED vars
    BY Zenon, <1>1
  <2> USE <2>1 DEF vars, clientVars, mainVars
  <2>2. TypeOK' /\ MainInv' /\ JobHasCandidate'
    BY Zenon DEF IInv, TypeOK, MainInv, JobHasCandidate
  <2>3. ListedWaits' /\ CopiedWaits' /\ WaitsListed'
    BY Zenon, WaitFrame
  <2> QED BY Zenon, <2>2, <2>3 DEF IInv
<1>2. CASE Running(ServerStep)
  <2>1. UNCHANGED workload /\ ServerStep
    BY Zenon, <1>2 DEF Running
  <2>2. ASSUME NEW c \in Clients, ReadQuery(c) \/ Disconnect(c) \/ Connect(c)
        PROVE  IInv'
    BY Zenon, <2>1, <2>2, ReadQueryStep, DisconnectStep, ConnectStep
  <2>3. CASE EndInput \/ Resume \/ ResumeFreed \/ Finish
    BY Zenon, <2>1, <2>3, EndInputStep, ResumeStep, ResumeFreedStep, FinishStep
  <2>4. ASSUME NEW cmd \in workload.commands,
               Enqueue(cmd) \/ RunDirectly(cmd) \/ CheckFails(cmd) \/ Kill(cmd)
        PROVE  IInv'
    BY Zenon, <2>1, <2>4, EnqueueStep, RunDirectlyStep, CheckFailsStep, KillStep
  <2>5. ASSUME NEW cfg \in workload.configs, ConfigSet(cfg)
        PROVE  IInv'
    BY Zenon, <2>1, <2>5, ConfigSetStep
  <2>6. ASSUME NEW m \in Modes, Handle(m) \/ WorkerStep(m)
        PROVE  IInv'
    BY Zenon, <2>1, <2>6, HandleStep, DbCallStep, ReturnStep DEF WorkerStep
  <2>7. ASSUME NEW p \in Items, TtlElapses(p)
        PROVE  IInv'
    BY Zenon, <2>1, <2>7, TtlElapsesStep
  <2> QED BY Zenon, <2>1, <2>2, <2>3, <2>4, <2>5, <2>6, <2>7 DEF ServerStep
<1> QED BY Zenon, <1>1, <1>2 DEF Next, Stopped

\* IInv holds in every reachable state: for every set of clients, databases, keys, values
\* and workloads, every variable has its type, whoever waits is registered once, and a
\* pending job has its entry.
THEOREM Invariant == Spec => []IInv
<1> QED BY InitIInv, NextIInv, PTL DEF Spec
=============================================================================
