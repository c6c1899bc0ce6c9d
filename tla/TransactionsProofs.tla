------------------------- MODULE TransactionsProofs -------------------------
(***************************************************************************)
(* Every command, transaction and event of Transactions keeps the lists of *)
(* blocked clients right, leaves nobody asleep next to an element and      *)
(* flags the clients whose watched keys it changes: for any number of      *)
(* clients and keys, lists and transactions of any length.                 *)
(***************************************************************************)
EXTENDS Transactions, TLAPS

-----------------------------------------------------------------------------
(* Facts about numbers and lists. *)

\* What is used about numbers and finite sets.  The lemmas take it as a hypothesis, and
\* CountingHolds shows it in the end with the library's theorems, which would slow
\* down every proof before.
Counting ==
  /\ \A T \in SUBSET Nat : T # {} => \E x \in T : \A y \in T : x <= y
  /\ \A C : \A s \in Seq(C) : IsInjective(s) =>
       IsFiniteSet(Range(s)) /\ Cardinality(Range(s)) = Len(s)
  /\ Cardinality({}) = 0
  /\ \A S : IsFiniteSet(S) =>
       /\ Cardinality(S) \in Nat
       /\ \A T \in SUBSET S : IsFiniteSet(T) /\ Cardinality(T) <= Cardinality(S)
       /\ \A x \in S : Cardinality(S \ {x}) = Cardinality(S) - 1

\* A set of numbers that is not empty has a least one.
LEMMA Least ==
  ASSUME Counting, NEW T \in SUBSET Nat, T # {}
  PROVE  \E x \in T : \A y \in T : x <= y
BY Zenon DEF Counting

\* A list without duplicates is as long as the set of its elements is large.
LEMMA InjectiveLength ==
  ASSUME Counting, NEW C, NEW s \in Seq(C), IsInjective(s)
  PROVE  IsFiniteSet(Range(s)) /\ Cardinality(Range(s)) = Len(s)
BY Zenon DEF Counting

\* The cardinality of a finite set is a number, and that of a subset is no greater.
LEMMA SubsetCount ==
  ASSUME Counting, NEW S, IsFiniteSet(S), NEW T \in SUBSET S
  PROVE  /\ IsFiniteSet(T) /\ Cardinality(T) \in Nat /\ Cardinality(S) \in Nat
         /\ Cardinality(T) <= Cardinality(S)
BY Zenon DEF Counting

\* A set is one smaller without one of its elements, and the empty set has none.
LEMMA RemoveCount ==
  ASSUME Counting
  PROVE  /\ Cardinality({}) = 0
         /\ \A S : IsFiniteSet(S) => \A x \in S : Cardinality(S \ {x}) = Cardinality(S) - 1
BY Zenon DEF Counting

\* What appending does to the members of a list.
LEMMA AppendFacts ==
  ASSUME NEW C, NEW s \in Seq(C), NEW e \in C
  PROVE  /\ Append(s, e) \in Seq(C)
         /\ Range(Append(s, e)) = Range(s) \union {e}
         /\ IsInjective(s) /\ e \notin Range(s) => IsInjective(Append(s, e))
<1>1. /\ Append(s, e) \in Seq(C) /\ DOMAIN Append(s, e) = 1..(Len(s) + 1)
      /\ Append(s, e)[Len(s) + 1] = e /\ \A i \in 1..Len(s) : Append(s, e)[i] = s[i]
      /\ DOMAIN s = 1..Len(s) /\ Len(s) \in Nat
  OBVIOUS
<1>2. Range(Append(s, e)) = Range(s) \union {e}
  <2>1. ASSUME NEW x \in Range(Append(s, e))
        PROVE  x \in Range(s) \union {e}
    <3>1. PICK i \in 1..(Len(s) + 1) : x = Append(s, e)[i]
      BY Zenon, <1>1 DEF Range
    <3>2. i = Len(s) + 1 \/ i \in 1..Len(s)
      BY <1>1
    <3> QED BY Zenon, <1>1, <3>1, <3>2 DEF Range
  <2>2. Range(s) \subseteq Range(Append(s, e))
    <3> SUFFICES ASSUME NEW i \in 1..Len(s)
                 PROVE  \E j \in 1..(Len(s) + 1) : Append(s, e)[j] = s[i]
      BY <1>1 DEF Range
    <3> QED BY <1>1
  <2>3. e \in Range(Append(s, e))
    <3>1. Len(s) + 1 \in 1..(Len(s) + 1)
      BY <1>1
    <3> QED BY Zenon, <1>1, <3>1 DEF Range
  <2> QED BY Zenon, <2>1, <2>2, <2>3
<1>3. ASSUME IsInjective(s), e \notin Range(s)
      PROVE  IsInjective(Append(s, e))
  <2> SUFFICES ASSUME NEW i \in 1..(Len(s) + 1), NEW j \in 1..(Len(s) + 1),
                      Append(s, e)[i] = Append(s, e)[j]
               PROVE  i = j
    BY Zenon, <1>1 DEF IsInjective
  <2>1. (i = Len(s) + 1 \/ i \in 1..Len(s)) /\ (j = Len(s) + 1 \/ j \in 1..Len(s))
    BY <1>1
  <2>2. \A k \in 1..Len(s) : s[k] # e
    BY Zenon, <1>1, <1>3 DEF Range
  <2> QED BY Zenon, <1>1, <1>3, <2>1, <2>2 DEF IsInjective
<1> QED BY Zenon, <1>1, <1>2, <1>3

\* The elements of t are elements of s, in the order of s.
Follows(s, t) ==
  \A i, j \in DOMAIN t : i < j => \E p, q \in DOMAIN s : p < q /\ s[p] = t[i] /\ s[q] = t[j]

\* Without deletes the nodes of a client and no other.
LEMMA WithoutFacts ==
  ASSUME Counting, NEW C, NEW s \in Seq(C), NEW c
  PROVE  /\ Without(s, c) \in Seq(C)
         /\ Range(Without(s, c)) = Range(s) \ {c}
         /\ IsInjective(s) => IsInjective(Without(s, c))
         /\ Follows(s, Without(s, c))
<1> DEFINE step(g, i) ==
             IF i = 0 THEN <<>> ELSE IF s[i] = c THEN g[i - 1] ELSE Append(g[i - 1], s[i])
           Is(g, n) == g = [i \in 0..n |-> step(g, i)]
<1>1. Len(s) \in Nat /\ DOMAIN s = 1..Len(s) /\ \A i \in 1..Len(s) : s[i] \in C
  OBVIOUS
<1>2. \E g : Is(g, Len(s))
  <2> DEFINE T == {n \in Nat : ~\E g : Is(g, n)}
  <2>1. T = {}
    <3> SUFFICES ASSUME T # {} PROVE FALSE
      BY Zenon
    <3>1. PICK n \in T : \A m \in T : n <= m
      <4> HIDE DEF T
      <4>1. T \in SUBSET Nat
        BY Zenon DEF T
      <4> QED BY Zenon, <4>1, Least
    <3>2. CASE n = 0
      <4> DEFINE g == [i \in 0..0 |-> <<>>]
      <4>1. Is(g, 0)
        OBVIOUS
      <4> QED BY Zenon, <3>1, <3>2, <4>1
    <3>3. CASE n # 0
      <4>1. n \in Nat /\ n - 1 \in Nat /\ n - 1 \notin T
        <5>1. n \in Nat
          BY Zenon, <3>1
        <5> HIDE DEF T
        <5> QED BY <3>1, <3>3, <5>1
      <4>2. PICK g : Is(g, n - 1)
        BY Zenon, <4>1
      <4> DEFINE h == [i \in 0..n |-> IF i = n THEN step(g, n) ELSE g[i]]
      <4>3. \A i \in 0..n : h[i] = step(h, i)
        <5> SUFFICES ASSUME NEW i \in 0..n PROVE h[i] = step(h, i)
          BY Zenon
        <5>1. CASE i = n
          <6>1. h[n] = step(g, n) /\ h[n - 1] = g[n - 1]
            BY <4>1
          <6> QED BY Zenon, <5>1, <6>1, <3>3
        <5>2. CASE i # n
          <6>1. i \in 0..(n - 1) /\ h[i] = g[i] /\ (i # 0 => h[i - 1] = g[i - 1])
            BY <4>1, <5>2
          <6>2. g[i] = step(g, i)
            BY Zenon, <4>2, <6>1
          <6> QED BY Zenon, <6>1, <6>2
        <5> QED BY Zenon, <5>1, <5>2
      <4>4. Is(h, n)
        BY Zenon, <4>3
      <4> QED BY Zenon, <3>1, <4>4
    <3> QED BY Zenon, <3>2, <3>3
  <2> QED BY Zenon, <1>1, <2>1
<1>3. PICK g : Is(g, Len(s)) /\ Without(s, c) = g[Len(s)]
  <2> DEFINE k == CHOOSE k : Is(k, Len(s))
  <2>1. Is(k, Len(s))
    BY Zenon, <1>2
  <2>2. Without(s, c) = k[Len(s)]
    BY Zenon DEF Without
  <2> QED BY Zenon, <2>1, <2>2
<1> DEFINE Upto(i) == {s[j] : j \in 1..i}
           Good(i) == /\ g[i] \in Seq(C) /\ Range(g[i]) = Upto(i) \ {c}
                      /\ IsInjective(s) => IsInjective(g[i])
                      /\ Follows(s, g[i])
           T == {i \in Nat : i <= Len(s) /\ ~Good(i)}
<1>4. T = {}
  <2> SUFFICES ASSUME T # {} PROVE FALSE
    BY Zenon
  <2>1. PICK i \in T : \A j \in T : i <= j
    <3> HIDE DEF T
    <3>1. T \in SUBSET Nat
      BY Zenon DEF T
    <3> QED BY Zenon, <3>1, Least
  <2>2. i \in Nat /\ i <= Len(s) /\ i \in 0..Len(s) /\ ~Good(i)
    BY <1>1, <2>1
  <2>3. CASE i = 0
    <3>1. g[0] = <<>>
      BY Zenon, <1>3, <2>2, <2>3
    <3>2. /\ Range(<<>>) = {} /\ Upto(0) = {} /\ IsInjective(<<>>) /\ <<>> \in Seq(C)
          /\ Follows(s, <<>>)
      BY DEF Range, IsInjective, Follows
    <3> QED BY Zenon, <2>2, <2>3, <3>1, <3>2
  <2>4. CASE i # 0
    <3>1. i - 1 \in Nat /\ i - 1 <= Len(s) /\ i \in 1..Len(s) /\ i - 1 \notin T
      <4> HIDE DEF T, Good
      <4> QED BY <1>1, <2>1, <2>2, <2>4
    <3>2. Good(i - 1)
      BY Zenon, <3>1
    <3>3. g[i] = IF s[i] = c THEN g[i - 1] ELSE Append(g[i - 1], s[i])
      BY Zenon, <1>3, <2>2, <2>4
    <3>4. Upto(i) = Upto(i - 1) \union {s[i]}
      <4>1. \A j \in 1..i : j = i \/ j \in 1..(i - 1)
        BY <3>1
      <4>2. \A j \in 1..(i - 1) : j \in 1..i
        BY <3>1
      <4>3. i \in 1..i
        BY <3>1
      <4> QED BY Zenon, <4>1, <4>2, <4>3
    <3>5. CASE s[i] = c
      BY Zenon, <2>2, <3>2, <3>3, <3>4, <3>5
    <3>6. CASE s[i] # c
      <4>1. g[i] = Append(g[i - 1], s[i]) /\ s[i] \in C
        BY Zenon, <1>1, <3>1, <3>3, <3>6
      <4>2. IsInjective(s) => s[i] \notin Range(g[i - 1])
        <5>1. IsInjective(s) => \A j \in 1..(i - 1) : s[j] # s[i]
          BY SMTT(30), <1>1, <3>1 DEF IsInjective
        <5> QED BY Zenon, <3>2, <5>1
      <4>3. /\ g[i] \in Seq(C) /\ Range(g[i]) = Range(g[i - 1]) \union {s[i]}
            /\ IsInjective(g[i - 1]) /\ s[i] \notin Range(g[i - 1]) => IsInjective(g[i])
        <5> HIDE DEF Upto
        <5> QED BY <3>2, <4>1, AppendFacts
      <4>4. Range(g[i]) = Upto(i) \ {c}
        <5> HIDE DEF Upto
        <5> QED BY Zenon, <3>2, <3>4, <3>6, <4>3
      <4>5. Follows(s, g[i])
        <5>1. PICK h, m : h = g[i - 1] /\ m = Len(h)
          BY Zenon
        <5>2. h \in Seq(C) /\ m \in Nat /\ DOMAIN h = 1..m
          BY <3>2, <5>1
        <5>3. /\ DOMAIN g[i] = 1..(m + 1) /\ g[i][m + 1] = s[i]
              /\ \A a \in 1..m : g[i][a] = h[a]
          BY <4>1, <5>1, <5>2
        <5>4. \A a \in 1..m : \E p \in DOMAIN s : p < i /\ s[p] = h[a]
          <6>1. \A a \in 1..m : h[a] \in Range(h)
            BY Zenon, <5>2 DEF Range
          <6>2. Range(h) \subseteq Upto(i - 1)
            BY Zenon, <3>2, <5>1
          <6>3. \A p \in 1..(i - 1) : p \in DOMAIN s /\ p < i
            BY <1>1, <3>1
          <6> QED BY Zenon, <6>1, <6>2, <6>3
        <5>5. ASSUME NEW a \in 1..(m + 1), NEW b \in 1..(m + 1), a < b
              PROVE  \E p, q \in DOMAIN s : p < q /\ s[p] = g[i][a] /\ s[q] = g[i][b]
          <6>1. a \in 1..m
            BY <5>2, <5>5
          <6>2. CASE b = m + 1
            <7>1. i \in DOMAIN s
              BY Zenon, <1>1, <3>1
            <7>2. g[i][b] = s[i] /\ g[i][a] = h[a]
              BY Zenon, <5>3, <6>1, <6>2
            <7> QED BY Zenon, <5>4, <6>1, <7>1, <7>2
          <6>3. CASE b # m + 1
            <7>1. b \in 1..m
              BY <5>2, <6>3
            <7>2. Follows(s, h)
              BY Zenon, <3>2, <5>1
            <7>3. g[i][b] = h[b] /\ g[i][a] = h[a]
              BY Zenon, <5>3, <6>1, <7>1
            <7>4. a \in DOMAIN h /\ b \in DOMAIN h
              BY Zenon, <5>2, <6>1, <7>1
            <7>5. \E p, q \in DOMAIN s : p < q /\ s[p] = h[a] /\ s[q] = h[b]
              BY Zenon, <5>5, <7>2, <7>4 DEF Follows
            <7> QED BY Zenon, <7>3, <7>5
          <6> QED BY Zenon, <6>2, <6>3
        <5> QED BY SMTT(30), <5>3, <5>5 DEF Follows
      <4> QED BY Zenon, <2>2, <3>2, <4>2, <4>3, <4>4, <4>5
    <3> QED BY Zenon, <3>5, <3>6
  <2> QED BY Zenon, <2>3, <2>4
<1>5. Good(Len(s))
  <2> HIDE DEF Good
  <2> QED BY <1>1, <1>4
<1>6. Upto(Len(s)) = Range(s)
  BY Zenon, <1>1 DEF Range
<1> QED BY Zenon, <1>3, <1>5, <1>6

\* What is in a list of keys or clients.
LEMMA RangeType ==
  ASSUME NEW C, NEW s \in Seq(C)
  PROVE  Range(s) \subseteq C /\ (s = <<>> <=> Range(s) = {})
<1>1. DOMAIN s = 1..Len(s) /\ Len(s) \in Nat /\ \A i \in 1..Len(s) : s[i] \in C
  OBVIOUS
<1>2. Range(s) \subseteq C
  BY Zenon, <1>1 DEF Range
<1>3. s = <<>> => Range(s) = {}
  BY DEF Range
<1>4. ASSUME s # <<>> PROVE Range(s) # {}
  <2>1. Len(s) # 0
    BY <1>4
  <2>2. 1 \in DOMAIN s
    BY <1>1, <2>1
  <2> QED BY Zenon, <2>2 DEF Range
<1> QED BY Zenon, <1>2, <1>3, <1>4

\* The list without its first element.
LEMMA TailFacts ==
  ASSUME NEW C, NEW s \in Seq(C), s # <<>>
  PROVE  /\ Head(s) \in C /\ Tail(s) \in Seq(C)
         /\ Range(s) = Range(Tail(s)) \union {Head(s)}
         /\ IsInjective(s) => IsInjective(Tail(s)) /\ Head(s) \notin Range(Tail(s))
<1>1. /\ Len(s) \in Nat \ {0} /\ DOMAIN s = 1..Len(s) /\ Head(s) = s[1] /\ s[1] \in C
      /\ Tail(s) \in Seq(C) /\ DOMAIN Tail(s) = 1..(Len(s) - 1)
      /\ \A i \in 1..(Len(s) - 1) : Tail(s)[i] = s[i + 1]
  OBVIOUS
<1>2. Range(s) \subseteq Range(Tail(s)) \union {Head(s)}
  <2> SUFFICES ASSUME NEW x \in Range(s), x # Head(s)
               PROVE  x \in Range(Tail(s))
    BY Zenon
  <2>1. PICK i \in 1..Len(s) : x = s[i]
    BY Zenon, <1>1 DEF Range
  <2>2. i - 1 \in 1..(Len(s) - 1) /\ Tail(s)[i - 1] = x
    BY <1>1, <2>1
  <2> QED BY Zenon, <1>1, <2>2 DEF Range
<1>3. Range(Tail(s)) \subseteq Range(s) /\ Head(s) \in Range(s)
  <2>1. \A i \in 1..(Len(s) - 1) : i + 1 \in 1..Len(s) /\ Tail(s)[i] = s[i + 1]
    BY <1>1
  <2>2. 1 \in 1..Len(s)
    BY <1>1
  <2> QED BY Zenon, <1>1, <2>1, <2>2 DEF Range
<1>4. ASSUME IsInjective(s)
      PROVE  IsInjective(Tail(s)) /\ Head(s) \notin Range(Tail(s))
  <2>1. \A i, j \in 1..Len(s) : s[i] = s[j] => i = j
    BY Zenon, <1>1, <1>4 DEF IsInjective
  <2>2. \A i \in 1..(Len(s) - 1) : i + 1 \in 1..Len(s) /\ i + 1 # 1
    BY <1>1
  <2>3. 1 \in 1..Len(s)
    BY <1>1
  <2>4. Head(s) \notin Range(Tail(s))
    BY <1>1, <2>1, <2>2, <2>3 DEF Range
  <2>5. IsInjective(Tail(s))
    BY <1>1, <2>1, <2>2 DEF IsInjective
  <2> QED BY Zenon, <2>4, <2>5
<1> QED BY Zenon, <1>1, <1>2, <1>3, <1>4

-----------------------------------------------------------------------------
(* What holds of the server in the middle of an event, and what a part of  *)
(* an event does.                                                          *)

\* The fields of the server's record.
Fields == {"data", "clients", "blocking", "ready", "waiting", "argv", "dirty", "base", "log",
           "seen", "served", "filled"}

\* The records of clients.
ClientShape ==
  [state : {"normal", "blocked", "backend"}, multi : BOOLEAN, queue : Seq(CommandShape),
   dirtyExec : BOOLEAN, dirtyCas : BOOLEAN, watched : SUBSET Keys,
   cmd : CommandShape \union {NULL}]

\* Whoever is blocked has a command that blocks.
Blocker(x) == x.state = "blocked" => x.cmd \in CommandShape /\ x.cmd.op \in {"blpop", "brpoplpush"}

\* The shape of the server's record between the steps of a handler.
IsServer(s) ==
  /\ DOMAIN s = Fields /\ DOMAIN s.data = Keys /\ DOMAIN s.waiting = Keys
  /\ s.clients \in [Clients -> ClientShape] /\ s.blocking \in [Keys -> Seq(Clients)]
  /\ s.ready \in Seq(Keys)
  /\ \A c \in Clients : Blocker(s.clients[c])

\* Who is blocked on a key is in its list, once.
Registered(s) ==
  \A k \in Keys : /\ IsInjective(s.blocking[k])
                  /\ \A c \in Clients : c \in Range(s.blocking[k]) <=> k \in BlockedOn(s.clients[c])

\* A key on which somebody is blocked and that has a list is ready; not asked of the
\* keys of X.
Awake(s, X) ==
  \A k \in Keys \ X : s.blocking[k] # <<>> /\ IsList(s.data[k]) => k \in Range(s.ready)

\* Who watches k is flagged.
Flagged(s, k) == \A c \in Clients : k \in s.clients[c].watched => s.clients[c].dirtyCas

\* The keys that are ready were touched when they became so.
ReadyFlagged(s) == IsInjective(s.ready) /\ \A k \in Range(s.ready) : Flagged(s, k)

\* What every command keeps of the server, the keys of X left open.
Good(s, X) == IsServer(s) /\ Registered(s) /\ Awake(s, X) /\ ReadyFlagged(s)

\* From s to t a client stops watching, or keeps its flag and gets it when a key it
\* watches has changed; not asked of the keys of X.
Flags(s, t, X) ==
  \A c \in Clients :
    \/ t.clients[c].watched = {}
    \/ /\ t.clients[c].watched = s.clients[c].watched
       /\ s.clients[c].dirtyCas => t.clients[c].dirtyCas
       /\ \A k \in s.clients[c].watched \ X : t.data[k] # s.data[k] => t.clients[c].dirtyCas

\* What a part of an event leaves alone.
Keeps(s, t) ==
  /\ t.waiting = s.waiting
  /\ \A c \in Clients : /\ t.clients[c].state = "backend" <=> s.clients[c].state = "backend"
                        /\ s.clients[c].state = "backend" => t.clients[c].cmd = s.clients[c].cmd
                        /\ t.clients[c].multi = s.clients[c].multi

\* What a part of a command does: flags whom it has to, and frees nobody that waits.
Part(s, t, X) == Flags(s, t, X) /\ Keeps(s, t)

\* Who waits for a pipe handler is in the list of the key of its get, once.
Waiters(s) ==
  \A k \in Keys :
    /\ Getters(s, k) \in Seq(Clients) /\ IsInjective(Getters(s, k))
    /\ \A c \in Clients : c \in Range(Getters(s, k)) <=> k \in WaitsFor(s.clients[c])

\* The invariant: between events no key is ready, so that Awake says that nobody
\* sleeps next to a list.
IInv ==
  /\ Good(server, {}) /\ server.ready = <<>> /\ Waiters(server) /\ ChangedIsFlagged
  /\ changed \subseteq Clients /\ situation \in Situations
  /\ \A c \in changed : server.clients[c].watched # {}

-----------------------------------------------------------------------------
(* How parts of an event compose. *)

\* Nothing these predicates speak of differs between s and u.
Same(s, u) ==
  /\ DOMAIN u = Fields /\ u.data = s.data /\ u.clients = s.clients
  /\ u.blocking = s.blocking /\ u.ready = s.ready /\ u.waiting = s.waiting

\* Steps of the model that only write the history, the file or the command.
LEMMA SameFacts ==
  ASSUME NEW s, IsServer(s), NEW x, NEW y
  PROVE  /\ Same(s, s) /\ Same(s, Dirty(s)) /\ Same(s, Propagate(s, x)) /\ Same(s, Between(s))
         /\ Same(s, [s EXCEPT !.argv = x]) /\ Same(s, [s EXCEPT !.argv = x, !.dirty = y])
BY Zenon DEF IsServer, Same, Dirty, Propagate, Between, Fields

\* Such a step keeps what holds.
LEMMA SameGood ==
  ASSUME NEW s, NEW u, NEW X, Good(s, X), Same(s, u)
  PROVE  Good(u, X)
BY Zenon DEF Good, Same, IsServer, Registered, Awake, ReadyFlagged, Flagged

\* Such a step may precede or follow a part of an event.
LEMMA SamePart ==
  ASSUME NEW s, NEW t, NEW u, NEW X
  PROVE  /\ Part(s, t, X) /\ Same(t, u) => Part(s, u, X)
         /\ Part(t, u, X) /\ Same(s, t) => Part(s, u, X)
BY DEF Part, Same, Flags, Keeps

\* Parts of an event follow each other.
LEMMA PartTrans ==
  ASSUME NEW s, NEW t, NEW u, NEW X, Part(s, t, X), Part(t, u, X)
  PROVE  Part(s, u, X)
<1>1. Keeps(s, u)
  BY Zenon DEF Part, Keeps
<1>2. ASSUME NEW c \in Clients, u.clients[c].watched # {}
      PROVE  /\ u.clients[c].watched = s.clients[c].watched
             /\ s.clients[c].dirtyCas => u.clients[c].dirtyCas
             /\ \A k \in s.clients[c].watched \ X :
                  u.data[k] # s.data[k] => u.clients[c].dirtyCas
  BY <1>2 DEF Part, Flags
<1> QED BY Zenon, <1>1, <1>2 DEF Part, Flags

\* Nothing is a part of an event, and exceptions may be added.
LEMMA PartWeaker ==
  ASSUME NEW s, NEW t, NEW X, NEW Y
  PROVE  /\ Part(s, s, X)
         /\ Part(s, t, X) /\ X \subseteq Y => Part(s, t, Y)
BY Zenon DEF Part, Flags, Keeps

\* A key whose watchers are flagged needs no exception, and stays so.
LEMMA FlaggedKey ==
  ASSUME NEW s, NEW t, NEW X, NEW k, Flagged(s, k), Part(s, t, X)
  PROVE  Flagged(t, k) /\ Part(s, t, X \ {k})
BY Zenon DEF Part, Flags, Flagged

\* u differs from s in the value of k.
Moved(s, u, k) ==
  /\ DOMAIN u = Fields /\ DOMAIN u.data = Keys
  /\ \A j \in Keys \ {k} : u.data[j] = s.data[j]
  /\ u.clients = s.clients /\ u.blocking = s.blocking /\ u.ready = s.ready
  /\ u.waiting = s.waiting

\* A value changes, and a list appears nowhere.
LEMMA MovedGood ==
  ASSUME NEW s, NEW u, NEW k, NEW X, Good(s, X), Moved(s, u, k),
         IsList(u.data[k]) => IsList(s.data[k]) \/ k \in X
  PROVE  Good(u, X) /\ Part(s, u, {k})
<1>1. IsServer(u)
  BY Zenon DEF Good, Moved, IsServer
<1>2. Registered(u) /\ ReadyFlagged(u)
  BY Zenon DEF Good, Moved, Registered, ReadyFlagged, Flagged
<1>3. Awake(u, X)
  BY Zenon DEF Good, Moved, Awake
<1>4. Part(s, u, {k})
  BY Zenon DEF Good, IsServer, ClientShape, Moved, Part, Flags, Keeps
<1> QED BY Zenon, <1>1, <1>2, <1>3, <1>4 DEF Good

\* What touchWatchedKey does.
LEMMA TouchFacts ==
  ASSUME NEW s, IsServer(s), NEW k
  PROVE  LET u == Touch(s, k) IN
         /\ IsServer(u) /\ u.data = s.data /\ u.blocking = s.blocking /\ u.ready = s.ready
         /\ u.waiting = s.waiting /\ Flagged(u, k)
         /\ \A c \in Clients :
              /\ u.clients[c].state = s.clients[c].state /\ u.clients[c].cmd = s.clients[c].cmd
              /\ u.clients[c].multi = s.clients[c].multi
              /\ u.clients[c].queue = s.clients[c].queue
              /\ u.clients[c].watched = s.clients[c].watched
              /\ s.clients[c].dirtyCas => u.clients[c].dirtyCas
<1> DEFINE u == Touch(s, k)
           y(c) == IF k \in s.clients[c].watched THEN [s.clients[c] EXCEPT !.dirtyCas = TRUE]
                   ELSE s.clients[c]
<1>1. /\ DOMAIN u = Fields /\ u.data = s.data /\ u.blocking = s.blocking /\ u.ready = s.ready
      /\ u.waiting = s.waiting /\ u.clients = [c \in Clients |-> y(c)]
  BY Zenon DEF Touch, IsServer, Fields
<1>2. ASSUME NEW c \in Clients
      PROVE  /\ y(c) \in ClientShape
             /\ y(c).state = s.clients[c].state /\ y(c).cmd = s.clients[c].cmd
             /\ y(c).multi = s.clients[c].multi /\ y(c).queue = s.clients[c].queue
             /\ y(c).watched = s.clients[c].watched
             /\ s.clients[c].dirtyCas => y(c).dirtyCas
             /\ k \in y(c).watched => y(c).dirtyCas
  BY ZenonT(60) DEF IsServer, ClientShape
<1> HIDE DEF y
<1>3. u.clients \in [Clients -> ClientShape] /\ \A c \in Clients : u.clients[c] = y(c)
  BY <1>1, <1>2
<1> HIDE DEF u
<1>4. IsServer(u)
  BY <1>1, <1>2, <1>3 DEF IsServer, Blocker
<1>5. Flagged(u, k)
  BY Zenon, <1>2, <1>3 DEF Flagged
<1> QED BY <1>1, <1>2, <1>3, <1>4, <1>5 DEF u

\* Touching a key keeps what holds, and flags what changed of that key.
LEMMA TouchGood ==
  ASSUME NEW s, NEW k, NEW X, Good(s, X)
  PROVE  Good(Touch(s, k), X) /\ Part(s, Touch(s, k), X)
<1>1. PICK u : u = Touch(s, k)
  BY Zenon
<1>2. /\ IsServer(u) /\ u.data = s.data /\ u.blocking = s.blocking /\ u.ready = s.ready
      /\ u.waiting = s.waiting
      /\ \A c \in Clients :
           /\ u.clients[c].state = s.clients[c].state /\ u.clients[c].cmd = s.clients[c].cmd
           /\ u.clients[c].multi = s.clients[c].multi
           /\ u.clients[c].watched = s.clients[c].watched
           /\ s.clients[c].dirtyCas => u.clients[c].dirtyCas
  BY <1>1, TouchFacts DEF Good
<1>3. Registered(u)
  BY <1>2 DEF Good, Registered, BlockedOn
<1>4. Awake(u, X) /\ ReadyFlagged(u)
  BY Zenon, <1>2 DEF Good, Awake, ReadyFlagged, Flagged
<1>5. Part(s, u, X)
  BY Zenon, <1>2 DEF Part, Flags, Keeps
<1> QED BY Zenon, <1>1, <1>2, <1>3, <1>4, <1>5 DEF Good

\* signalModifiedKey settles the flags of its key.
LEMMA TouchPart ==
  ASSUME NEW s, NEW u, NEW k, NEW X, IsServer(u), Part(s, u, X)
  PROVE  Part(s, Touch(u, k), X \ {k})
<1>1. PICK v : v = Touch(u, k)
  BY Zenon
<1>2. /\ v.data = u.data /\ v.waiting = u.waiting /\ Flagged(v, k)
      /\ \A c \in Clients :
           /\ v.clients[c].state = u.clients[c].state /\ v.clients[c].cmd = u.clients[c].cmd
           /\ v.clients[c].multi = u.clients[c].multi
           /\ v.clients[c].watched = u.clients[c].watched
           /\ u.clients[c].dirtyCas => v.clients[c].dirtyCas
  BY <1>1, TouchFacts
<1>3. Keeps(s, v)
  BY ZenonT(60), <1>2 DEF Part, Keeps
<1>4. Flags(s, v, X \ {k})
  BY <1>2 DEF Part, Flags, Flagged
<1> QED BY Zenon, <1>1, <1>3, <1>4 DEF Part

\* signalKeyAsReady adds a key that is not ready yet.
LEMMA SignalFacts ==
  ASSUME NEW s, IsServer(s), IsInjective(s.ready), NEW k \in Keys
  PROVE  LET u == SignalKeyAsReady(s, k) IN
         /\ IsServer(u) /\ u.data = s.data /\ u.clients = s.clients /\ u.blocking = s.blocking
         /\ u.waiting = s.waiting /\ IsInjective(u.ready)
         /\ Range(s.ready) \subseteq Range(u.ready)
         /\ Range(u.ready) \subseteq Range(s.ready) \union {k}
         /\ s.blocking[k] # <<>> => k \in Range(u.ready)
         /\ Len(u.ready) <= Len(s.ready) + 1
<1> DEFINE u == SignalKeyAsReady(s, k)
<1>0. s.ready \in Seq(Keys) /\ Len(s.ready) \in Nat
  BY DEF IsServer
<1>1. CASE s.blocking[k] = <<>> \/ k \in Range(s.ready)
  BY <1>0, <1>1 DEF SignalKeyAsReady
<1>2. CASE ~(s.blocking[k] = <<>> \/ k \in Range(s.ready))
  <2>1. /\ DOMAIN u = Fields /\ u.data = s.data /\ u.clients = s.clients
        /\ u.blocking = s.blocking /\ u.waiting = s.waiting /\ u.ready = Append(s.ready, k)
    BY Zenon, <1>2 DEF SignalKeyAsReady, IsServer, Fields
  <2>2. /\ u.ready \in Seq(Keys) /\ Range(u.ready) = Range(s.ready) \union {k}
        /\ IsInjective(u.ready)
    BY <1>0, <1>2, <2>1, AppendFacts
  <2>3. Len(u.ready) = Len(s.ready) + 1
    BY <1>0, <2>1
  <2> HIDE DEF u
  <2>4. IsServer(u)
    BY Zenon, <2>1, <2>2 DEF IsServer
  <2> QED BY <1>0, <2>1, <2>2, <2>3, <2>4 DEF u
<1> QED BY Zenon, <1>1, <1>2

\* An element is pushed, the key becomes ready if the list is new, and the watchers
\* are flagged.
LEMMA PushGood ==
  ASSUME NEW s, NEW k \in Keys, NEW X, NEW list, Good(s, X),
         s.data[k] = NULL \/ k \in X \/ (s.blocking[k] # <<>> => k \in Range(s.ready))
  PROVE  LET u == Touch(Push(s, k, list), k) IN
         /\ Good(u, X) /\ Part(s, u, {}) /\ u.blocking = s.blocking
         /\ \A j \in Keys \ {k} : u.data[j] = s.data[j]
         /\ \A c \in Clients : /\ u.clients[c].state = s.clients[c].state
                               /\ u.clients[c].cmd = s.clients[c].cmd
         /\ Len(u.ready) <= Len(s.ready) + 1
<1> DEFINE t == [s EXCEPT !.data[k] = list]
<1>0. IsServer(s) /\ IsInjective(s.ready) /\ Len(s.ready) \in Nat
  BY DEF Good, IsServer, ReadyFlagged
<1>1. Moved(s, t, k)
  BY Zenon, <1>0 DEF Moved, IsServer, Fields
<1> HIDE DEF t
<1>2. IsServer(t)
  BY Zenon, <1>0, <1>1 DEF Moved, IsServer
<1>3. PICK v : v = Push(s, k, list)
  BY Zenon
<1>4. v = IF s.data[k] = NULL THEN SignalKeyAsReady(t, k) ELSE t
  BY Zenon, <1>3 DEF Push, t
<1>5. /\ IsServer(v) /\ v.data = t.data /\ v.clients = t.clients /\ v.blocking = t.blocking
      /\ v.waiting = t.waiting /\ IsInjective(v.ready)
      /\ Range(t.ready) \subseteq Range(v.ready)
      /\ Range(v.ready) \subseteq Range(t.ready) \union {k}
      /\ s.data[k] = NULL /\ t.blocking[k] # <<>> => k \in Range(v.ready)
      /\ Len(v.ready) <= Len(t.ready) + 1
  <2>1. t.ready = s.ready
    BY Zenon, <1>1 DEF Moved
  <2>2. CASE s.data[k] = NULL
    BY Zenon, <1>0, <1>2, <1>4, <2>1, <2>2, SignalFacts
  <2>3. CASE s.data[k] # NULL
    BY <1>0, <1>2, <1>4, <2>1, <2>3
  <2> QED BY Zenon, <2>2, <2>3
<1>6. PICK u : u = Touch(v, k)
  BY Zenon
<1>7. /\ IsServer(u) /\ u.data = v.data /\ u.blocking = v.blocking /\ u.ready = v.ready
      /\ u.waiting = v.waiting /\ Flagged(u, k)
      /\ \A c \in Clients :
           /\ u.clients[c].state = v.clients[c].state /\ u.clients[c].cmd = v.clients[c].cmd
           /\ u.clients[c].multi = v.clients[c].multi
           /\ u.clients[c].watched = v.clients[c].watched
           /\ v.clients[c].dirtyCas => u.clients[c].dirtyCas
  BY <1>5, <1>6, TouchFacts
<1>8. /\ u.blocking = s.blocking /\ Range(s.ready) \subseteq Range(u.ready)
      /\ u.waiting = s.waiting
      /\ Range(u.ready) \subseteq Range(s.ready) \union {k}
      /\ \A j \in Keys \ {k} : u.data[j] = s.data[j]
      /\ \A c \in Clients :
           /\ u.clients[c].state = s.clients[c].state /\ u.clients[c].cmd = s.clients[c].cmd
           /\ u.clients[c].multi = s.clients[c].multi
           /\ u.clients[c].watched = s.clients[c].watched
           /\ s.clients[c].dirtyCas => u.clients[c].dirtyCas
      /\ Len(u.ready) <= Len(s.ready) + 1
  BY <1>1, <1>5, <1>7 DEF Moved
<1>9. Registered(u)
  BY <1>8 DEF Good, Registered, BlockedOn
<1>10. Awake(u, X)
  <2>1. s.data[k] = NULL /\ s.blocking[k] # <<>> => k \in Range(u.ready)
    BY Zenon, <1>1, <1>5, <1>7 DEF Moved
  <2> QED BY Zenon, <1>8, <2>1 DEF Good, Awake
<1>11. ReadyFlagged(u)
  BY SMTT(30), <1>5, <1>7, <1>8 DEF Good, ReadyFlagged, Flagged
<1>12. Part(s, u, {})
  <2>1. IsServer(s) /\ \A c \in Clients : s.clients[c].watched \subseteq Keys
    BY Zenon, <1>0 DEF IsServer, ClientShape
  <2> QED BY <1>7, <1>8, <2>1 DEF Part, Flags, Keeps, Flagged
<1>13. Good(u, X)
  BY Zenon, <1>7, <1>9, <1>10, <1>11 DEF Good
<1> QED BY Zenon, <1>3, <1>6, <1>8, <1>12, <1>13

-----------------------------------------------------------------------------
(* Blocking. *)

\* blockForKeys: nobody blocks on a key that has a list.
LEMMA BlockGood ==
  ASSUME NEW s, NEW c \in Clients, NEW cmd \in CommandShape, NEW ks, Good(s, {}),
         cmd.op \in {"blpop", "brpoplpush"}, s.clients[c].state = "normal",
         ks = IF cmd.op = "blpop" THEN Range(cmd.keys) ELSE {cmd.keys[1]},
         \A k \in Keys \intersect ks : s.data[k] = NULL
  PROVE  LET u == Block(s, c, cmd, ks) IN Good(u, {}) /\ Part(s, u, {})
<1>1. PICK u : u = Block(s, c, cmd, ks)
  BY Zenon
<1>2. IsServer(s)
  BY Zenon DEF Good
<1> DEFINE x == [[s.clients[c] EXCEPT !.state = "blocked"] EXCEPT !.cmd = cmd]
<1>3. /\ DOMAIN u = Fields /\ u.data = s.data /\ u.ready = s.ready /\ u.waiting = s.waiting
      /\ u.blocking = [k \in Keys |-> IF k \in ks THEN Append(s.blocking[k], c)
                                      ELSE s.blocking[k]]
      /\ DOMAIN u.clients = Clients /\ u.clients[c] = x
      /\ \A d \in Clients \ {c} : u.clients[d] = s.clients[d]
  BY Zenon, <1>1, <1>2 DEF Block, IsServer, Fields
<1>4. /\ x \in ClientShape /\ x.state = "blocked" /\ x.cmd = cmd
      /\ x.multi = s.clients[c].multi /\ x.watched = s.clients[c].watched
      /\ x.dirtyCas = s.clients[c].dirtyCas
  <2>1. s.clients[c] \in ClientShape
    BY Zenon, <1>2 DEF IsServer
  <2> QED BY Zenon, <2>1 DEF ClientShape
<1> HIDE DEF x
<1>5. u.clients \in [Clients -> ClientShape]
  <2>1. ASSUME NEW d \in Clients PROVE u.clients[d] \in ClientShape
    <3>1. s.clients[d] \in ClientShape
      BY Zenon, <1>2 DEF IsServer
    <3> QED BY Zenon, <1>3, <1>4, <3>1
  <2>2. u.clients = [d \in Clients |-> u.clients[d]]
    BY Zenon, <1>1, <1>2 DEF Block, IsServer, Fields
  <2> QED BY Zenon, <2>1, <2>2
<1>6. ASSUME NEW k \in Keys
      PROVE  /\ u.blocking[k] \in Seq(Clients)
             /\ k \notin ks => u.blocking[k] = s.blocking[k]
             /\ k \in ks => Range(u.blocking[k]) = Range(s.blocking[k]) \union {c}
             /\ IsInjective(u.blocking[k])
  <2>1. s.blocking[k] \in Seq(Clients) /\ IsInjective(s.blocking[k])
    BY Zenon, <1>2 DEF IsServer, Good, Registered
  <2>2. c \notin Range(s.blocking[k])
    BY Zenon DEF Good, Registered, BlockedOn
  <2>3. CASE k \in ks
    <3>1. u.blocking[k] = Append(s.blocking[k], c)
      BY Zenon, <1>3, <2>3
    <3> QED BY <2>1, <2>2, <2>3, <3>1, AppendFacts
  <2>4. CASE k \notin ks
    BY Zenon, <1>3, <2>1, <2>4
  <2> QED BY Zenon, <2>3, <2>4
<1>7. u.blocking \in [Keys -> Seq(Clients)]
  BY Zenon, <1>3, <1>6
<1>8. IsServer(u)
  <2>1. \A d \in Clients : Blocker(u.clients[d])
    BY ZenonT(60), <1>2, <1>3, <1>4 DEF IsServer, Blocker
  <2> QED BY Zenon, <1>2, <1>3, <1>5, <1>7, <2>1 DEF IsServer
<1>9. BlockedOn(x) = ks /\ BlockedOn(s.clients[c]) = {}
  BY Zenon, <1>4 DEF BlockedOn
<1>10. Registered(u)
  <2> SUFFICES ASSUME NEW k \in Keys, NEW d \in Clients
               PROVE  d \in Range(u.blocking[k]) <=> k \in BlockedOn(u.clients[d])
    BY Zenon, <1>6 DEF Registered
  <2>1. d \in Range(s.blocking[k]) <=> k \in BlockedOn(s.clients[d])
    BY Zenon DEF Good, Registered
  <2>2. CASE d = c
    <3>1. u.clients[d] = x
      BY Zenon, <1>3, <2>2
    <3> QED BY Zenon, <1>6, <1>9, <2>1, <2>2, <3>1
  <2>3. CASE d # c
    <3>1. u.clients[d] = s.clients[d]
      BY Zenon, <1>3, <2>3
    <3> QED BY ZenonT(60), <1>6, <2>1, <2>3, <3>1
  <2> QED BY Zenon, <2>2, <2>3
<1>11. Awake(u, {})
  BY Zenon, <1>3, <1>6 DEF Good, Awake, IsList
<1>12. ReadyFlagged(u) /\ Part(s, u, {})
  <2>1. \A d \in Clients : /\ u.clients[d].watched = s.clients[d].watched
                           /\ u.clients[d].dirtyCas = s.clients[d].dirtyCas
                           /\ u.clients[d].multi = s.clients[d].multi
                           /\ u.clients[d].state = "backend" <=> s.clients[d].state = "backend"
    BY SMTT(30), <1>3, <1>4
  <2> QED BY ZenonT(60), <1>3, <2>1 DEF Good, ReadyFlagged, Flagged, Part, Flags, Keeps
<1> QED BY Zenon, <1>1, <1>8, <1>10, <1>11, <1>12 DEF Good

\* unblockClient: the client is in no list any more, and the others stay.
LEMMA UnblockGood ==
  ASSUME Counting, NEW s, NEW c \in Clients, NEW X, Good(s, X)
  PROVE  LET u == Unblock(s, c) IN
         /\ Good(u, X) /\ u.data = s.data /\ u.ready = s.ready /\ u.waiting = s.waiting
         /\ u.clients[c].state = "normal"
         /\ s.clients[c].state # "backend" => Part(s, u, {})
         /\ \A d \in Clients \ {c} : u.clients[d] = s.clients[d]
         /\ u.clients[c].watched = s.clients[c].watched
         /\ u.clients[c].dirtyCas = s.clients[c].dirtyCas
         /\ \A k \in Keys : Range(u.blocking[k]) = Range(s.blocking[k]) \ {c}
<1>1. PICK u : u = Unblock(s, c)
  BY Zenon
<1>2. IsServer(s)
  BY Zenon DEF Good
<1> DEFINE x == [[s.clients[c] EXCEPT !.state = "normal"] EXCEPT !.cmd = NULL]
<1>3. /\ DOMAIN u = Fields /\ u.data = s.data /\ u.ready = s.ready /\ u.waiting = s.waiting
      /\ u.blocking = [k \in Keys |-> Without(s.blocking[k], c)]
      /\ DOMAIN u.clients = Clients /\ u.clients[c] = x
      /\ \A d \in Clients \ {c} : u.clients[d] = s.clients[d]
  BY Zenon, <1>1, <1>2 DEF Unblock, IsServer, Fields
<1>4. /\ x \in ClientShape /\ x.state = "normal"
      /\ x.multi = s.clients[c].multi /\ x.watched = s.clients[c].watched
      /\ x.dirtyCas = s.clients[c].dirtyCas
  <2>1. s.clients[c] \in ClientShape
    BY Zenon, <1>2 DEF IsServer
  <2> QED BY Zenon, <2>1 DEF ClientShape
<1> HIDE DEF x
<1>5. u.clients \in [Clients -> ClientShape]
  <2>1. ASSUME NEW d \in Clients PROVE u.clients[d] \in ClientShape
    <3>1. s.clients[d] \in ClientShape
      BY Zenon, <1>2 DEF IsServer
    <3> QED BY Zenon, <1>3, <1>4, <3>1
  <2>2. u.clients = [d \in Clients |-> u.clients[d]]
    BY Zenon, <1>1, <1>2 DEF Unblock, IsServer, Fields
  <2> QED BY Zenon, <2>1, <2>2
<1>6. ASSUME NEW k \in Keys
      PROVE  /\ u.blocking[k] \in Seq(Clients)
             /\ Range(u.blocking[k]) = Range(s.blocking[k]) \ {c}
             /\ IsInjective(u.blocking[k])
             /\ u.blocking[k] # <<>> => s.blocking[k] # <<>>
  <2>1. s.blocking[k] \in Seq(Clients) /\ IsInjective(s.blocking[k])
    BY Zenon, <1>2 DEF IsServer, Good, Registered
  <2>2. u.blocking[k] = Without(s.blocking[k], c)
    BY Zenon, <1>3
  <2>3. /\ u.blocking[k] \in Seq(Clients) /\ IsInjective(u.blocking[k])
        /\ Range(u.blocking[k]) = Range(s.blocking[k]) \ {c}
    BY <2>1, <2>2, WithoutFacts
  <2>4. u.blocking[k] # <<>> => s.blocking[k] # <<>>
    BY <2>1, <2>3, RangeType
  <2> QED BY Zenon, <2>3, <2>4
<1>7. u.blocking \in [Keys -> Seq(Clients)]
  BY Zenon, <1>3, <1>6
<1>8. IsServer(u)
  <2>1. \A d \in Clients : Blocker(u.clients[d])
    BY ZenonT(60), <1>2, <1>3, <1>4 DEF IsServer, Blocker
  <2> QED BY Zenon, <1>2, <1>3, <1>5, <1>7, <2>1 DEF IsServer
<1>9. BlockedOn(x) = {}
  BY Zenon, <1>4 DEF BlockedOn
<1>10. Registered(u)
  <2> SUFFICES ASSUME NEW k \in Keys, NEW d \in Clients
               PROVE  d \in Range(u.blocking[k]) <=> k \in BlockedOn(u.clients[d])
    BY Zenon, <1>6 DEF Registered
  <2>1. d \in Range(s.blocking[k]) <=> k \in BlockedOn(s.clients[d])
    BY Zenon DEF Good, Registered
  <2>2. CASE d = c
    <3>1. u.clients[d] = x
      BY Zenon, <1>3, <2>2
    <3> QED BY Zenon, <1>6, <1>9, <2>1, <2>2, <3>1
  <2>3. CASE d # c
    <3>1. u.clients[d] = s.clients[d]
      BY Zenon, <1>3, <2>3
    <3> QED BY Zenon, <1>6, <2>1, <2>3, <3>1
  <2> QED BY Zenon, <2>2, <2>3
<1>11. Awake(u, X)
  BY Zenon, <1>3, <1>6 DEF Good, Awake
<1>12. \A d \in Clients : /\ u.clients[d].watched = s.clients[d].watched
                          /\ u.clients[d].dirtyCas = s.clients[d].dirtyCas
                          /\ u.clients[d].multi = s.clients[d].multi
  BY Zenon, <1>3, <1>4
<1>13. ReadyFlagged(u)
  BY Zenon, <1>3, <1>12 DEF Good, ReadyFlagged, Flagged
<1>14. s.clients[c].state # "backend" => Part(s, u, {})
  BY <1>3, <1>4, <1>12 DEF Part, Flags, Keeps
<1>15. Good(u, X)
  BY Zenon, <1>8, <1>10, <1>11, <1>13 DEF Good
<1> QED BY Zenon, <1>1, <1>3, <1>4, <1>6, <1>12, <1>14, <1>15

-----------------------------------------------------------------------------
(* The commands. *)

\* The keys of a command are keys.
LEMMA CommandFacts ==
  ASSUME NEW cmd \in CommandShape
  PROVE  /\ cmd.op \in Ops /\ cmd.keys \in Seq(Keys)
         /\ \A j \in DOMAIN cmd.keys : j \in Nat /\ cmd.keys[j] \in Keys
         /\ cmd.op \notin {"flushall", "unwatch"} => 1 \in DOMAIN cmd.keys /\ cmd.keys[1] \in Keys
         /\ cmd.op \in {"rpoplpush", "brpoplpush"} => cmd.keys[2] \in Keys
         /\ cmd.op \in {"set", "rpush"} => cmd.arg \in Texts
BY DEF CommandShape, HasArity

\* Nobody is blocked or unblocked.
Quiet(s, t) == \A c \in Clients : t.clients[c].state = s.clients[c].state

\* A value changes and its watchers are flagged; a list does not appear.
LEMMA ChangeGood ==
  ASSUME NEW s, NEW u, NEW k, Good(s, {}), Moved(s, u, k),
         IsList(u.data[k]) => IsList(s.data[k])
  PROVE  LET t == Touch(u, k) IN Good(t, {}) /\ Part(s, t, {}) /\ Quiet(s, t)
<1>1. Good(u, {}) /\ Part(s, u, {k})
  BY Zenon, MovedGood
<1>2. IsServer(u) /\ {k} \ {k} = {}
  BY Zenon, <1>1 DEF Good
<1>3. Good(Touch(u, k), {})
  BY Zenon, <1>1, TouchGood
<1>4. Part(s, Touch(u, k), {})
  <2>1. Part(s, Touch(u, k), {k} \ {k})
    BY Zenon, <1>1, <1>2, TouchPart
  <2> QED BY Zenon, <1>2, <2>1
<1>5. Quiet(s, Touch(u, k))
  <2>1. \A c \in Clients : Touch(u, k).clients[c].state = u.clients[c].state
    BY <1>2, TouchFacts
  <2>2. u.clients = s.clients
    BY Zenon DEF Moved
  <2> QED BY Zenon, <2>1, <2>2 DEF Quiet
<1> QED BY Zenon, <1>3, <1>4, <1>5

\* What follows Same after a command.
LEMMA SameExecutes ==
  ASSUME NEW s, NEW t, NEW u, NEW X, Good(t, X), Part(s, t, {}), Quiet(s, t), Same(t, u)
  PROVE  Good(u, X) /\ Part(s, u, {}) /\ Quiet(s, u)
<1>1. Good(u, X) /\ Part(s, u, {})
  BY Zenon, SameGood, SamePart
<1>2. Quiet(s, u)
  BY Zenon DEF Quiet, Same
<1> QED BY Zenon, <1>1, <1>2

\* setKey of a string, or of nothing.
LEMMA SetKeyGood ==
  ASSUME NEW s, NEW k \in Keys, NEW v, Good(s, {}), ~IsList(v)
  PROVE  LET t == SetKey(s, k, v) IN Good(t, {}) /\ Part(s, t, {}) /\ Quiet(s, t)
<1> DEFINE u == [s EXCEPT !.data[k] = v]
<1>1. IsServer(s)
  BY Zenon DEF Good
<1>2. Moved(s, u, k) /\ u.data[k] = v
  BY Zenon, <1>1 DEF Moved, IsServer, Fields
<1>3. SetKey(s, k, v) = Touch(u, k)
  BY Zenon DEF SetKey
<1> HIDE DEF u
<1> QED BY Zenon, <1>2, <1>3, ChangeGood

\* SET.
LEMMA SetGood ==
  ASSUME NEW s, NEW cmd \in CommandShape, Good(s, {}), cmd.op = "set"
  PROVE  LET t == SetCommand(s, cmd) IN Good(t, {}) /\ Part(s, t, {}) /\ Quiet(s, t)
<1>1. PICK t : t = SetKey(s, cmd.keys[1], cmd.arg)
  BY Zenon
<1>2. Good(t, {}) /\ Part(s, t, {}) /\ Quiet(s, t)
  BY Zenon, <1>1, CommandFacts, SetKeyGood DEF IsList, IsString
<1>3. Same(t, Dirty(t))
  BY Zenon, <1>2, SameFacts DEF Good
<1>4. SetCommand(s, cmd) = Dirty(t)
  BY Zenon, <1>1 DEF SetCommand
<1> QED BY Zenon, <1>2, <1>3, <1>4, SameExecutes

\* DEL.
LEMMA DelGood ==
  ASSUME NEW s, NEW cmd \in CommandShape, Good(s, {}), cmd.op = "del"
  PROVE  LET t == DelCommand(s, cmd) IN Good(t, {}) /\ Part(s, t, {}) /\ Quiet(s, t)
<1>0. PICK k : k = cmd.keys[1]
  BY Zenon
<1>1. CASE s.data[k] = NULL
  BY Zenon, <1>0, <1>1, PartWeaker DEF DelCommand, Quiet
<1>2. CASE s.data[k] # NULL
  <2>1. PICK t : t = SetKey(s, k, NULL)
    BY Zenon
  <2>2. Good(t, {}) /\ Part(s, t, {}) /\ Quiet(s, t)
    BY Zenon, <1>0, <2>1, CommandFacts, SetKeyGood DEF IsList
  <2>3. Same(t, Dirty(t))
    BY Zenon, <2>2, SameFacts DEF Good
  <2>4. DelCommand(s, cmd) = Dirty(t)
    BY Zenon, <1>0, <1>2, <2>1 DEF DelCommand, SetKey
  <2> QED BY Zenon, <2>2, <2>3, <2>4, SameExecutes
<1> QED BY Zenon, <1>1, <1>2

\* RPUSH.
LEMMA RpushGood ==
  ASSUME NEW s, NEW cmd \in CommandShape, Good(s, {}), cmd.op = "rpush"
  PROVE  LET t == RpushCommand(s, cmd) IN Good(t, {}) /\ Part(s, t, {}) /\ Quiet(s, t)
<1>0. PICK k : k = cmd.keys[1]
  BY Zenon
<1>1. CASE IsString(s.data[k])
  BY Zenon, <1>0, <1>1, PartWeaker DEF RpushCommand, Quiet
<1>2. CASE ~IsString(s.data[k])
  <2>1. PICK list : list = IF s.data[k] = NULL THEN <<cmd.arg>> ELSE Append(s.data[k], cmd.arg)
    BY Zenon
  <2>2. PICK t : t = Touch(Push(s, k, list), k)
    BY Zenon
  <2>3. k \in Keys
    BY Zenon, <1>0, CommandFacts
  <2>4. s.data[k] = NULL \/ (s.blocking[k] # <<>> => k \in Range(s.ready))
    BY Zenon, <1>2, <2>3 DEF Good, Awake, IsList
  <2>5. Good(t, {}) /\ Part(s, t, {}) /\ Quiet(s, t)
    BY <2>2, <2>3, <2>4, PushGood DEF Quiet
  <2>6. Same(t, Dirty(t))
    BY Zenon, <2>5, SameFacts DEF Good
  <2>7. RpushCommand(s, cmd) = Dirty(t)
    BY Zenon, <1>0, <1>2, <2>1, <2>2 DEF RpushCommand
  <2> QED BY Zenon, <2>5, <2>6, <2>7, SameExecutes
<1> QED BY Zenon, <1>1, <1>2

\* The key of an empty list is deleted.
LEMMA DeleteEmptyFacts ==
  ASSUME NEW s, NEW k \in Keys, IsServer(s)
  PROVE  LET u == DeleteEmpty(s, k) IN
         Moved(s, u, k) /\ (u.data[k] = NULL \/ (u.data[k] = s.data[k] /\ s.data[k] # <<>>))
<1>1. CASE s.data[k] = <<>>
  BY Zenon, <1>1 DEF DeleteEmpty, Moved, IsServer, Fields
<1>2. CASE s.data[k] # <<>>
  BY Zenon, <1>2 DEF DeleteEmpty, Moved, IsServer
<1> QED BY Zenon, <1>1, <1>2

\* LPOP.
LEMMA LpopGood ==
  ASSUME NEW s, NEW cmd, cmd.keys[1] \in Keys, Good(s, {})
  PROVE  LET t == LpopCommand(s, cmd) IN Good(t, {}) /\ Part(s, t, {}) /\ Quiet(s, t)
<1>0. PICK k \in Keys : k = cmd.keys[1]
  BY Zenon
<1>1. CASE ~IsList(s.data[k])
  BY Zenon, <1>0, <1>1, PartWeaker DEF LpopCommand, Quiet
<1>2. CASE IsList(s.data[k])
  <2>0. IsServer(s)
    BY Zenon DEF Good
  <2>1. PICK u : u = [s EXCEPT !.data[k] = Tail(@)]
    BY Zenon
  <2>2. Moved(s, u, k)
    BY Zenon, <2>0, <2>1 DEF Moved, IsServer, Fields
  <2>3. IsServer(u)
    BY Zenon, <2>0, <2>2 DEF Moved, IsServer
  <2>4. PICK v : v = DeleteEmpty(u, k)
    BY Zenon
  <2>5. Moved(u, v, k)
    BY Zenon, <2>3, <2>4, DeleteEmptyFacts
  <2>6. Moved(s, v, k)
    BY Zenon, <2>2, <2>5 DEF Moved
  <2>7. PICK t : t = Touch(v, k)
    BY Zenon
  <2>8. Good(t, {}) /\ Part(s, t, {}) /\ Quiet(s, t)
    BY Zenon, <1>2, <2>6, <2>7, ChangeGood
  <2>9. Same(t, Dirty(t))
    BY Zenon, <2>8, SameFacts DEF Good
  <2>10. LpopCommand(s, cmd) = Dirty(t)
    BY Zenon, <1>0, <1>2, <2>1, <2>4, <2>7 DEF LpopCommand
  <2> QED BY Zenon, <2>8, <2>9, <2>10, SameExecutes
<1> QED BY Zenon, <1>1, <1>2

\* RPOPLPUSH.
LEMMA RpoplpushGood ==
  ASSUME NEW s, NEW cmd \in CommandShape, Good(s, {}), cmd.op \in {"rpoplpush", "brpoplpush"}
  PROVE  LET t == RpoplpushCommand(s, cmd) IN Good(t, {}) /\ Part(s, t, {}) /\ Quiet(s, t)
<1>0. PICK src \in Keys, dst \in Keys : src = cmd.keys[1] /\ dst = cmd.keys[2]
  BY Zenon, CommandFacts
<1>1. CASE ~IsList(s.data[src]) \/ IsString(s.data[dst])
  BY Zenon, <1>0, <1>1, PartWeaker DEF RpoplpushCommand, Quiet
<1>2. CASE ~(~IsList(s.data[src]) \/ IsString(s.data[dst]))
  <2>0. IsServer(s)
    BY Zenon DEF Good
  <2>1. PICK p : p = [s EXCEPT !.data[src] = Front(@)]
    BY Zenon
  <2>2. Moved(s, p, src)
    BY Zenon, <2>0, <2>1 DEF Moved, IsServer, Fields
  <2>3. Good(p, {}) /\ Part(s, p, {src})
    BY Zenon, <1>2, <2>2, MovedGood
  <2>4. PICK e, list : /\ e = Last(s.data[src])
                       /\ list = IF p.data[dst] = NULL THEN <<e>> ELSE <<e>> \o p.data[dst]
    BY Zenon
  <2>5. PICK h : h = Touch(Push(p, dst, list), dst)
    BY Zenon
  <2>6. p.data[dst] = NULL \/ (p.blocking[dst] # <<>> => dst \in Range(p.ready))
    <3>1. p.blocking = s.blocking /\ p.ready = s.ready
      BY Zenon, <2>2 DEF Moved
    <3>2. CASE dst = src
      BY Zenon, <1>2, <3>1, <3>2 DEF Good, Awake
    <3>3. CASE dst # src
      <4>1. p.data[dst] = s.data[dst]
        BY Zenon, <2>2, <3>3 DEF Moved
      <4> QED BY Zenon, <1>2, <3>1, <4>1 DEF Good, Awake, IsList
    <3> QED BY Zenon, <3>2, <3>3
  <2>7. Good(h, {}) /\ Part(p, h, {}) /\ Quiet(p, h)
    BY <2>3, <2>5, <2>6, PushGood DEF Quiet
  <2>8. Part(s, h, {src})
    BY <2>3, <2>7, PartWeaker, PartTrans
  <2>9. PICK d : d = DeleteEmpty(h, src)
    BY Zenon
  <2>10. Moved(h, d, src) /\ (d.data[src] = NULL \/ d.data[src] = h.data[src])
    BY Zenon, <2>7, <2>9, DeleteEmptyFacts DEF Good
  <2>11. Good(d, {}) /\ Part(h, d, {src})
    BY Zenon, <2>7, <2>10, MovedGood DEF IsList
  <2>12. Part(s, d, {src})
    BY Zenon, <2>8, <2>11, PartTrans
  <2>13. PICK t : t = Touch(d, src)
    BY Zenon
  <2>14. Good(t, {})
    BY Zenon, <2>11, <2>13, TouchGood
  <2>15. Part(s, t, {})
    <3>1. Part(s, t, {src} \ {src})
      BY Zenon, <2>11, <2>12, <2>13, TouchPart DEF Good
    <3>2. {src} \ {src} = {}
      BY Zenon
    <3> QED BY Zenon, <3>1, <3>2
  <2>16. Quiet(s, t)
    <3>1. Quiet(d, t)
      BY <2>11, <2>13, TouchFacts DEF Good, Quiet
    <3> QED BY <2>2, <2>7, <2>10, <3>1 DEF Quiet, Moved
  <2>17. PICK u, v, argv : u = Dirty(t) /\ v = [u EXCEPT !.argv = argv]
                           /\ argv = Cmd("rpoplpush", cmd.keys, NULL)
    BY Zenon
  <2>18. Good(u, {}) /\ Part(s, u, {}) /\ Quiet(s, u)
    <3>1. Same(t, u)
      BY Zenon, <2>14, <2>17, SameFacts DEF Good
    <3> QED BY Zenon, <2>14, <2>15, <2>16, <3>1, SameExecutes
  <2>19. Good(v, {}) /\ Part(s, v, {}) /\ Quiet(s, v)
    <3>1. Same(u, v)
      BY Zenon, <2>17, <2>18, SameFacts DEF Good
    <3> QED BY Zenon, <2>18, <3>1, SameExecutes
  <2>20. RpoplpushCommand(s, cmd) = v
    <3>1. HandlePush(p, dst, e) = h
      BY Zenon, <2>4, <2>5 DEF HandlePush
    <3>2. v = [Dirty(Touch(DeleteEmpty(HandlePush(p, dst, e), src), src))
                 EXCEPT !.argv = Cmd("rpoplpush", cmd.keys, NULL)]
      BY Zenon, <2>9, <2>13, <2>17, <3>1
    <3>3. p = [s EXCEPT !.data[cmd.keys[1]] = Front(@)] /\ e = Last(s.data[cmd.keys[1]])
      BY Zenon, <1>0, <2>1, <2>4
    <3> QED BY Zenon, <1>0, <1>2, <3>2, <3>3 DEF RpoplpushCommand
  <2> QED BY Zenon, <2>19, <2>20
<1> QED BY Zenon, <1>1, <1>2

\* A command outside of a transaction may block its client; inside it does not.
Executes(s, t, c) ==
  /\ Good(t, {}) /\ Part(s, t, {})
  /\ s.clients[c].multi => t.clients[c].state = "normal"

\* BLPOP: it pops from its first list, or its client is registered for all its keys.
LEMMA BlpopGood ==
  ASSUME Counting, NEW s, NEW c \in Clients, NEW cmd \in CommandShape, Good(s, {}), cmd.op = "blpop",
         s.clients[c].state = "normal"
  PROVE  Executes(s, BlpopCommand(s, c, cmd), c)
<1>0. PICK there : there = {j \in DOMAIN cmd.keys : s.data[cmd.keys[j]] # NULL}
  BY Zenon
<1>1. PICK j : j = CHOOSE l \in there : \A i \in there : l <= i
  BY Zenon
<1>2. PICK k, lpop : k = cmd.keys[j] /\ lpop = Cmd("lpop", <<k>>, NULL)
  BY Zenon
<1>3. BlpopCommand(s, c, cmd) =
        IF there # {}
        THEN IF IsString(s.data[k]) THEN s ELSE [LpopCommand(s, lpop) EXCEPT !.argv = lpop]
        ELSE IF s.clients[c].multi THEN s
        ELSE Block(s, c, cmd, Range(cmd.keys))
  BY <1>0, <1>1, <1>2 DEF BlpopCommand
<1>4. Executes(s, s, c)
  BY Zenon, PartWeaker DEF Executes
<1>5. CASE there # {}
  <2>1. j \in there
    <3>1. there \in SUBSET Nat
      BY Zenon, <1>0, CommandFacts
    <3>2. \E x \in there : \A y \in there : x <= y
      BY Zenon, <1>5, <3>1, Least
    <3> QED BY Zenon, <1>1, <3>2
  <2>2. k \in Keys
    BY Zenon, <1>0, <1>2, <2>1, CommandFacts
  <2>3. PICK t : t = LpopCommand(s, lpop)
    BY Zenon
  <2>4. lpop.keys[1] = k
    BY Zenon, <1>2 DEF Cmd
  <2>5. Good(t, {}) /\ Part(s, t, {}) /\ Quiet(s, t)
    BY Zenon, <2>2, <2>3, <2>4, LpopGood
  <2>6. PICK u : u = [t EXCEPT !.argv = lpop]
    BY Zenon
  <2>7. Good(u, {}) /\ Part(s, u, {}) /\ Quiet(s, u)
    <3>1. Same(t, u)
      BY Zenon, <2>5, <2>6, SameFacts DEF Good
    <3> QED BY Zenon, <2>5, <3>1, SameExecutes
  <2>8. Executes(s, u, c)
    BY Zenon, <2>7 DEF Executes, Quiet
  <2> QED BY Zenon, <1>3, <1>4, <1>5, <2>3, <2>6, <2>8
<1>6. CASE there = {} /\ ~s.clients[c].multi
  <2>1. \A k2 \in Keys \intersect Range(cmd.keys) : s.data[k2] = NULL
    BY Zenon, <1>0, <1>6 DEF Range
  <2>2. PICK u : u = Block(s, c, cmd, Range(cmd.keys))
    BY Zenon
  <2>3. Good(u, {}) /\ Part(s, u, {})
    BY Zenon, <2>1, <2>2, BlockGood
  <2> QED BY Zenon, <1>3, <1>6, <2>2, <2>3 DEF Executes
<1> QED BY Zenon, <1>3, <1>4, <1>5, <1>6

\* BRPOPLPUSH: it moves an element, or its client is registered for the source.
LEMMA BrpoplpushGood ==
  ASSUME NEW s, NEW c \in Clients, NEW cmd \in CommandShape, Good(s, {}),
         cmd.op = "brpoplpush", s.clients[c].state = "normal"
  PROVE  Executes(s, BrpoplpushCommand(s, c, cmd), c)
<1>1. CASE s.data[cmd.keys[1]] # NULL
  BY Zenon, <1>1, RpoplpushGood DEF BrpoplpushCommand, Executes, Quiet
<1>2. CASE s.data[cmd.keys[1]] = NULL /\ s.clients[c].multi
  BY Zenon, <1>2, PartWeaker DEF BrpoplpushCommand, Executes
<1>3. CASE s.data[cmd.keys[1]] = NULL /\ ~s.clients[c].multi
  <2>1. PICK u : u = Block(s, c, cmd, {cmd.keys[1]})
    BY Zenon
  <2>2. Good(u, {}) /\ Part(s, u, {})
    BY Zenon, <1>3, <2>1, BlockGood
  <2> QED BY Zenon, <1>3, <2>1, <2>2 DEF BrpoplpushCommand, Executes
<1> QED BY Zenon, <1>1, <1>2, <1>3

\* FLUSHALL flags who watches a key that was there.
LEMMA FlushallGood ==
  ASSUME NEW s, Good(s, {})
  PROVE  LET t == FlushallCommand(s) IN Good(t, {}) /\ Part(s, t, {}) /\ Quiet(s, t)
<1> DEFINE y(c) == IF \E k \in s.clients[c].watched : s.data[k] # NULL
                   THEN [s.clients[c] EXCEPT !.dirtyCas = TRUE] ELSE s.clients[c]
<1>0. IsServer(s)
  BY Zenon DEF Good
<1>1. PICK t : t = [TouchOnFlush(s) EXCEPT !.data = [k \in Keys |-> NULL]]
  BY Zenon
<1>2. /\ DOMAIN t = Fields /\ t.data = [k \in Keys |-> NULL] /\ t.blocking = s.blocking
      /\ t.ready = s.ready /\ t.waiting = s.waiting /\ t.clients = [c \in Clients |-> y(c)]
  BY Zenon, <1>0, <1>1 DEF TouchOnFlush, IsServer, Fields
<1>3. ASSUME NEW c \in Clients
      PROVE  /\ y(c) \in ClientShape
             /\ y(c).state = s.clients[c].state /\ y(c).cmd = s.clients[c].cmd
             /\ y(c).multi = s.clients[c].multi /\ y(c).watched = s.clients[c].watched
             /\ s.clients[c].dirtyCas => y(c).dirtyCas
             /\ \A k \in s.clients[c].watched : s.data[k] # NULL => y(c).dirtyCas
  <2>1. s.clients[c] \in ClientShape
    BY Zenon, <1>0 DEF IsServer
  <2> QED BY Zenon, <2>1 DEF ClientShape
<1> HIDE DEF y
<1>4. t.clients \in [Clients -> ClientShape] /\ \A c \in Clients : t.clients[c] = y(c)
  BY ZenonT(60), <1>2, <1>3
<1>5. IsServer(t)
  BY SMTT(30), <1>0, <1>2, <1>3, <1>4 DEF IsServer, Blocker
<1>6. Registered(t)
  BY SMTT(30), <1>2, <1>3, <1>4 DEF Good, Registered, BlockedOn
<1>7. Awake(t, {}) /\ ReadyFlagged(t)
  BY ZenonT(60), <1>2, <1>3, <1>4 DEF Good, Awake, ReadyFlagged, Flagged, IsList
<1>8. Part(s, t, {})
  <2>1. ASSUME NEW c \in Clients, NEW k \in s.clients[c].watched, t.data[k] # s.data[k]
        PROVE  t.clients[c].dirtyCas
    <3>1. k \in Keys
      BY Zenon, <1>0 DEF IsServer, ClientShape
    <3>2. s.data[k] # NULL
      BY Zenon, <1>2, <2>1, <3>1
    <3> QED BY Zenon, <1>3, <1>4, <3>2
  <2> QED BY <1>2, <1>3, <1>4, <2>1 DEF Part, Flags, Keeps
<1>9. Good(t, {}) /\ Quiet(s, t)
  BY Zenon, <1>3, <1>4, <1>5, <1>6, <1>7 DEF Good, Quiet
<1>10. Same(t, Dirty(t)) /\ FlushallCommand(s) = Dirty(t)
  BY Zenon, <1>1, <1>5, SameFacts DEF FlushallCommand
<1> QED BY Zenon, <1>8, <1>9, <1>10, SameExecutes

\* A client stops watching.
LEMMA UnwatchGood ==
  ASSUME NEW s, NEW c \in Clients, NEW X, Good(s, X)
  PROVE  LET t == UnwatchCommand(s, c) IN Good(t, X) /\ Part(s, t, {}) /\ Quiet(s, t)
<1>0. IsServer(s)
  BY Zenon DEF Good
<1> DEFINE x == [[s.clients[c] EXCEPT !.watched = {}] EXCEPT !.dirtyCas = FALSE]
<1>1. PICK t : t = UnwatchCommand(s, c)
  BY Zenon
<1>3. /\ DOMAIN t = Fields /\ t.data = s.data /\ t.blocking = s.blocking
      /\ t.ready = s.ready /\ t.waiting = s.waiting
      /\ t.clients[c] = x /\ \A d \in Clients \ {c} : t.clients[d] = s.clients[d]
      /\ t.clients = [d \in Clients |-> t.clients[d]]
  BY Zenon, <1>0, <1>1 DEF UnwatchCommand, IsServer, Fields
<1>4. /\ x \in ClientShape /\ x.state = s.clients[c].state /\ x.cmd = s.clients[c].cmd
      /\ x.multi = s.clients[c].multi /\ x.watched = {}
  <2>1. s.clients[c] \in ClientShape
    BY Zenon, <1>0 DEF IsServer
  <2> QED BY Zenon, <2>1 DEF ClientShape
<1> HIDE DEF x
<1>5. \A d \in Clients :
        /\ t.clients[d] \in ClientShape
        /\ t.clients[d].state = s.clients[d].state /\ t.clients[d].cmd = s.clients[d].cmd
        /\ t.clients[d].multi = s.clients[d].multi
        /\ t.clients[d].watched = {} \/ t.clients[d] = s.clients[d]
  <2> TAKE d \in Clients
  <2>1. s.clients[d] \in ClientShape
    BY Zenon, <1>0 DEF IsServer
  <2>2. CASE d = c
    BY Zenon, <1>3, <1>4, <2>2
  <2>3. CASE d # c
    BY Zenon, <1>3, <2>1, <2>3
  <2> QED BY Zenon, <2>2, <2>3
<1>6. t.clients \in [Clients -> ClientShape]
  BY Zenon, <1>3, <1>5
<1>7. IsServer(t)
  BY ZenonT(60), <1>0, <1>3, <1>5, <1>6 DEF IsServer, Blocker
<1>8. Registered(t)
  BY SMTT(30), <1>3, <1>5 DEF Good, Registered, BlockedOn
<1>9. Awake(t, X) /\ ReadyFlagged(t)
  BY ZenonT(60), <1>3, <1>5 DEF Good, Awake, ReadyFlagged, Flagged
<1>10. Part(s, t, {}) /\ Quiet(s, t)
  BY Zenon, <1>3, <1>5 DEF Part, Flags, Keeps, Quiet
<1> QED BY Zenon, <1>1, <1>7, <1>8, <1>9, <1>10 DEF Good

\* Every command.
LEMMA ProcGood ==
  ASSUME Counting, NEW s, NEW c \in Clients, NEW cmd \in CommandShape, Good(s, {}),
         s.clients[c].state = "normal"
  PROVE  Executes(s, Proc(s, c, cmd), c)
<1>1. \A t : Good(t, {}) /\ Part(s, t, {}) /\ Quiet(s, t) => Executes(s, t, c)
  BY Zenon DEF Executes, Quiet
<1>2. CASE cmd.op = "set"
  BY Zenon, <1>1, <1>2, SetGood DEF Proc
<1>3. CASE cmd.op = "get"
  <2>1. Executes(s, s, c)
    BY Zenon, PartWeaker DEF Executes
  <2> QED BY Zenon, <1>3, <2>1 DEF Proc
<1>4. CASE cmd.op = "del"
  BY Zenon, <1>1, <1>4, DelGood DEF Proc
<1>5. CASE cmd.op = "rpush"
  BY Zenon, <1>1, <1>5, RpushGood DEF Proc
<1>6. CASE cmd.op = "lpop"
  <2>1. cmd.keys[1] \in Keys
    BY Zenon, <1>6, CommandFacts
  <2> QED BY Zenon, <1>1, <1>6, <2>1, LpopGood DEF Proc
<1>7. CASE cmd.op = "blpop"
  BY Zenon, <1>7, BlpopGood DEF Proc
<1>8. CASE cmd.op = "rpoplpush"
  BY Zenon, <1>1, <1>8, RpoplpushGood DEF Proc
<1>9. CASE cmd.op = "brpoplpush"
  BY Zenon, <1>9, BrpoplpushGood DEF Proc
<1>10. CASE cmd.op = "flushall"
  BY Zenon, <1>1, <1>10, FlushallGood DEF Proc
<1>11. CASE cmd.op = "unwatch"
  BY Zenon, <1>1, <1>11, UnwatchGood DEF Proc
<1>12. cmd.op \in Ops
  BY Zenon, CommandFacts
<1> QED BY Zenon, <1>2, <1>3, <1>4, <1>5, <1>6, <1>7, <1>8, <1>9, <1>10, <1>11, <1>12 DEF Ops

\* call(): the command, and its propagation.
LEMMA CallGood ==
  ASSUME Counting, NEW s, NEW c \in Clients, NEW cmd \in CommandShape, Good(s, {}),
         s.clients[c].state = "normal"
  PROVE  Executes(s, Call(s, c, cmd), c)
<1>1. PICK r : r = [s EXCEPT !.argv = cmd, !.dirty = FALSE]
  BY Zenon
<1>2. Same(s, r)
  BY Zenon, <1>1, SameFacts DEF Good
<1>3. Good(r, {}) /\ r.clients[c] = s.clients[c]
  BY Zenon, <1>2, SameGood DEF Same
<1>4. PICK t : t = Proc(r, c, cmd)
  BY Zenon
<1>5. Executes(r, t, c)
  BY Zenon, <1>3, <1>4, ProcGood
<1>6. PICK u : u = IF t.dirty THEN Propagate(t, t.argv) ELSE t
  BY Zenon
<1>7. Same(t, u)
  BY Zenon, <1>5, <1>6, SameFacts DEF Executes, Good
<1>8. PICK v : v = [u EXCEPT !.argv = NULL, !.dirty = FALSE]
  BY Zenon
<1>9. Good(u, {})
  BY Zenon, <1>5, <1>7, SameGood DEF Executes
<1>10. Same(u, v)
  BY Zenon, <1>8, <1>9, SameFacts DEF Good
<1>11. Good(v, {}) /\ Part(s, v, {})
  <2>1. Part(s, t, {})
    BY Zenon, <1>2, <1>5, SamePart DEF Executes
  <2> QED BY Zenon, <1>7, <1>9, <1>10, <2>1, SamePart, SameGood
<1>12. v.clients[c] = t.clients[c]
  BY Zenon, <1>7, <1>10 DEF Same
<1>13. Call(s, c, cmd) = v
  BY Zenon, <1>1, <1>4, <1>6, <1>8 DEF Call
<1> QED BY Zenon, <1>3, <1>5, <1>11, <1>12, <1>13 DEF Executes

-----------------------------------------------------------------------------
(* The order in which clients are served. *)

\* Nobody blocks or is served between s and t.
Still(s, t) == DOMAIN t = Fields /\ t.blocking = s.blocking /\ t.served = s.served

\* Between s and t clients only leave the list of k, and of those that were in front of
\* one that was served none is left.
Ordered(s, t, k) ==
  /\ Follows(s.blocking[k], t.blocking[k])
  /\ Range(t.blocking[k]) \subseteq Range(s.blocking[k])
  /\ \A d \in Clients : <<d, k>> \in Range(t.served) /\ <<d, k>> \notin Range(s.served) =>
       /\ d \in Range(s.blocking[k])
       /\ \A i, j \in DOMAIN s.blocking[k] :
            i < j /\ s.blocking[k][j] = d => s.blocking[k][i] \notin Range(t.blocking[k])

\* The same of every key.
Order(s, t) ==
  s.served \in Seq(Clients \X Keys) =>
    t.served \in Seq(Clients \X Keys) /\ \A k \in Keys : Ordered(s, t, k)

\* Steps that leave the lists alone.
LEMMA StillOrder ==
  ASSUME NEW s, NEW t, NEW u
  PROVE  /\ Order(s, s)
         /\ Order(s, t) /\ Still(t, u) => Order(s, u)
         /\ Still(s, t) /\ Order(t, u) => Order(s, u)
<1>1. \A k \in Keys : Ordered(s, s, k)
  BY Zenon DEF Ordered, Follows
<1>2. ASSUME Order(s, t), Still(t, u) PROVE Order(s, u)
  BY Zenon, <1>2 DEF Order, Ordered, Still
<1>3. ASSUME Still(s, t), Order(t, u) PROVE Order(s, u)
  BY ZenonT(60), <1>3 DEF Order, Ordered, Still
<1> QED BY Zenon, <1>1, <1>2, <1>3 DEF Order

\* The steps of which commands are made leave the lists of blocked clients alone.
LEMMA StillFacts ==
  ASSUME NEW s, DOMAIN s = Fields, NEW k, NEW x, NEW y
  PROVE  /\ Still(s, s) /\ Still(s, [s EXCEPT !.data = x]) /\ Still(s, [s EXCEPT !.data[k] = x])
         /\ Still(s, Touch(s, k)) /\ Still(s, TouchOnFlush(s)) /\ Still(s, SignalKeyAsReady(s, k))
         /\ Still(s, DeleteEmpty(s, k)) /\ Still(s, Dirty(s)) /\ Still(s, Between(s))
         /\ Still(s, Propagate(s, x)) /\ Still(s, [s EXCEPT !.argv = x])
         /\ Still(s, [s EXCEPT !.argv = x, !.dirty = y]) /\ Still(s, UnwatchCommand(s, k))
<1>1. /\ Still(s, s) /\ Still(s, [s EXCEPT !.data = x]) /\ Still(s, [s EXCEPT !.data[k] = x])
      /\ Still(s, [s EXCEPT !.argv = x])
  BY Zenon DEF Still, Fields
<1>2. Still(s, Touch(s, k)) /\ Still(s, TouchOnFlush(s))
  BY Zenon DEF Still, Fields, Touch, TouchOnFlush
<1>3. Still(s, SignalKeyAsReady(s, k)) /\ Still(s, DeleteEmpty(s, k)) /\ Still(s, Dirty(s))
  BY Zenon DEF Still, Fields, SignalKeyAsReady, DeleteEmpty, Dirty
<1>4. Still(s, Between(s)) /\ Still(s, Propagate(s, x))
  BY Zenon DEF Still, Fields, Between, Propagate
<1>5. Still(s, [s EXCEPT !.argv = x, !.dirty = y]) /\ Still(s, UnwatchCommand(s, k))
  BY Zenon DEF Still, Fields, UnwatchCommand
<1> QED BY Zenon, <1>1, <1>2, <1>3, <1>4, <1>5

\* Such steps follow each other.
LEMMA StillTrans ==
  ASSUME NEW s, NEW t, NEW u, Still(s, t), Still(t, u)
  PROVE  Still(s, u)
BY Zenon DEF Still

\* A push.
LEMMA PushStill ==
  ASSUME NEW s, DOMAIN s = Fields, NEW k, NEW list
  PROVE  Still(s, Touch(Push(s, k, list), k))
<1>1. PICK t : t = [s EXCEPT !.data[k] = list]
  BY Zenon
<1>2. Still(s, t) /\ DOMAIN t = Fields
  BY ZenonT(60), <1>1, StillFacts DEF Still
<1>3. PICK u : u = IF s.data[k] = NULL THEN SignalKeyAsReady(t, k) ELSE t
  BY Zenon
<1>4. Still(t, u) /\ DOMAIN u = Fields
  BY <1>2, <1>3, StillFacts DEF Still
<1>5. Still(u, Touch(u, k))
  BY Zenon, <1>4, StillFacts
<1>6. Push(s, k, list) = u
  BY Zenon, <1>1, <1>3 DEF Push
<1> QED BY Zenon, <1>2, <1>4, <1>5, <1>6, StillTrans

\* What keeps the order of a list that keeps the order of another.
LEMMA FollowsTrans ==
  ASSUME NEW s, NEW t, NEW u, Follows(s, t), Follows(t, u)
  PROVE  Follows(s, u)
<1> SUFFICES ASSUME NEW i \in DOMAIN u, NEW j \in DOMAIN u, i < j
             PROVE  \E p, q \in DOMAIN s : p < q /\ s[p] = u[i] /\ s[q] = u[j]
  BY Zenon DEF Follows
<1>1. PICK a \in DOMAIN t, b \in DOMAIN t : a < b /\ t[a] = u[i] /\ t[b] = u[j]
  BY Zenon DEF Follows
<1>2. PICK p \in DOMAIN s, q \in DOMAIN s : p < q /\ s[p] = t[a] /\ s[q] = t[b]
  BY ZenonT(60), <1>1 DEF Follows
<1> QED BY Zenon, <1>1, <1>2

\* Clients are served one after another: who is in front stays in front until it is
\* served.
LEMMA OrderTrans ==
  ASSUME NEW s, NEW t, NEW u, NEW X, NEW Y, Good(s, X), Good(t, Y), Order(s, t), Order(t, u)
  PROVE  Order(s, u)
<1> SUFFICES ASSUME s.served \in Seq(Clients \X Keys), NEW k \in Keys
             PROVE  Ordered(s, u, k) /\ u.served \in Seq(Clients \X Keys)
  BY Zenon DEF Order
<1>1. Ordered(s, t, k) /\ Ordered(t, u, k) /\ u.served \in Seq(Clients \X Keys)
  BY Zenon DEF Order
<1>2. PICK a, b, e : a = s.blocking[k] /\ b = t.blocking[k] /\ e = u.blocking[k]
  BY Zenon
<1>3. a \in Seq(Clients) /\ b \in Seq(Clients) /\ IsInjective(a)
  BY Zenon, <1>2 DEF Good, IsServer, Registered
<1>4. Follows(a, b) /\ Follows(b, e) /\ Range(b) \subseteq Range(a) /\ Range(e) \subseteq Range(b)
  BY Zenon, <1>1, <1>2 DEF Ordered
<1>5. Follows(a, e) /\ Range(e) \subseteq Range(a)
  BY Zenon, <1>4, FollowsTrans
<1>6. DOMAIN a = 1..Len(a) /\ DOMAIN b = 1..Len(b) /\ Len(a) \in Nat /\ Len(b) \in Nat
  BY <1>3
<1>7. ASSUME NEW d \in Clients, <<d, k>> \in Range(u.served), <<d, k>> \notin Range(s.served)
      PROVE  /\ d \in Range(a)
             /\ \A i, j \in DOMAIN a : i < j /\ a[j] = d => a[i] \notin Range(e)
  <2>1. CASE <<d, k>> \in Range(t.served)
    <3>1. /\ d \in Range(a)
          /\ \A i, j \in DOMAIN a : i < j /\ a[j] = d => a[i] \notin Range(b)
      BY Zenon, <1>1, <1>2, <1>7, <2>1 DEF Ordered
    <3> QED BY Zenon, <1>4, <3>1
  <2>2. CASE <<d, k>> \notin Range(t.served)
    <3>1. /\ d \in Range(b)
          /\ \A i, j \in DOMAIN b : i < j /\ b[j] = d => b[i] \notin Range(e)
      BY Zenon, <1>1, <1>2, <1>7, <2>2 DEF Ordered
    <3>2. ASSUME NEW i \in DOMAIN a, NEW j \in DOMAIN a, i < j, a[j] = d, a[i] \in Range(e)
          PROVE  FALSE
      <4>1. PICK p \in DOMAIN b, q \in DOMAIN b : b[p] = a[i] /\ b[q] = d
        BY Zenon, <1>4, <3>1, <3>2 DEF Range
      <4>2. p # q
        BY <1>3, <1>6, <3>2, <4>1 DEF IsInjective
      <4>3. CASE p < q
        BY Zenon, <3>1, <3>2, <4>1, <4>3
      <4>4. CASE q < p
        <5>1. PICK v \in DOMAIN a, w \in DOMAIN a : v < w /\ a[v] = b[q] /\ a[w] = b[p]
          BY Zenon, <1>4, <4>1, <4>4 DEF Follows
        <5>2. v = j /\ w = i
          BY Zenon, <1>3, <3>2, <4>1, <5>1 DEF IsInjective
        <5> QED BY <1>6, <3>2, <5>1, <5>2
      <4> QED BY SMTT(30), <1>6, <4>1, <4>2, <4>3, <4>4
    <3> QED BY Zenon, <1>4, <3>1, <3>2
  <2> QED BY Zenon, <2>1, <2>2
<1> QED BY Zenon, <1>1, <1>2, <1>5, <1>7 DEF Ordered

\* The first client of a list leaves all lists.
LEMMA ServeOrder ==
  ASSUME Counting, NEW s, NEW t, NEW k \in Keys, NEW c, NEW X, Good(s, X), s.blocking[k] # <<>>,
         c = First(s.blocking[k]), t.blocking = [j \in Keys |-> Without(s.blocking[j], c)],
         t.served = s.served \/ t.served = Append(s.served, <<c, k>>)
  PROVE  Order(s, t)
<1> SUFFICES ASSUME s.served \in Seq(Clients \X Keys)
             PROVE  t.served \in Seq(Clients \X Keys) /\ \A j \in Keys : Ordered(s, t, j)
  BY Zenon DEF Order
<1>1. /\ s.blocking[k] \in Seq(Clients) /\ IsInjective(s.blocking[k])
      /\ \A j \in Keys : s.blocking[j] \in Seq(Clients)
  BY Zenon DEF Good, IsServer, Registered
<1>2. c \in Clients /\ c \in Range(s.blocking[k])
  BY <1>1, TailFacts DEF First
<1>3. PICK C, x : C = Clients \X Keys /\ x = <<c, k>>
  BY Zenon
<1>4. s.served \in Seq(C) /\ x \in C
  BY Zenon, <1>2, <1>3
<1>5. Append(s.served, x) \in Seq(C) /\ Range(Append(s.served, x)) = Range(s.served) \union {x}
  BY <1>4, AppendFacts
<1>6. t.served \in Seq(C) /\ Range(t.served) \subseteq Range(s.served) \union {<<c, k>>}
  BY Zenon, <1>3, <1>4, <1>5
<1>7. ASSUME NEW j \in Keys
      PROVE  Ordered(s, t, j)
  <2>1. t.blocking[j] = Without(s.blocking[j], c)
    BY Zenon
  <2>2. Follows(s.blocking[j], t.blocking[j]) /\ Range(t.blocking[j]) \subseteq Range(s.blocking[j])
    BY SMTT(30), <1>1, <2>1, WithoutFacts
  <2>3. ASSUME NEW d \in Clients, <<d, j>> \in Range(t.served), <<d, j>> \notin Range(s.served)
        PROVE  /\ d \in Range(s.blocking[j])
               /\ \A p, q \in DOMAIN s.blocking[j] :
                    p < q /\ s.blocking[j][q] = d => s.blocking[j][p] \notin Range(t.blocking[j])
    <3>1. d = c /\ j = k
      BY Zenon, <1>6, <2>3
    <3>2. PICK b : b = s.blocking[k]
      BY Zenon
    <3>3. /\ b \in Seq(Clients) /\ IsInjective(b) /\ DOMAIN b = 1..Len(b) /\ Len(b) \in Nat
          /\ b # <<>>
      BY <1>1, <3>2
    <3>4. 1 \in DOMAIN b /\ b[1] = d
      BY <3>1, <3>2, <3>3 DEF First
    <3>5. ASSUME NEW p \in DOMAIN b, NEW q \in DOMAIN b, p < q, b[q] = d
          PROVE  FALSE
      <4>1. q = 1
        BY ZenonT(60), <3>3, <3>4, <3>5 DEF IsInjective
      <4> QED BY <3>3, <3>5, <4>1
    <3> QED BY Zenon, <1>2, <3>1, <3>2, <3>5
  <2> QED BY Zenon, <2>2, <2>3 DEF Ordered
<1> QED BY Zenon, <1>3, <1>6, <1>7

-----------------------------------------------------------------------------
(* Serving the clients that are blocked. *)

\* The clients that are blocked.
BlockedSet(s) == {c \in Clients : s.clients[c].state = "blocked"}

\* What the turns of handleClientsBlockedOnKeys use up: a client that is served may
\* make one key ready.
Work(s) == Len(s.ready) + Cardinality(BlockedSet(s))

\* The work is a number, and counts no more blocked clients than there are clients.
LEMMA WorkFacts ==
  ASSUME Counting, NEW s, IsServer(s)
  PROVE  /\ IsFiniteSet(BlockedSet(s)) /\ Cardinality(BlockedSet(s)) \in Nat
         /\ Cardinality(BlockedSet(s)) <= Cardinality(Clients) /\ Cardinality(Clients) \in Nat
         /\ Len(s.ready) \in Nat /\ Work(s) \in Nat
<1>1. BlockedSet(s) \in SUBSET Clients /\ IsFiniteSet(Clients)
  BY Zenon, TransactionsAssumption DEF BlockedSet
<1>2. /\ IsFiniteSet(BlockedSet(s)) /\ Cardinality(BlockedSet(s)) <= Cardinality(Clients)
  BY Zenon, <1>1, SubsetCount
<1>3. Cardinality(BlockedSet(s)) \in Nat /\ Cardinality(Clients) \in Nat
  BY Zenon, <1>1, SubsetCount
<1>4. Len(s.ready) \in Nat
  BY SMTT(30) DEF IsServer
<1> QED BY <1>2, <1>3, <1>4 DEF Work

\* A client c is served: it is in no list any more, and at most one key becomes ready.
Served(s, t, k, c) ==
  /\ c \in Clients /\ c \in Range(s.blocking[k])
  /\ Range(t.blocking[k]) = Range(s.blocking[k]) \ {c}
  /\ BlockedSet(t) = BlockedSet(s) \ {c}
  /\ Len(t.ready) <= Len(s.ready) + 1

\* The list of k shrinks while k is exempt; the client is unblocked.
LEMMA PopGood ==
  ASSUME Counting, NEW s, NEW k \in Keys, NEW c \in Range(s.blocking[k]), NEW u, NEW X,
         k \in X, Good(s, X), Moved(s, u, k)
  PROVE  LET t == Unblock(u, c) IN
         /\ c \in Clients /\ Good(t, X) /\ Part(s, t, X) /\ Served(s, t, k, c)
         /\ t.data = u.data /\ t.ready = s.ready
         /\ \A d \in Clients \ {c} : t.clients[d] = s.clients[d]
<1>1. c \in Clients
  BY Zenon, RangeType DEF Good, IsServer
<1>2. s.clients[c].state = "blocked"
  BY Zenon, <1>1 DEF Good, Registered, BlockedOn
<1>3. Good(u, X) /\ Part(s, u, X)
  BY Zenon, MovedGood, PartWeaker
<1>4. u.clients = s.clients /\ u.blocking = s.blocking /\ u.ready = s.ready
  BY Zenon DEF Moved
<1>5. PICK t : t = Unblock(u, c)
  BY Zenon
<1>6. /\ Good(t, X) /\ t.data = u.data /\ t.ready = u.ready
      /\ t.clients[c].state = "normal" /\ Part(u, t, {})
      /\ \A d \in Clients \ {c} : t.clients[d] = u.clients[d]
      /\ Range(t.blocking[k]) = Range(u.blocking[k]) \ {c}
  BY <1>1, <1>2, <1>3, <1>4, <1>5, UnblockGood
<1>7. Part(s, t, X)
  <2>1. Part(u, t, X)
    BY <1>6, PartWeaker
  <2> QED BY Zenon, <1>3, <2>1, PartTrans
<1>8. BlockedSet(t) = BlockedSet(s) \ {c}
  BY <1>2, <1>4, <1>6 DEF BlockedSet
<1>9. Len(t.ready) <= Len(s.ready) + 1
  <2>1. Len(s.ready) \in Nat
    BY SMTT(30) DEF Good, IsServer
  <2> QED BY <1>4, <1>6, <2>1
<1> QED BY Zenon, <1>1, <1>4, <1>5, <1>6, <1>7, <1>8, <1>9 DEF Served

\* serveClientBlockedOnList.
LEMMA ServeClientGood ==
  ASSUME Counting, NEW s, NEW k \in Keys, NEW X, k \in X, Good(s, X), s.blocking[k] # <<>>
  PROVE  LET t == ServeClient(s, k) IN
         /\ Good(t, X) /\ Part(s, t, X) /\ Order(s, t)
         /\ \E c \in Clients : Served(s, t, k, c)
<1>0. IsServer(s) /\ s.blocking[k] \in Seq(Clients)
  BY Zenon DEF Good, IsServer
<1>1. PICK c : c = First(s.blocking[k])
  BY Zenon
<1>2. c \in Range(s.blocking[k]) /\ c \in Clients
  BY <1>0, <1>1, TailFacts DEF First
<1>3. PICK cmd, o, left : cmd = s.clients[c].cmd /\ o = s.data[k] /\ left = (cmd.op = "blpop")
  BY Zenon
<1>4. PICK r : r = [s EXCEPT !.data[k] = IF left THEN Tail(o) ELSE Front(o),
                             !.served = Append(@, <<c, k>>)]
  BY Zenon
<1>5. Moved(s, r, k)
  BY Zenon, <1>0, <1>4 DEF Moved, IsServer, Fields
<1>6. PICK p : p = Unblock(r, c)
  BY Zenon
<1>7. /\ Good(p, X) /\ Part(s, p, X) /\ Served(s, p, k, c) /\ p.data = r.data
      /\ p.ready = s.ready
  <2>1. LET t == Unblock(r, c) IN
        /\ Good(t, X) /\ Part(s, t, X) /\ Served(s, t, k, c) /\ t.data = r.data
        /\ t.ready = s.ready
    BY <1>2, <1>5, PopGood
  <2> QED BY Zenon, <1>6, <2>1
<1>7a. Order(s, p) /\ DOMAIN p = Fields
  <2>1. DOMAIN r = Fields /\ r.blocking = s.blocking /\ r.served = Append(s.served, <<c, k>>)
    BY Zenon, <1>0, <1>4 DEF IsServer, Fields
  <2>2. /\ DOMAIN p = Fields /\ p.served = r.served
        /\ p.blocking = [j \in Keys |-> Without(s.blocking[j], c)]
    BY Zenon, <1>6, <2>1 DEF Unblock, Fields
  <2>3. PICK b, x : b = [j \in Keys |-> Without(s.blocking[j], c)] /\ x = <<c, k>>
    BY Zenon
  <2>4. Order(s, p)
    <3>1. p.blocking = b /\ p.served = Append(s.served, x)
      BY Zenon, <2>1, <2>2, <2>3
    <3> QED BY <1>1, <2>3, <3>1, ServeOrder
  <2> QED BY Zenon, <2>2, <2>4
<1>8. ServeClient(s, k) =
        IF left THEN Between(Propagate(p, Cmd("lpop", <<k>>, NULL)))
        ELSE IF IsString(s.data[cmd.keys[2]]) THEN Unblock(s, c)
        ELSE Between(Propagate(HandlePush(p, cmd.keys[2], Last(o)),
                               Cmd("rpoplpush", cmd.keys, NULL)))
  BY Zenon, <1>1, <1>3, <1>4, <1>6 DEF ServeClient
<1>9. ASSUME NEW t, NEW x, Good(t, X), Part(s, t, X), Served(s, t, k, c), Order(s, t)
      PROVE  LET u == Between(Propagate(t, x)) IN
             Good(u, X) /\ Part(s, u, X) /\ Served(s, u, k, c) /\ Order(s, u)
  <2>1. PICK v, u : v = Propagate(t, x) /\ u = Between(v)
    BY Zenon
  <2>2. Same(t, v)
    BY Zenon, <1>9, <2>1, SameFacts DEF Good
  <2>3. Good(v, X) /\ Part(s, v, X)
    BY Zenon, <1>9, <2>2, SameGood, SamePart
  <2>4. Same(v, u)
    BY Zenon, <2>1, <2>3, SameFacts DEF Good
  <2>5. Good(u, X) /\ Part(s, u, X)
    BY Zenon, <2>3, <2>4, SameGood, SamePart
  <2>6. Served(s, u, k, c)
    BY ZenonT(60), <1>9, <2>2, <2>4 DEF Served, Same, BlockedSet
  <2>7. Order(s, u)
    <3>1. DOMAIN t = Fields /\ DOMAIN v = Fields
      BY Zenon, <1>9, <2>3 DEF Good, IsServer
    <3>2. Still(t, v) /\ Still(v, u)
      BY Zenon, <2>1, <3>1, StillFacts
    <3> QED BY Zenon, <1>9, <3>2, StillOrder
  <2> QED BY Zenon, <2>1, <2>5, <2>6, <2>7
<1>10. CASE left
  BY Zenon, <1>2, <1>7, <1>7a, <1>8, <1>9, <1>10
<1>11. CASE ~left /\ IsString(s.data[cmd.keys[2]])
  <2>1. Moved(s, s, k)
    BY Zenon, <1>0 DEF Moved, IsServer
  <2>2. PICK t : t = Unblock(s, c)
    BY Zenon
  <2>3. Good(t, X) /\ Part(s, t, X) /\ Served(s, t, k, c)
    BY Zenon, <1>2, <2>1, <2>2, PopGood
  <2>4. Order(s, t)
    <3>1. t.served = s.served /\ t.blocking = [j \in Keys |-> Without(s.blocking[j], c)]
      BY Zenon, <1>0, <2>2 DEF Unblock, IsServer, Fields
    <3> QED BY <1>1, <3>1, ServeOrder
  <2> QED BY Zenon, <1>2, <1>8, <1>11, <2>2, <2>3, <2>4
<1>12. CASE ~left /\ ~IsString(s.data[cmd.keys[2]])
  <2>1. PICK dst \in Keys : dst = cmd.keys[2]
    <3>1. s.clients[c].state = "blocked"
      BY Zenon, <1>2 DEF Good, Registered, BlockedOn
    <3>2. cmd \in CommandShape /\ cmd.op = "brpoplpush"
      BY Zenon, <1>0, <1>2, <1>3, <1>12, <3>1 DEF IsServer, Blocker
    <3> QED BY Zenon, <3>2, CommandFacts
  <2>2. PICK e, list : /\ e = Last(o)
                       /\ list = IF p.data[dst] = NULL THEN <<e>> ELSE <<e>> \o p.data[dst]
    BY Zenon
  <2>3. PICK h : h = Touch(Push(p, dst, list), dst)
    BY Zenon
  <2>4. p.data[dst] = NULL \/ dst \in X \/ (p.blocking[dst] # <<>> => dst \in Range(p.ready))
    <3>1. CASE dst \notin X
      <4>1. p.data[dst] = s.data[dst]
        BY Zenon, <1>5, <1>7, <3>1 DEF Moved
      <4> QED BY Zenon, <1>7, <1>12, <2>1, <3>1, <4>1 DEF Good, Awake, IsList
    <3> QED BY Zenon, <3>1
  <2>5. /\ Good(h, X) /\ Part(p, h, {}) /\ h.blocking = p.blocking /\ Quiet(p, h)
        /\ Len(h.ready) <= Len(p.ready) + 1
    <3>0. Good(p, X)
      BY Zenon, <1>7
    <3>1. LET u == Touch(Push(p, dst, list), dst) IN
          /\ Good(u, X) /\ Part(p, u, {}) /\ u.blocking = p.blocking
          /\ \A j \in Keys \ {dst} : u.data[j] = p.data[j]
          /\ \A d \in Clients : /\ u.clients[d].state = p.clients[d].state
                                /\ u.clients[d].cmd = p.clients[d].cmd
          /\ Len(u.ready) <= Len(p.ready) + 1
      BY Zenon, <2>4, <3>0, PushGood
    <3> QED BY Zenon, <2>3, <3>1 DEF Quiet
  <2>6. Part(s, h, X)
    <3>1. Part(p, h, X)
      BY SMTT(30), <2>5, PartWeaker
    <3> QED BY Zenon, <1>7, <3>1, PartTrans
  <2>7. Served(s, h, k, c)
    BY Zenon, <1>7, <2>5 DEF Served, BlockedSet, Quiet
  <2>8. HandlePush(p, cmd.keys[2], Last(o)) = h
    BY Zenon, <2>1, <2>2, <2>3 DEF HandlePush
  <2>9. Order(s, h)
    <3>1. Still(p, h)
      BY Zenon, <1>7a, <2>3, PushStill
    <3> QED BY Zenon, <1>7a, <3>1, StillOrder
  <2> QED BY Zenon, <1>2, <1>8, <1>9, <1>12, <2>5, <2>6, <2>7, <2>8, <2>9
<1> QED BY Zenon, <1>10, <1>11, <1>12

\* The turns of serveClientsBlockedOnListKey, one after another.
IsServing(g, s, k, n) == g = [i \in 0..n |-> IF i = 0 THEN s ELSE Turn(g[i - 1], k)]

\* The turns of ServeKey are a function.
LEMMA ServingExists ==
  ASSUME Counting, NEW s, NEW k, NEW n \in Nat
  PROVE  \E g : IsServing(g, s, k, n)
<1> DEFINE step(g, i) == IF i = 0 THEN s ELSE Turn(g[i - 1], k)
           Is(g, m) == g = [i \in 0..m |-> step(g, i)]
           T == {m \in Nat : ~\E g : Is(g, m)}
<1>1. T = {}
  <2> SUFFICES ASSUME T # {} PROVE FALSE
    BY Zenon
  <2>1. PICK m \in T : \A j \in T : m <= j
    <3> HIDE DEF T
    <3>1. T \in SUBSET Nat
      BY Zenon DEF T
    <3> QED BY Zenon, <3>1, Least
  <2>2. CASE m = 0
    <3> DEFINE g == [i \in 0..0 |-> s]
    <3>1. Is(g, 0)
      OBVIOUS
    <3> QED BY Zenon, <2>1, <2>2, <3>1
  <2>3. CASE m # 0
    <3>1. m \in Nat /\ m - 1 \in Nat /\ m - 1 \notin T
      <4>1. m \in Nat
        BY Zenon, <2>1
      <4> HIDE DEF T
      <4> QED BY <2>1, <2>3, <4>1
    <3>2. PICK g : Is(g, m - 1)
      BY Zenon, <3>1
    <3> DEFINE h == [i \in 0..m |-> IF i = m THEN step(g, m) ELSE g[i]]
    <3>3. \A i \in 0..m : h[i] = step(h, i)
      <4> SUFFICES ASSUME NEW i \in 0..m PROVE h[i] = step(h, i)
        BY Zenon
      <4>1. CASE i = m
        <5>1. h[m] = step(g, m) /\ h[m - 1] = g[m - 1]
          BY <3>1
        <5> QED BY Zenon, <2>3, <4>1, <5>1
      <4>2. CASE i # m
        <5>1. i \in 0..(m - 1) /\ h[i] = g[i] /\ (i # 0 => h[i - 1] = g[i - 1])
          BY <3>1, <4>2
        <5>2. g[i] = step(g, i)
          BY Zenon, <3>2, <5>1
        <5> QED BY Zenon, <5>1, <5>2
      <4> QED BY Zenon, <4>1, <4>2
    <3>4. Is(h, m)
      BY Zenon, <3>3
    <3> QED BY Zenon, <2>1, <3>4
  <2> QED BY Zenon, <2>2, <2>3
<1> QED BY Zenon, <1>1 DEF IsServing

\* serveClientsBlockedOnListKey: in the end the list is deleted or nobody is blocked on
\* it.
LEMMA ServeKeyGood ==
  ASSUME Counting, NEW s, NEW k \in Keys, NEW X, X = {k}, Good(s, X), Flagged(s, k)
  PROVE  LET t == ServeKey(s, k) IN
         Good(t, {}) /\ Part(s, t, {}) /\ Work(t) <= Work(s) /\ Order(s, t)
<1>0. PICK n \in Nat : n = Len(s.blocking[k])
  BY DEF Good, IsServer
<1>1. IsServer(s) /\ Work(s) \in Nat
  BY Zenon, WorkFacts DEF Good
<1>2. CASE ~IsList(s.data[k])
  <2>1. Good(s, {})
    BY Zenon, <1>2 DEF Good, Awake
  <2>2. ServeKey(s, k) = s
    BY Zenon, <1>2 DEF ServeKey
  <2> QED BY <1>1, <2>1, <2>2, PartWeaker, StillOrder
<1>3. CASE IsList(s.data[k])
  <2>1. PICK g : IsServing(g, s, k, n) /\ ServeKey(s, k) = DeleteEmpty(g[n], k)
    <3> DEFINE f == CHOOSE f : IsServing(f, s, k, n)
    <3>1. IsServing(f, s, k, n)
      <4>1. \E g : IsServing(g, s, k, n)
        BY Zenon, <1>0, ServingExists
      <4> QED BY Zenon, <4>1
    <3>2. ServeKey(s, k) = DeleteEmpty(f[n], k)
      BY Zenon, <1>0, <1>3 DEF ServeKey, IsServing
    <3> QED BY Zenon, <3>1, <3>2
  <2>2. g[0] = s /\ \A i \in 1..n : g[i] = Turn(g[i - 1], k)
    <3>1. \A i \in 0..n : g[i] = IF i = 0 THEN s ELSE Turn(g[i - 1], k)
      BY Zenon, <2>1 DEF IsServing
    <3>2. 0 \in 0..n /\ \A i \in 1..n : i \in 0..n /\ i # 0
      BY <1>0
    <3> QED BY Zenon, <3>1, <3>2
  <2> DEFINE Left(t) == Cardinality(Range(t.blocking[k]))
             Fine(i) == /\ Good(g[i], X) /\ Part(s, g[i], X) /\ Work(g[i]) <= Work(s)
                        /\ Order(s, g[i])
                        /\ g[i].data[k] = <<>> \/ Left(g[i]) = n - i
             T == {i \in Nat : i <= n /\ ~Fine(i)}
  <2>3. Fine(0)
    <3>1. Left(s) = n
      BY Zenon, <1>0, InjectiveLength DEF Good, IsServer, Registered
    <3> QED BY SMTT(30), <1>0, <1>1, <2>2, <3>1, PartWeaker, StillOrder
  <2>4. ASSUME NEW i \in 1..n, Fine(i - 1)
        PROVE  Fine(i)
    <3> HIDE DEF Left
    <3>1. PICK r, t : r = g[i - 1] /\ t = g[i]
      BY Zenon
    <3>2. /\ Good(r, X) /\ Part(s, r, X) /\ Work(r) <= Work(s) /\ Order(s, r)
          /\ r.data[k] = <<>> \/ Left(r) = n - (i - 1)
      BY Zenon, <2>4, <3>1
    <3>3. t = Turn(r, k)
      BY Zenon, <2>2, <3>1
    <3>4. CASE r.data[k] = <<>>
      <4>1. t = r
        BY Zenon, <3>3, <3>4 DEF Turn
      <4> QED BY Zenon, <3>1, <3>2, <3>4, <4>1
    <3>5. CASE r.data[k] # <<>>
      <4>1. t = ServeClient(r, k)
        BY Zenon, <3>3, <3>5 DEF Turn
      <4>2. r.blocking[k] \in Seq(Clients) /\ IsInjective(r.blocking[k]) /\ IsServer(r)
        BY Zenon, <3>2 DEF Good, IsServer, Registered
      <4>3. /\ IsFiniteSet(Range(r.blocking[k])) /\ Left(r) = Len(r.blocking[k])
            /\ Left(r) \in Nat
        BY <4>2, InjectiveLength DEF Left
      <4>4. Left(r) = n - (i - 1) /\ Left(r) > 0
        BY <1>0, <3>2, <3>5
      <4>5. r.blocking[k] # <<>>
        <5>1. \A x : x = <<>> => Range(x) = {}
          BY DEF Range
        <5>2. Range(r.blocking[k]) # {}
          BY SMTT(30), <4>4, RemoveCount DEF Left
        <5> QED BY Zenon, <5>1, <5>2
      <4>6. /\ Good(t, X) /\ Part(r, t, X) /\ Order(r, t)
            /\ \E c \in Clients : Served(r, t, k, c)
        BY Zenon, <3>2, <4>1, <4>5, ServeClientGood
      <4>7. PICK c \in Clients : Served(r, t, k, c)
        BY Zenon, <4>6
      <4>8. Left(t) = Left(r) - 1
        <5>1. /\ c \in Range(r.blocking[k])
              /\ Range(t.blocking[k]) = Range(r.blocking[k]) \ {c}
          BY Zenon, <4>7 DEF Served
        <5>2. Cardinality(Range(r.blocking[k]) \ {c}) = Cardinality(Range(r.blocking[k])) - 1
          BY Zenon, <4>3, <5>1, RemoveCount
        <5> QED BY Zenon, <5>1, <5>2 DEF Left
      <4>9. Work(t) <= Work(r)
        <5>1. c \in BlockedSet(r)
          BY Zenon, <3>2, <4>7 DEF Served, Good, Registered, BlockedOn, BlockedSet
        <5>2. /\ IsFiniteSet(BlockedSet(r)) /\ Cardinality(BlockedSet(r)) \in Nat
              /\ Len(r.ready) \in Nat
          BY Zenon, <4>2, WorkFacts
        <5>3. Cardinality(BlockedSet(t)) = Cardinality(BlockedSet(r)) - 1
          BY Zenon, <4>7, <5>1, <5>2, RemoveCount DEF Served
        <5>4. Len(t.ready) \in Nat /\ Len(t.ready) <= Len(r.ready) + 1
          BY Zenon, <4>6, <4>7, WorkFacts DEF Served, Good
        <5> QED BY <5>2, <5>3, <5>4 DEF Work
      <4>10. Work(t) \in Nat /\ Work(r) \in Nat
        BY Zenon, <4>2, <4>6, WorkFacts DEF Good
      <4>11. Part(s, t, X) /\ Order(s, t)
        BY Zenon, <3>2, <4>6, PartTrans, OrderTrans
      <4>12. Left(t) = n - i /\ Work(t) <= Work(s)
        BY <1>0, <1>1, <3>2, <4>3, <4>4, <4>8, <4>9, <4>10
      <4> QED BY Zenon, <3>1, <4>6, <4>11, <4>12
    <3> QED BY Zenon, <3>4, <3>5
  <2> HIDE DEF Fine
  <2>5. T = {}
    <3> SUFFICES ASSUME T # {} PROVE FALSE
      BY Zenon
    <3>1. PICK i \in T : \A j \in T : i <= j
      <4> HIDE DEF T
      <4>1. T \in SUBSET Nat
        BY Zenon DEF T
      <4> QED BY Zenon, <4>1, Least
    <3>2. i \in Nat /\ i <= n /\ ~Fine(i)
      BY Zenon, <3>1
    <3>3. i # 0
      BY Zenon, <2>3, <3>2
    <3>4. i \in 1..n /\ i - 1 \in Nat /\ i - 1 <= n /\ i - 1 \notin T
      <4> HIDE DEF T
      <4> QED BY <1>0, <3>1, <3>2, <3>3
    <3> QED BY Zenon, <2>4, <3>2, <3>4
  <2>6. Fine(n)
    BY <1>0, <2>5
  <2>7. PICK t : t = g[n]
    BY Zenon
  <2>8. /\ Good(t, X) /\ Part(s, t, X) /\ Work(t) <= Work(s) /\ Order(s, t)
        /\ t.data[k] = <<>> \/ t.blocking[k] = <<>>
    <3>1. Left(t) = n - n => t.blocking[k] = <<>>
      <4>1. t.blocking[k] \in Seq(Clients) /\ IsInjective(t.blocking[k])
        BY Zenon, <2>6, <2>7 DEF Fine, Good, IsServer, Registered
      <4>2. Left(t) = Len(t.blocking[k])
        BY Zenon, <4>1, InjectiveLength
      <4>3. Len(t.blocking[k]) = 0 => t.blocking[k] = <<>>
        BY <4>1
      <4> HIDE DEF Left
      <4> QED BY SMTT(30), <1>0, <4>2, <4>3
    <3> QED BY Zenon, <2>6, <2>7, <3>1 DEF Fine
  <2>9. PICK d : d = DeleteEmpty(t, k)
    BY Zenon
  <2>10. Moved(t, d, k) /\ (d.data[k] = NULL \/ (d.data[k] = t.data[k] /\ t.data[k] # <<>>))
    BY Zenon, <2>8, <2>9, DeleteEmptyFacts DEF Good
  <2>11. Good(d, X) /\ Part(t, d, X)
    BY Zenon, <2>8, <2>10, MovedGood
  <2>12. Good(d, {})
    <3>1. d.blocking = t.blocking
      BY Zenon, <2>10 DEF Moved
    <3>2. d.blocking[k] # <<>> => ~IsList(d.data[k])
      BY Zenon, <2>8, <2>10, <3>1 DEF IsList
    <3> QED BY Zenon, <2>11, <3>2 DEF Good, Awake
  <2>13. Part(s, d, {})
    <3>1. Part(s, d, X)
      BY Zenon, <2>8, <2>11, PartTrans
    <3>2. Part(s, d, X \ {k}) /\ X \ {k} = {}
      BY Zenon, <3>1, FlaggedKey
    <3> QED BY Zenon, <3>2
  <2>14. Work(d) <= Work(s)
    BY Zenon, <2>8, <2>10 DEF Work, BlockedSet, Moved
  <2>15. Order(s, d)
    <3>1. Still(t, d)
      BY Zenon, <2>8, <2>9, StillFacts DEF Good, IsServer
    <3> QED BY Zenon, <2>8, <3>1, StillOrder
  <2> QED BY Zenon, <2>1, <2>7, <2>9, <2>12, <2>13, <2>14, <2>15
<1> QED BY Zenon, <1>2, <1>3

\* One key that is ready: it is taken off the list, and its clients are served.
LEMMA HandleReadyGood ==
  ASSUME Counting, NEW s, Good(s, {}), s.ready # <<>>
  PROVE  LET t == HandleReady(s) IN
         Good(t, {}) /\ Part(s, t, {}) /\ Work(t) <= Work(s) - 1 /\ Order(s, t)
<1>0. IsServer(s) /\ s.ready \in Seq(Keys) /\ IsInjective(s.ready) /\ Work(s) \in Nat
  BY Zenon, WorkFacts DEF Good, IsServer, ReadyFlagged
<1>1. PICK k \in Keys : k = Head(s.ready)
  BY Zenon, <1>0, TailFacts
<1>2. PICK r : r = [s EXCEPT !.ready = Tail(@)]
  BY Zenon
<1>3. /\ DOMAIN r = Fields /\ r.data = s.data /\ r.clients = s.clients /\ r.blocking = s.blocking
      /\ r.waiting = s.waiting /\ r.ready = Tail(s.ready)
  BY Zenon, <1>0, <1>2 DEF IsServer, Fields
<1>4. /\ r.ready \in Seq(Keys) /\ IsInjective(r.ready)
      /\ Range(s.ready) = Range(r.ready) \union {k}
  BY <1>0, <1>1, <1>3, TailFacts
<1>5. Len(r.ready) = Len(s.ready) - 1
  BY <1>0, <1>3
<1>6. PICK X : X = {k}
  BY Zenon
<1>7. IsServer(r)
  BY Zenon, <1>0, <1>3, <1>4 DEF IsServer
<1>8. Good(r, X)
  <2>1. Registered(r)
    BY Zenon, <1>3 DEF Good, Registered
  <2>2. Awake(r, X)
    BY Zenon, <1>3, <1>4, <1>6 DEF Good, Awake
  <2>3. ReadyFlagged(r)
    BY Zenon, <1>3, <1>4 DEF Good, ReadyFlagged, Flagged
  <2> QED BY Zenon, <1>7, <2>1, <2>2, <2>3 DEF Good
<1>9. Flagged(r, k)
  BY Zenon, <1>3, <1>4 DEF Good, ReadyFlagged, Flagged
<1>10. Part(s, r, {})
  BY Zenon, <1>3 DEF Part, Flags, Keeps
<1>11. PICK t : t = ServeKey(r, k)
  BY Zenon
<1>12. Good(t, {}) /\ Part(r, t, {}) /\ Work(t) <= Work(r) /\ Order(r, t)
  BY Zenon, <1>1, <1>6, <1>8, <1>9, <1>11, ServeKeyGood
<1>13. Work(r) = Work(s) - 1
  <2>1. Len(s.ready) \in Nat /\ Cardinality(BlockedSet(s)) \in Nat
    BY Zenon, <1>0, WorkFacts
  <2> QED BY <1>3, <1>5, <2>1 DEF Work, BlockedSet
<1>14. HandleReady(s) = t
  BY Zenon, <1>1, <1>2, <1>11 DEF HandleReady
<1>15. Order(s, t)
  <2>1. Still(s, r)
    BY Zenon, <1>0, <1>2 DEF IsServer, Still, Fields
  <2> QED BY Zenon, <1>12, <2>1, StillOrder
<1> QED BY Zenon, <1>10, <1>12, <1>13, <1>14, <1>15, PartTrans

\* The turns of handleClientsBlockedOnKeys.
IsHandling(g, s, n) == g = [i \in 0..n |-> IF i = 0 THEN s ELSE HandleReady(g[i - 1])]

\* The rounds of HandleClients are a function.
LEMMA HandlingExists ==
  ASSUME Counting, NEW s, NEW n \in Nat
  PROVE  \E g : IsHandling(g, s, n)
<1> DEFINE step(g, i) == IF i = 0 THEN s ELSE HandleReady(g[i - 1])
           Is(g, m) == g = [i \in 0..m |-> step(g, i)]
           T == {m \in Nat : ~\E g : Is(g, m)}
<1>1. T = {}
  <2> SUFFICES ASSUME T # {} PROVE FALSE
    BY Zenon
  <2>1. PICK m \in T : \A j \in T : m <= j
    <3> HIDE DEF T
    <3>1. T \in SUBSET Nat
      BY Zenon DEF T
    <3> QED BY Zenon, <3>1, Least
  <2>2. CASE m = 0
    <3> DEFINE g == [i \in 0..0 |-> s]
    <3>1. Is(g, 0)
      OBVIOUS
    <3> QED BY Zenon, <2>1, <2>2, <3>1
  <2>3. CASE m # 0
    <3>1. m \in Nat /\ m - 1 \in Nat /\ m - 1 \notin T
      <4>1. m \in Nat
        BY Zenon, <2>1
      <4> HIDE DEF T
      <4> QED BY <2>1, <2>3, <4>1
    <3>2. PICK g : Is(g, m - 1)
      BY Zenon, <3>1
    <3> DEFINE h == [i \in 0..m |-> IF i = m THEN step(g, m) ELSE g[i]]
    <3>3. \A i \in 0..m : h[i] = step(h, i)
      <4> SUFFICES ASSUME NEW i \in 0..m PROVE h[i] = step(h, i)
        BY Zenon
      <4>1. CASE i = m
        <5>1. h[m] = step(g, m) /\ h[m - 1] = g[m - 1]
          BY <3>1
        <5> QED BY Zenon, <2>3, <4>1, <5>1
      <4>2. CASE i # m
        <5>1. i \in 0..(m - 1) /\ h[i] = g[i] /\ (i # 0 => h[i - 1] = g[i - 1])
          BY <3>1, <4>2
        <5>2. g[i] = step(g, i)
          BY Zenon, <3>2, <5>1
        <5> QED BY Zenon, <5>1, <5>2
      <4> QED BY Zenon, <4>1, <4>2
    <3>4. Is(h, m)
      BY Zenon, <3>3
    <3> QED BY Zenon, <2>1, <3>4
  <2> QED BY Zenon, <2>2, <2>3
<1> QED BY Zenon, <1>1 DEF IsHandling

\* handleClientsBlockedOnKeys: in the end no key is ready.
LEMMA HandleClientsGood ==
  ASSUME Counting, NEW s, Good(s, {})
  PROVE  LET t == HandleClients(s) IN
         Good(t, {}) /\ Part(s, t, {}) /\ t.ready = <<>> /\ Order(s, t)
<1>0. PICK n : n = Cardinality(Keys) + Cardinality(Clients)
  BY Zenon
<1>1. /\ IsServer(s) /\ Work(s) \in Nat /\ n \in Nat /\ Work(s) <= n
  <2>1. /\ IsServer(s) /\ Work(s) \in Nat /\ Cardinality(Clients) \in Nat
        /\ Cardinality(BlockedSet(s)) \in Nat
        /\ Cardinality(BlockedSet(s)) <= Cardinality(Clients)
    BY Zenon, WorkFacts DEF Good
  <2>2. s.ready \in Seq(Keys) /\ IsInjective(s.ready) /\ Len(s.ready) \in Nat
    BY SMTT(30), <2>1 DEF Good, IsServer, ReadyFlagged
  <2>3. Range(s.ready) \in SUBSET Keys /\ IsFiniteSet(Keys)
    BY Zenon, <2>2, RangeType, TransactionsAssumption
  <2>4. Len(s.ready) = Cardinality(Range(s.ready))
    BY Zenon, <2>2, InjectiveLength
  <2>5. Cardinality(Keys) \in Nat /\ Cardinality(Range(s.ready)) <= Cardinality(Keys)
    BY Zenon, <2>3, SubsetCount
  <2> QED BY <1>0, <2>1, <2>2, <2>4, <2>5 DEF Work
<1>2. PICK g : IsHandling(g, s, n) /\ HandleClients(s) = g[n]
  <2> DEFINE f == CHOOSE f : IsHandling(f, s, n)
  <2>1. IsHandling(f, s, n)
    <3>1. \E g : IsHandling(g, s, n)
      BY Zenon, <1>1, HandlingExists
    <3> QED BY Zenon, <3>1
  <2>2. HandleClients(s) = f[n]
    BY Zenon, <1>0 DEF HandleClients, IsHandling
  <2> QED BY Zenon, <2>1, <2>2
<1>3. g[0] = s /\ \A i \in 1..n : g[i] = HandleReady(g[i - 1])
  <2>1. \A i \in 0..n : g[i] = IF i = 0 THEN s ELSE HandleReady(g[i - 1])
    BY Zenon, <1>2 DEF IsHandling
  <2>2. 0 \in 0..n /\ \A i \in 1..n : i \in 0..n /\ i # 0
    BY <1>1
  <2> QED BY Zenon, <2>1, <2>2
<1> DEFINE Fine(i) == /\ Good(g[i], {}) /\ Part(s, g[i], {}) /\ Order(s, g[i])
                      /\ g[i].ready = <<>> \/ Work(g[i]) <= n - i
           T == {i \in Nat : i <= n /\ ~Fine(i)}
<1>4. Fine(0)
  BY <1>1, <1>3, PartWeaker, StillOrder
<1>5. ASSUME NEW i \in 1..n, Fine(i - 1)
      PROVE  Fine(i)
  <2>1. PICK r, t : r = g[i - 1] /\ t = g[i]
    BY Zenon
  <2>2. /\ Good(r, {}) /\ Part(s, r, {}) /\ Order(s, r) /\ t = HandleReady(r)
        /\ r.ready = <<>> \/ Work(r) <= n - (i - 1)
    BY Zenon, <1>3, <1>5, <2>1
  <2>3. CASE r.ready = <<>>
    <3>1. t = r
      BY Zenon, <2>2, <2>3 DEF HandleReady
    <3> QED BY Zenon, <2>1, <2>2, <2>3, <3>1
  <2>4. CASE r.ready # <<>>
    <3>1. Good(t, {}) /\ Part(r, t, {}) /\ Work(t) <= Work(r) - 1 /\ Order(r, t)
      BY Zenon, <2>2, <2>4, HandleReadyGood
    <3>2. Part(s, t, {}) /\ Order(s, t)
      BY Zenon, <2>2, <3>1, PartTrans, OrderTrans
    <3>3. Work(r) \in Nat /\ Work(t) \in Nat
      BY Zenon, <2>2, <3>1, WorkFacts DEF Good
    <3>4. Work(t) <= n - i
      BY <1>1, <2>2, <2>4, <3>1, <3>3
    <3> QED BY Zenon, <2>1, <3>1, <3>2, <3>4
  <2> QED BY Zenon, <2>3, <2>4
<1> HIDE DEF Fine
<1>6. T = {}
  <2> SUFFICES ASSUME T # {} PROVE FALSE
    BY Zenon
  <2>1. PICK i \in T : \A j \in T : i <= j
    <3> HIDE DEF T
    <3>1. T \in SUBSET Nat
      BY Zenon DEF T
    <3> QED BY Zenon, <3>1, Least
  <2>2. i \in Nat /\ i <= n /\ ~Fine(i)
    BY Zenon, <2>1
  <2>3. i # 0
    BY Zenon, <1>4, <2>2
  <2>4. i \in 1..n /\ i - 1 \in Nat /\ i - 1 <= n /\ i - 1 \notin T
    <3> HIDE DEF T
    <3> QED BY <1>1, <2>1, <2>2, <2>3
  <2> QED BY Zenon, <1>5, <2>2, <2>4
<1>7. Fine(n)
  BY <1>1, <1>6
<1>8. PICK t : t = g[n]
  BY Zenon
<1>9. Good(t, {}) /\ Part(s, t, {}) /\ Order(s, t) /\ (t.ready = <<>> \/ Work(t) <= 0)
  BY <1>1, <1>7, <1>8 DEF Fine
<1>10. t.ready = <<>>
  <2>1. /\ Len(t.ready) \in Nat /\ Cardinality(BlockedSet(t)) \in Nat /\ t.ready \in Seq(Keys)
    BY Zenon, <1>9, WorkFacts DEF Good, IsServer
  <2>2. CASE Work(t) <= 0
    <3>1. Len(t.ready) = 0
      BY <2>1, <2>2 DEF Work
    <3> QED BY <2>1, <3>1
  <2> QED BY Zenon, <1>9, <2>2
<1> QED BY Zenon, <1>2, <1>8, <1>9, <1>10

\* Each step of a command after others that leave the lists alone.
LEMMA StillThen ==
  ASSUME NEW s, NEW t, Still(s, t), NEW k, NEW x, NEW y
  PROVE  /\ Still(s, Touch(t, k)) /\ Still(s, DeleteEmpty(t, k)) /\ Still(s, Dirty(t))
         /\ Still(s, Between(t)) /\ Still(s, Propagate(t, x)) /\ Still(s, [t EXCEPT !.argv = x])
         /\ Still(s, [t EXCEPT !.argv = x, !.dirty = y]) /\ Still(s, [t EXCEPT !.data = x])
<1>1. DOMAIN t = Fields
  BY Zenon DEF Still
<1>2. /\ Still(t, Touch(t, k)) /\ Still(t, DeleteEmpty(t, k)) /\ Still(t, Dirty(t))
      /\ Still(t, Between(t)) /\ Still(t, Propagate(t, x)) /\ Still(t, [t EXCEPT !.argv = x])
      /\ Still(t, [t EXCEPT !.argv = x, !.dirty = y]) /\ Still(t, [t EXCEPT !.data = x])
  BY Zenon, <1>1, StillFacts
<1> QED BY Zenon, <1>2, StillTrans

\* Commands that do not block leave the lists alone.
LEMMA CommandsStill ==
  ASSUME NEW s, DOMAIN s = Fields, NEW c, NEW cmd
  PROVE  /\ Still(s, SetCommand(s, cmd)) /\ Still(s, DelCommand(s, cmd))
         /\ Still(s, RpushCommand(s, cmd)) /\ Still(s, LpopCommand(s, cmd))
         /\ Still(s, RpoplpushCommand(s, cmd)) /\ Still(s, FlushallCommand(s))
         /\ Still(s, UnwatchCommand(s, c))
<1>0. PICK k : k = cmd.keys[1]
  BY Zenon
<1>1. ASSUME NEW x
      PROVE  Still(s, [s EXCEPT !.data[k] = x]) /\ Still(s, Touch([s EXCEPT !.data[k] = x], k))
  <2>1. PICK t : t = [s EXCEPT !.data[k] = x]
    BY Zenon
  <2>2. Still(s, t)
    BY Zenon, <2>1, StillFacts
  <2> QED BY Zenon, <2>1, <2>2, StillThen
<1>2. Still(s, SetCommand(s, cmd))
  BY Zenon, <1>0, <1>1, StillThen DEF SetCommand, SetKey
<1>3. Still(s, DelCommand(s, cmd))
  <2>1. Still(s, Dirty(Touch([s EXCEPT !.data[k] = NULL], k)))
    BY Zenon, <1>1, StillThen
  <2> QED BY Zenon, <1>0, <2>1, StillFacts DEF DelCommand
<1>4. Still(s, RpushCommand(s, cmd))
  <2>1. PICK list : list = IF s.data[k] = NULL THEN <<cmd.arg>> ELSE Append(s.data[k], cmd.arg)
    BY Zenon
  <2>2. PICK t : t = Touch(Push(s, k, list), k)
    BY Zenon
  <2>3. Still(s, Dirty(t))
    BY Zenon, <2>2, PushStill, StillThen
  <2>4. RpushCommand(s, cmd) = IF IsString(s.data[k]) THEN s ELSE Dirty(t)
    BY Zenon, <1>0, <2>1, <2>2 DEF RpushCommand
  <2> QED BY Zenon, <2>3, <2>4, StillFacts
<1>5. Still(s, LpopCommand(s, cmd))
  <2>1. PICK x, t, u : /\ x = Tail(s.data[k]) /\ t = [s EXCEPT !.data[k] = x]
                       /\ u = Touch(DeleteEmpty(t, k), k)
    BY Zenon
  <2>2. Still(s, t)
    BY Zenon, <1>1, <2>1
  <2>3. Still(s, Dirty(u))
    BY Zenon, <2>1, <2>2, StillThen
  <2>4. LpopCommand(s, cmd) = IF ~IsList(s.data[k]) THEN s ELSE Dirty(u)
    BY Zenon, <1>0, <2>1 DEF LpopCommand
  <2> QED BY Zenon, <2>3, <2>4, StillFacts
<1>6. Still(s, RpoplpushCommand(s, cmd))
  <2>1. PICK p, e, dst : /\ p = [s EXCEPT !.data[k] = Front(@)] /\ e = Last(s.data[k])
                         /\ dst = cmd.keys[2]
    BY Zenon
  <2>2. PICK list, h : /\ list = IF p.data[dst] = NULL THEN <<e>> ELSE <<e>> \o p.data[dst]
                       /\ h = Touch(Push(p, dst, list), dst)
    BY Zenon
  <2>3. PICK argv, u : /\ argv = Cmd("rpoplpush", cmd.keys, NULL)
                       /\ u = [Dirty(Touch(DeleteEmpty(h, k), k)) EXCEPT !.argv = argv]
    BY Zenon
  <2>4. Still(s, p) /\ DOMAIN p = Fields
    BY Zenon, <1>1, <2>1 DEF Still
  <2>5. Still(s, h)
    BY Zenon, <2>2, <2>4, PushStill, StillTrans
  <2>6. Still(s, u)
    BY Zenon, <2>3, <2>5, StillThen
  <2>7. HandlePush(p, dst, e) = h
    BY Zenon, <2>2 DEF HandlePush
  <2>8. RpoplpushCommand(s, cmd) = IF ~IsList(s.data[k]) \/ IsString(s.data[dst]) THEN s ELSE u
    BY Zenon, <1>0, <2>1, <2>3, <2>7 DEF RpoplpushCommand
  <2> QED BY Zenon, <2>6, <2>8, StillFacts
<1>7. Still(s, FlushallCommand(s))
  <2>1. Still(s, TouchOnFlush(s))
    BY Zenon, StillFacts
  <2> QED BY Zenon, <2>1, StillThen DEF FlushallCommand
<1>8. Still(s, UnwatchCommand(s, c))
  BY Zenon, StillFacts
<1> QED BY Zenon, <1>2, <1>3, <1>4, <1>5, <1>6, <1>7, <1>8

\* Between s and t client c joins lists at their end, and nobody is served.  Inside a
\* transaction it joins none.
Joins(s, t, c) ==
  /\ DOMAIN t = Fields /\ t.served = s.served
  /\ \A k \in Keys : t.blocking[k] = s.blocking[k] \/ t.blocking[k] = Append(s.blocking[k], c)
  /\ s.clients[c].multi = TRUE => Still(s, t)

\* A command may block its client, at the end of the lists of its keys.
LEMMA ProcJoins ==
  ASSUME NEW s, IsServer(s), NEW c \in Clients, NEW cmd \in CommandShape
  PROVE  Joins(s, Proc(s, c, cmd), c)
<1>0. DOMAIN s = Fields /\ s.clients[c].multi \in BOOLEAN
  BY Zenon DEF IsServer, ClientShape
<1>1. ASSUME NEW t, Still(s, t) PROVE Joins(s, t, c)
  BY Zenon, <1>1 DEF Joins, Still
<1>2. ASSUME NEW ks, s.clients[c].multi = FALSE PROVE Joins(s, Block(s, c, cmd, ks), c)
  <2>1. PICK t : t = Block(s, c, cmd, ks)
    BY Zenon
  <2>2. /\ DOMAIN t = Fields /\ t.served = s.served
        /\ t.blocking = [k \in Keys |-> IF k \in ks THEN Append(s.blocking[k], c)
                                        ELSE s.blocking[k]]
    BY Zenon, <1>0, <2>1 DEF Block, Fields
  <2> QED BY Zenon, <1>2, <2>1, <2>2 DEF Joins
<1>3. /\ Still(s, s) /\ Still(s, SetCommand(s, cmd)) /\ Still(s, DelCommand(s, cmd))
      /\ Still(s, RpushCommand(s, cmd)) /\ Still(s, LpopCommand(s, cmd))
      /\ Still(s, RpoplpushCommand(s, cmd)) /\ Still(s, FlushallCommand(s))
      /\ Still(s, UnwatchCommand(s, c))
  BY Zenon, <1>0, StillFacts, CommandsStill
<1>4. Joins(s, BlpopCommand(s, c, cmd), c)
  <2>1. PICK there : there = {j \in DOMAIN cmd.keys : s.data[cmd.keys[j]] # NULL}
    BY Zenon
  <2>2. PICK k : k = cmd.keys[CHOOSE j \in there : \A i \in there : j <= i]
    BY Zenon
  <2>3. PICK lpop, t : lpop = Cmd("lpop", <<k>>, NULL) /\ t = LpopCommand(s, lpop)
    BY Zenon
  <2>4. Still(s, t)
    BY Zenon, <1>0, <2>3, CommandsStill
  <2>5. Still(s, [t EXCEPT !.argv = lpop])
    BY Zenon, <2>4, StillThen
  <2>6. BlpopCommand(s, c, cmd) =
          IF there # {} THEN IF IsString(s.data[k]) THEN s ELSE [t EXCEPT !.argv = lpop]
          ELSE IF s.clients[c].multi THEN s ELSE Block(s, c, cmd, Range(cmd.keys))
    BY <2>1, <2>2, <2>3 DEF BlpopCommand
  <2>7. Joins(s, s, c) /\ Joins(s, [t EXCEPT !.argv = lpop], c)
    BY Zenon, <1>1, <1>3, <2>5
  <2> QED BY Zenon, <1>0, <1>2, <2>6, <2>7
<1>5. Joins(s, BrpoplpushCommand(s, c, cmd), c)
  <2>1. Joins(s, s, c) /\ Joins(s, RpoplpushCommand(s, cmd), c)
    BY Zenon, <1>1, <1>3
  <2> QED BY Zenon, <1>0, <1>2, <2>1 DEF BrpoplpushCommand
<1>6. cmd.op \in Ops
  BY Zenon, CommandFacts
<1>7. Proc(s, c, cmd) \in
        {s, SetCommand(s, cmd), DelCommand(s, cmd), RpushCommand(s, cmd), LpopCommand(s, cmd),
         BlpopCommand(s, c, cmd), RpoplpushCommand(s, cmd), BrpoplpushCommand(s, c, cmd),
         FlushallCommand(s), UnwatchCommand(s, c)}
  BY Zenon, <1>6 DEF Proc, Ops
<1> QED BY Zenon, <1>1, <1>3, <1>4, <1>5, <1>7

\* call().
LEMMA CallJoins ==
  ASSUME NEW s, IsServer(s), NEW c \in Clients, NEW cmd \in CommandShape
  PROVE  Joins(s, Call(s, c, cmd), c)
<1>1. PICK r : r = [s EXCEPT !.argv = cmd, !.dirty = FALSE]
  BY Zenon
<1>2. Still(s, r) /\ IsServer(r) /\ r.clients = s.clients
  <2>1. Still(s, r)
    BY Zenon, <1>1, StillFacts DEF IsServer
  <2>2. Same(s, r)
    BY Zenon, <1>1, SameFacts
  <2> QED BY Zenon, <2>1, <2>2 DEF Same, IsServer
<1>3. PICK t : t = Proc(r, c, cmd)
  BY Zenon
<1>4. Joins(r, t, c)
  BY Zenon, <1>2, <1>3, ProcJoins
<1>5. PICK u : u = IF t.dirty THEN Propagate(t, t.argv) ELSE t
  BY Zenon
<1>6. PICK v : v = [u EXCEPT !.argv = NULL, !.dirty = FALSE]
  BY Zenon
<1>7. Still(t, v)
  <2>1. Still(t, u)
    BY Zenon, <1>4, <1>5, StillFacts DEF Joins
  <2> QED BY Zenon, <1>6, <2>1, StillThen
<1>8. Call(s, c, cmd) = v
  BY Zenon, <1>1, <1>3, <1>5, <1>6 DEF Call
<1> QED BY Zenon, <1>2, <1>4, <1>7, <1>8 DEF Joins, Still

-----------------------------------------------------------------------------
(* Transactions. *)

\* What an event does to the flags and to the clients that wait for a handler.
Effect(s, t) ==
  /\ Flags(s, t, {}) /\ t.waiting = s.waiting
  /\ \A c \in Clients : /\ t.clients[c].state = "backend" <=> s.clients[c].state = "backend"
                        /\ s.clients[c].state = "backend" => t.clients[c].cmd = s.clients[c].cmd

\* The effects of a command, and of commands one after the other.
LEMMA EffectFacts ==
  ASSUME NEW s, NEW t, NEW u
  PROVE  /\ Part(s, t, {}) => Effect(s, t)
         /\ Effect(s, t) /\ Effect(t, u) => Effect(s, u)
<1>1. Part(s, t, {}) => Effect(s, t)
  BY Zenon DEF Part, Keeps, Effect
<1>2. ASSUME Effect(s, t), Effect(t, u)
      PROVE  Effect(s, u)
  <2>1. ASSUME NEW c \in Clients, u.clients[c].watched # {}
        PROVE  /\ u.clients[c].watched = s.clients[c].watched
               /\ s.clients[c].dirtyCas => u.clients[c].dirtyCas
               /\ \A k \in s.clients[c].watched \ {} :
                    u.data[k] # s.data[k] => u.clients[c].dirtyCas
    BY ZenonT(60), <1>2, <2>1 DEF Effect, Flags
  <2> QED BY Zenon, <1>2, <2>1 DEF Effect, Flags
<1> QED BY Zenon, <1>1, <1>2

\* A client changes, and is blocked as it was.
LEMMA ClientGood ==
  ASSUME NEW s, NEW t, NEW c \in Clients, NEW x \in ClientShape, Good(s, {}),
         DOMAIN t = Fields, t.data = s.data, t.blocking = s.blocking, t.ready = s.ready,
         t.waiting = s.waiting, t.clients = [s.clients EXCEPT ![c] = x],
         x.state = s.clients[c].state, x.cmd = s.clients[c].cmd,
         x.watched = {} \/ (x.watched = s.clients[c].watched /\ x.dirtyCas = s.clients[c].dirtyCas)
  PROVE  /\ Good(t, {}) /\ Effect(s, t) /\ Quiet(s, t)
         /\ x.multi = s.clients[c].multi => Part(s, t, {})
<1>0. IsServer(s)
  BY Zenon DEF Good
<1>1. /\ t.clients \in [Clients -> ClientShape] /\ t.clients[c] = x
      /\ \A d \in Clients \ {c} : t.clients[d] = s.clients[d]
  BY Zenon, <1>0 DEF IsServer
<1>2. \A d \in Clients :
        /\ t.clients[d].state = s.clients[d].state /\ t.clients[d].cmd = s.clients[d].cmd
        /\ \/ t.clients[d].watched = {}
           \/ /\ t.clients[d].watched = s.clients[d].watched
              /\ t.clients[d].dirtyCas = s.clients[d].dirtyCas
  BY Zenon, <1>1
<1>3. IsServer(t)
  BY ZenonT(60), <1>0, <1>1, <1>2 DEF IsServer, Blocker
<1>4. Registered(t)
  BY SMTT(30), <1>2 DEF Good, Registered, BlockedOn
<1>5. Awake(t, {}) /\ ReadyFlagged(t)
  BY ZenonT(60), <1>2 DEF Good, Awake, ReadyFlagged, Flagged
<1>6. Effect(s, t) /\ Quiet(s, t)
  BY Zenon, <1>2 DEF Effect, Flags, Quiet
<1>7. x.multi = s.clients[c].multi => Part(s, t, {})
  BY Zenon, <1>1, <1>6 DEF Effect, Part, Keeps
<1> QED BY Zenon, <1>3, <1>4, <1>5, <1>6, <1>7 DEF Good

\* discardTransaction.
LEMMA DiscardGood ==
  ASSUME NEW s, NEW c \in Clients, Good(s, {})
  PROVE  LET t == DiscardTransaction(s, c) IN Good(t, {}) /\ Effect(s, t)
<1>1. PICK u : u = UnwatchCommand(s, c)
  BY Zenon
<1>2. Good(u, {}) /\ Effect(s, u)
  BY Zenon, <1>1, UnwatchGood, EffectFacts
<1>3. PICK t : t = DiscardTransaction(s, c)
  BY Zenon
<1>4. PICK x : x = [[[u.clients[c] EXCEPT !.multi = FALSE] EXCEPT !.queue = <<>>]
                      EXCEPT !.dirtyExec = FALSE]
  BY Zenon
<1>5. /\ x \in ClientShape /\ x.state = u.clients[c].state /\ x.cmd = u.clients[c].cmd
      /\ x.watched = u.clients[c].watched /\ x.dirtyCas = u.clients[c].dirtyCas
  <2>1. u.clients[c] \in ClientShape
    BY Zenon, <1>2 DEF Good, IsServer
  <2>2. PICK y, z : /\ y = [u.clients[c] EXCEPT !.multi = FALSE] /\ z = [y EXCEPT !.queue = <<>>]
                    /\ x = [z EXCEPT !.dirtyExec = FALSE]
    BY Zenon, <1>4
  <2>3. /\ y \in ClientShape /\ y.state = u.clients[c].state /\ y.cmd = u.clients[c].cmd
        /\ y.watched = u.clients[c].watched /\ y.dirtyCas = u.clients[c].dirtyCas
    BY Zenon, <2>1, <2>2 DEF ClientShape
  <2>4. /\ z \in ClientShape /\ z.state = y.state /\ z.cmd = y.cmd
        /\ z.watched = y.watched /\ z.dirtyCas = y.dirtyCas
    <3>1. <<>> \in Seq(CommandShape)
      OBVIOUS
    <3> QED BY Zenon, <2>2, <2>3, <3>1 DEF ClientShape
  <2>5. /\ x \in ClientShape /\ x.state = z.state /\ x.cmd = z.cmd
        /\ x.watched = z.watched /\ x.dirtyCas = z.dirtyCas
    BY ZenonT(60), <2>2, <2>4 DEF ClientShape
  <2> QED BY Zenon, <2>3, <2>4, <2>5
<1>6. /\ DOMAIN t = Fields /\ t.data = u.data /\ t.blocking = u.blocking /\ t.ready = u.ready
      /\ t.waiting = u.waiting /\ t.clients = [u.clients EXCEPT ![c] = x]
  BY ZenonT(60), <1>1, <1>2, <1>3, <1>4 DEF DiscardTransaction, Good, IsServer, Fields
<1>7. Good(t, {}) /\ Effect(u, t)
  BY <1>2, <1>5, <1>6, ClientGood
<1> QED BY Zenon, <1>2, <1>3, <1>7, EffectFacts

\* The commands of a transaction, one after another.
IsFirst(queue, j) == j \in Writes(queue) /\ \A i \in Writes(queue) : j <= i

\* The states between the queued commands of EXEC.
IsCalling(g, s, c, queue, n) ==
  g = [i \in 0..n |-> IF i = 0 THEN s
                      ELSE Call(PropagateMulti(g[i - 1], IsFirst(queue, i)), c, queue[i])]

\* These states are a function.
LEMMA CallingExists ==
  ASSUME Counting, NEW s, NEW c, NEW queue, NEW n \in Nat
  PROVE  \E g : IsCalling(g, s, c, queue, n)
<1> DEFINE step(g, i) == IF i = 0 THEN s ELSE Call(PropagateMulti(g[i - 1], IsFirst(queue, i)), c, queue[i])
           Is(g, m) == g = [i \in 0..m |-> step(g, i)]
           T == {m \in Nat : ~\E g : Is(g, m)}
<1>1. T = {}
  <2> SUFFICES ASSUME T # {} PROVE FALSE
    BY Zenon
  <2>1. PICK m \in T : \A j \in T : m <= j
    <3> HIDE DEF T
    <3>1. T \in SUBSET Nat
      BY Zenon DEF T
    <3> QED BY Zenon, <3>1, Least
  <2>2. CASE m = 0
    <3> DEFINE g == [i \in 0..0 |-> s]
    <3>1. Is(g, 0)
      OBVIOUS
    <3> QED BY Zenon, <2>1, <2>2, <3>1
  <2>3. CASE m # 0
    <3>1. m \in Nat /\ m - 1 \in Nat /\ m - 1 \notin T
      <4>1. m \in Nat
        BY Zenon, <2>1
      <4> HIDE DEF T
      <4> QED BY <2>1, <2>3, <4>1
    <3>2. PICK g : Is(g, m - 1)
      BY Zenon, <3>1
    <3> DEFINE h == [i \in 0..m |-> IF i = m THEN step(g, m) ELSE g[i]]
    <3>3. \A i \in 0..m : h[i] = step(h, i)
      <4> SUFFICES ASSUME NEW i \in 0..m PROVE h[i] = step(h, i)
        BY Zenon
      <4>1. CASE i = m
        <5>1. h[m] = step(g, m) /\ h[m - 1] = g[m - 1]
          BY SMTT(30), <3>1
        <5> QED BY Zenon, <2>3, <4>1, <5>1
      <4>2. CASE i # m
        <5>1. i \in 0..(m - 1) /\ h[i] = g[i] /\ (i # 0 => h[i - 1] = g[i - 1])
          BY SMTT(30), <3>1, <4>2
        <5>2. g[i] = step(g, i)
          BY Zenon, <3>2, <5>1
        <5> QED BY Zenon, <5>1, <5>2
      <4> QED BY Zenon, <4>1, <4>2
    <3>4. Is(h, m)
      BY Zenon, <3>3
    <3> QED BY Zenon, <2>1, <3>4
  <2> QED BY Zenon, <2>2, <2>3
<1> QED BY Zenon, <1>1 DEF IsCalling

\* The queued commands, called in turn, keep what each of them keeps.
LEMMA CallQueuedGood ==
  ASSUME Counting, NEW s, NEW c \in Clients, NEW queue \in Seq(CommandShape), Good(s, {}),
         s.clients[c].state = "normal", s.clients[c].multi = TRUE
  PROVE  LET t == CallQueued(s, c, queue) IN Good(t, {}) /\ Part(s, t, {}) /\ Still(s, t)
<1>0. PICK n \in Nat : n = Len(queue)
  OBVIOUS
<1>1. \A i \in 1..n : queue[i] \in CommandShape
  BY <1>0
<1>2. PICK g : IsCalling(g, s, c, queue, n) /\ CallQueued(s, c, queue) = g[n]
  <2> DEFINE f == CHOOSE f : IsCalling(f, s, c, queue, n)
  <2>1. IsCalling(f, s, c, queue, n)
    <3>1. \E g : IsCalling(g, s, c, queue, n)
      BY Zenon, <1>0, CallingExists
    <3> QED BY Zenon, <3>1
  <2>2. CallQueued(s, c, queue) = f[n]
    BY Zenon, <1>0 DEF CallQueued, IsCalling, IsFirst
  <2> QED BY Zenon, <2>1, <2>2
<1>3. /\ g[0] = s
      /\ \A i \in 1..n : g[i] = Call(PropagateMulti(g[i - 1], IsFirst(queue, i)), c, queue[i])
  <2>1. \A i \in 0..n : g[i] = IF i = 0 THEN s
                               ELSE Call(PropagateMulti(g[i - 1], IsFirst(queue, i)), c, queue[i])
    BY Zenon, <1>2 DEF IsCalling
  <2>2. 0 \in 0..n /\ \A i \in 1..n : i \in 0..n /\ i # 0
    BY SMTT(30), <1>0
  <2> QED BY Zenon, <2>1, <2>2
<1> DEFINE Fine(i) == /\ Good(g[i], {}) /\ Part(s, g[i], {}) /\ Still(s, g[i])
                      /\ g[i].clients[c].state = "normal"
           T == {i \in Nat : i <= n /\ ~Fine(i)}
<1>4. Fine(0)
  BY Zenon, <1>3, PartWeaker, StillFacts DEF Good, IsServer
<1>5. ASSUME NEW i \in 1..n, Fine(i - 1)
      PROVE  Fine(i)
  <2>1. PICK r, p, t : /\ r = g[i - 1] /\ p = PropagateMulti(r, IsFirst(queue, i))
                       /\ t = Call(p, c, queue[i])
    BY Zenon
  <2>2. Good(r, {}) /\ Part(s, r, {}) /\ Still(s, r) /\ r.clients[c].state = "normal"
    BY Zenon, <1>5, <2>1
  <2>3. Same(r, p)
    BY Zenon, <2>1, <2>2, SameFacts DEF PropagateMulti, Good
  <2>4. Good(p, {}) /\ Part(s, p, {}) /\ p.clients[c].state = "normal"
    BY Zenon, <2>2, <2>3, SameGood, SamePart DEF Same
  <2>5. p.clients[c].multi = TRUE
    BY Zenon, <2>4 DEF Part, Keeps
  <2>6. Executes(p, t, c)
    BY Zenon, <1>1, <2>1, <2>4, CallGood
  <2>7. Part(s, t, {})
    BY Zenon, <2>4, <2>6, PartTrans DEF Executes
  <2>8. g[i] = t
    BY Zenon, <1>3, <2>1
  <2>9. Still(s, t)
    <3>1. Still(s, p)
      BY Zenon, <2>1, <2>2, StillThen DEF PropagateMulti
    <3>2. Still(p, t)
      BY Zenon, <1>1, <2>1, <2>4, <2>5, CallJoins DEF Joins, Good
    <3> QED BY Zenon, <3>1, <3>2, StillTrans
  <2> QED BY Zenon, <2>5, <2>6, <2>7, <2>8, <2>9 DEF Executes
<1> HIDE DEF Fine
<1>6. T = {}
  <2> SUFFICES ASSUME T # {} PROVE FALSE
    BY Zenon
  <2>1. PICK i \in T : \A j \in T : i <= j
    <3> HIDE DEF T
    <3>1. T \in SUBSET Nat
      BY Zenon DEF T
    <3> QED BY Zenon, <3>1, Least
  <2>2. i \in Nat /\ i <= n /\ ~Fine(i)
    BY Zenon, <2>1
  <2>3. i # 0
    BY Zenon, <1>4, <2>2
  <2>4. i \in 1..n /\ i - 1 \in Nat /\ i - 1 <= n /\ i - 1 \notin T
    <3> HIDE DEF T
    <3> QED BY <1>0, <2>1, <2>2, <2>3
  <2> QED BY Zenon, <1>5, <2>2, <2>4
<1>7. Fine(n)
  BY SMTT(30), <1>0, <1>6
<1> QED BY Zenon, <1>2, <1>7 DEF Fine

\* discardTransaction leaves the lists alone.
LEMMA DiscardStill ==
  ASSUME NEW s, DOMAIN s = Fields, NEW c
  PROVE  Still(s, DiscardTransaction(s, c))
<1>1. PICK u : u = UnwatchCommand(s, c)
  BY Zenon
<1>2. Still(s, u) /\ DOMAIN u = Fields
  BY <1>1, StillFacts DEF Still
<1>3. Still(u, DiscardTransaction(s, c))
  BY Zenon, <1>1, <1>2 DEF DiscardTransaction, Still, Fields
<1> QED BY Zenon, <1>2, <1>3, StillTrans

\* execCommand.
LEMMA ExecGood ==
  ASSUME Counting, NEW s, NEW c \in Clients, Good(s, {}),
         s.clients[c].state = "normal", s.clients[c].multi = TRUE
  PROVE  LET t == ExecCommand(s, c) IN Good(t, {}) /\ Effect(s, t) /\ Still(s, t)
<1>0. IsServer(s) /\ s.clients[c] \in ClientShape
  BY Zenon DEF Good, IsServer
<1>1. PICK queue \in Seq(CommandShape) : queue = s.clients[c].queue
  BY Zenon, <1>0 DEF ClientShape
<1>2. PICK r : r = [s EXCEPT !.clients[c].watched = {}]
  BY Zenon
<1>3. PICK x : x = [s.clients[c] EXCEPT !.watched = {}]
  BY Zenon
<1>4. /\ x \in ClientShape /\ x.state = s.clients[c].state /\ x.cmd = s.clients[c].cmd
      /\ x.watched = {} /\ x.multi = s.clients[c].multi
  BY Zenon, <1>0, <1>3 DEF ClientShape
<1>5. /\ DOMAIN r = Fields /\ r.data = s.data /\ r.blocking = s.blocking /\ r.ready = s.ready
      /\ r.waiting = s.waiting /\ r.clients = [s.clients EXCEPT ![c] = x]
  BY Zenon, <1>0, <1>2, <1>3 DEF IsServer, Fields
<1>6. Good(r, {}) /\ Effect(s, r) /\ r.clients[c] = x
  <2>1. r.clients[c] = x
    BY Zenon, <1>0, <1>5 DEF IsServer
  <2> QED BY Zenon, <1>4, <1>5, <2>1, ClientGood
<1>7. PICK t : t = CallQueued(r, c, queue)
  BY Zenon
<1>8. Good(t, {}) /\ Part(r, t, {}) /\ Still(r, t)
  BY Zenon, <1>1, <1>4, <1>6, <1>7, CallQueuedGood
<1>9. PICK u : u = DiscardTransaction(t, c)
  BY Zenon
<1>10. Good(u, {}) /\ Effect(t, u)
  BY Zenon, <1>8, <1>9, DiscardGood
<1>11. PICK v : v = PropagateExec(u, Writes(queue) # {})
  BY Zenon
<1>12. Same(u, v)
  BY Zenon, <1>10, <1>11, SameFacts DEF PropagateExec, Good
<1>13. Good(v, {}) /\ Effect(s, v)
  <2>1. Effect(s, u)
    BY Zenon, <1>6, <1>8, <1>10, EffectFacts
  <2>2. Effect(s, v)
    BY <1>12, <2>1 DEF Same, Effect, Flags
  <2> QED BY Zenon, <1>10, <1>12, <2>2, SameGood
<1>14. ExecCommand(s, c) =
         IF s.clients[c].dirtyCas \/ s.clients[c].dirtyExec THEN DiscardTransaction(s, c) ELSE v
  BY Zenon, <1>1, <1>2, <1>7, <1>9, <1>11 DEF ExecCommand
<1>15. Still(s, v) /\ Still(s, DiscardTransaction(s, c))
  <2>1. DOMAIN s = Fields /\ DOMAIN t = Fields
    BY Zenon, <1>0, <1>8 DEF IsServer, Still
  <2>2. Still(s, r)
    BY Zenon, <1>2, <2>1 DEF Still, Fields
  <2>3. Still(t, u) /\ Still(s, DiscardTransaction(s, c))
    BY Zenon, <1>9, <2>1, DiscardStill
  <2>4. Still(s, u)
    BY Zenon, <1>8, <2>2, <2>3, StillTrans
  <2> QED BY Zenon, <1>11, <2>3, <2>4, StillThen DEF PropagateExec
<1> QED BY Zenon, <1>13, <1>14, <1>15, DiscardGood

\* What follows a command, and a transaction.
LEMMA AfterGood ==
  ASSUME Counting, NEW s, Good(s, {})
  PROVE  LET t == After(s) IN Good(t, {}) /\ Effect(s, t) /\ t.ready = <<>> /\ Order(s, t)
<1>1. PICK b : b = Between(s)
  BY Zenon
<1>2. Same(s, b)
  BY Zenon, <1>1, SameFacts DEF Good
<1>3. Good(b, {})
  BY Zenon, <1>2, SameGood
<1>4. PICK t : t = HandleClients(b)
  BY Zenon
<1>5. Good(t, {}) /\ Part(b, t, {}) /\ t.ready = <<>> /\ Order(b, t)
  BY Zenon, <1>3, <1>4, HandleClientsGood
<1>6. Effect(s, t)
  BY Zenon, <1>2, <1>5, SamePart, EffectFacts
<1>7. After(s) = t
  BY Zenon, <1>1, <1>4 DEF After
<1>8. Order(s, t)
  <2>1. Still(s, b)
    BY Zenon, <1>1, StillFacts DEF Good, IsServer
  <2> QED BY Zenon, <1>5, <2>1, StillOrder
<1> QED BY Zenon, <1>5, <1>6, <1>7, <1>8

-----------------------------------------------------------------------------
(* The events. *)

\* An event begins with the server as the last one left it.
LEMMA BeginFacts ==
  ASSUME IInv
  PROVE  Same(server, Begin) /\ Good(Begin, {}) /\ Begin.ready = <<>> /\ Part(server, Begin, {})
<1>1. IsServer(server)
  BY Zenon DEF IInv, Good
<1>2. Same(server, Begin)
  BY Zenon, <1>1 DEF Same, Begin, IsServer, Fields
<1>3. Good(server, {}) /\ server.ready = <<>>
  BY Zenon DEF IInv
<1>4. Part(server, server, {})
  BY Zenon, PartWeaker
<1>5. Good(Begin, {}) /\ Part(server, Begin, {})
  BY Zenon, <1>2, <1>3, <1>4, SameGood, SamePart
<1> QED BY Zenon, <1>2, <1>3, <1>5 DEF Same

\* Who may send what.
LEMMA SituationFacts ==
  ASSUME IInv
  PROVE  /\ situation.clients \subseteq Clients /\ situation.users \subseteq Clients
         /\ situation.commands \subseteq CommandShape /\ situation.queued \subseteq CommandShape
BY Zenon, TransactionsAssumption DEF IInv, SituationShape

\* What is remembered of changes.
Recorded == changed' = {c \in Clients : Watching(c)} /\ UNCHANGED situation

\* Who is recorded as changed has its flag after a step that sets the flags it has to.
LEMMA RecordedKeeps ==
  ASSUME IInv, Recorded, Flags(server, server', {})
  PROVE  /\ ChangedIsFlagged' /\ changed' \subseteq Clients /\ (situation \in Situations)'
         /\ \A c \in changed' : server'.clients[c].watched # {}
<1>1. \A c \in changed' : c \in Clients /\ Watching(c)
  BY Zenon DEF Recorded
<1>2. situation' \in Situations
  BY Zenon DEF Recorded, IInv
<1>3. ASSUME NEW c \in changed'
      PROVE  server'.clients[c].dirtyCas
  BY Zenon, <1>1 DEF Watching, Flags, IInv, ChangedIsFlagged
<1>4. \A c \in changed' : server'.clients[c].watched # {}
  BY Zenon, <1>1 DEF Watching
<1> QED BY Zenon, <1>1, <1>2, <1>3, <1>4 DEF ChangedIsFlagged

\* The clients that wait for handlers stay as they are.
LEMMA WaitersKept ==
  ASSUME NEW s, NEW t, IsServer(s), Waiters(s), Effect(s, t)
  PROVE  Waiters(t)
<1>1. /\ \A k \in Keys : Getters(t, k) = Getters(s, k)
      /\ \A c \in Clients : WaitsFor(t.clients[c]) = WaitsFor(s.clients[c])
  BY Zenon DEF Effect, Getters, WaitsFor
<1> QED BY Zenon, <1>1 DEF Waiters

\* An event of which r is the beginning.
LEMMA EventKeeps ==
  ASSUME IInv, Recorded, NEW r, Good(r, {}), Waiters(r), Flags(server, r, {}),
         Effect(r, server'), Good(server', {}), server'.ready = <<>>
  PROVE  IInv'
<1>1. Flags(server, server', {})
  <2>1. ASSUME NEW c \in Clients, server'.clients[c].watched # {}
        PROVE  /\ server'.clients[c].watched = server.clients[c].watched
               /\ server.clients[c].dirtyCas => server'.clients[c].dirtyCas
               /\ \A k \in server.clients[c].watched \ {} :
                    server'.data[k] # server.data[k] => server'.clients[c].dirtyCas
    BY SMTT(30), <2>1 DEF Effect, Flags
  <2> QED BY Zenon, <2>1 DEF Flags
<1>2. Waiters(server')
  BY Zenon, WaitersKept DEF Good
<1> QED BY Zenon, <1>1, <1>2, RecordedKeeps DEF IInv

\* An event that does what commands do, and leaves no key ready, keeps the invariant.
LEMMA BeginEventKeeps ==
  ASSUME IInv, Recorded, Effect(Begin, server'), Good(server', {}), server'.ready = <<>>
  PROVE  IInv'
<1>1. PICK r : r = Begin
  BY Zenon
<1>2. /\ Good(r, {}) /\ Flags(server, r, {}) /\ Part(server, r, {})
  BY Zenon, <1>1, BeginFacts DEF Part
<1>3. Waiters(r)
  BY Zenon, <1>2, WaitersKept, EffectFacts DEF IInv, Good
<1> QED BY Zenon, <1>1, <1>2, <1>3, EventKeeps

\* A command is queued.
LEMMA QueueKeeps ==
  ASSUME IInv, Recorded, NEW c \in situation.users, NEW cmd \in situation.queued,
         QueueMultiCommand(c, cmd)
  PROVE  IInv'
<1>0. c \in Clients /\ cmd \in CommandShape
  BY Zenon, SituationFacts
<1>1. PICK r : r = Begin
  BY Zenon
<1>2. Good(r, {}) /\ r.ready = <<>> /\ IsServer(r) /\ r.clients[c] \in ClientShape
  BY Zenon, <1>0, <1>1, BeginFacts DEF Good, IsServer
<1>3. PICK x : x = [r.clients[c] EXCEPT !.queue = Append(@, cmd)]
  BY Zenon
<1>4. /\ x \in ClientShape /\ x.state = r.clients[c].state /\ x.cmd = r.clients[c].cmd
      /\ x.watched = r.clients[c].watched /\ x.dirtyCas = r.clients[c].dirtyCas
  <2>1. PICK queue \in Seq(CommandShape) : queue = Append(r.clients[c].queue, cmd)
    <3>1. r.clients[c].queue \in Seq(CommandShape)
      BY Zenon, <1>2 DEF ClientShape
    <3>2. Append(r.clients[c].queue, cmd) \in Seq(CommandShape)
      BY <1>0, <3>1
    <3> QED BY Zenon, <3>2
  <2>2. x = [r.clients[c] EXCEPT !.queue = queue]
    BY Zenon, <1>3, <2>1
  <2> QED BY Zenon, <1>2, <2>1, <2>2 DEF ClientShape
<1>5. PICK t : t = [r EXCEPT !.clients[c].queue = Append(@, cmd)]
  BY Zenon
<1>6. /\ DOMAIN t = Fields /\ t.data = r.data /\ t.blocking = r.blocking /\ t.ready = r.ready
      /\ t.waiting = r.waiting /\ t.clients = [r.clients EXCEPT ![c] = x]
  BY Zenon, <1>2, <1>3, <1>5 DEF IsServer, Fields
<1>7. Good(t, {}) /\ Effect(r, t)
  BY ZenonT(60), <1>0, <1>2, <1>4, <1>6, ClientGood
<1>8. server' = t
  BY Zenon, <1>1, <1>5 DEF QueueMultiCommand
<1> QED BY Zenon, <1>1, <1>2, <1>6, <1>7, <1>8, BeginEventKeeps

\* A command that is refused flags the transaction.
LEMMA FlagKeeps ==
  ASSUME IInv, Recorded, NEW c \in situation.users, FlagTransaction(c)
  PROVE  IInv'
<1>0. c \in Clients
  BY Zenon, SituationFacts
<1>1. PICK r : r = Begin
  BY Zenon
<1>2. Good(r, {}) /\ r.ready = <<>> /\ IsServer(r) /\ r.clients[c] \in ClientShape
  BY Zenon, <1>0, <1>1, BeginFacts DEF Good, IsServer
<1>3. PICK x : x = [r.clients[c] EXCEPT !.dirtyExec = TRUE]
  BY Zenon
<1>4. /\ x \in ClientShape /\ x.state = r.clients[c].state /\ x.cmd = r.clients[c].cmd
      /\ x.watched = r.clients[c].watched /\ x.dirtyCas = r.clients[c].dirtyCas
  BY Zenon, <1>0, <1>2, <1>3 DEF ClientShape
<1>5. PICK t : t = [r EXCEPT !.clients[c].dirtyExec = TRUE]
  BY Zenon
<1>6. /\ DOMAIN t = Fields /\ t.data = r.data /\ t.blocking = r.blocking /\ t.ready = r.ready
      /\ t.waiting = r.waiting /\ t.clients = [r.clients EXCEPT ![c] = x]
  BY Zenon, <1>2, <1>3, <1>5 DEF IsServer, Fields
<1>7. Good(t, {}) /\ Effect(r, t)
  BY ZenonT(60), <1>0, <1>2, <1>4, <1>6, ClientGood
<1>8. server' = t
  BY Zenon, <1>1, <1>5 DEF FlagTransaction
<1> QED BY Zenon, <1>1, <1>2, <1>6, <1>7, <1>8, BeginEventKeeps

\* MULTI.
LEMMA MultiKeeps ==
  ASSUME IInv, Recorded, NEW c \in situation.users, Multi(c)
  PROVE  IInv'
<1>0. c \in Clients
  BY Zenon, SituationFacts
<1>1. PICK r : r = Begin
  BY Zenon
<1>2. Good(r, {}) /\ r.ready = <<>> /\ IsServer(r) /\ r.clients[c] \in ClientShape
  BY Zenon, <1>0, <1>1, BeginFacts DEF Good, IsServer
<1>3. PICK x : x = [r.clients[c] EXCEPT !.multi = TRUE]
  BY Zenon
<1>4. /\ x \in ClientShape /\ x.state = r.clients[c].state /\ x.cmd = r.clients[c].cmd
      /\ x.watched = r.clients[c].watched /\ x.dirtyCas = r.clients[c].dirtyCas
  BY Zenon, <1>0, <1>2, <1>3 DEF ClientShape
<1>5. PICK t : t = [r EXCEPT !.clients[c].multi = TRUE]
  BY Zenon
<1>6. /\ DOMAIN t = Fields /\ t.data = r.data /\ t.blocking = r.blocking /\ t.ready = r.ready
      /\ t.waiting = r.waiting /\ t.clients = [r.clients EXCEPT ![c] = x]
  BY Zenon, <1>2, <1>3, <1>5 DEF IsServer, Fields
<1>7. Good(t, {}) /\ Effect(r, t)
  BY Zenon, <1>0, <1>2, <1>4, <1>6, ClientGood
<1>8. server' = t
  BY Zenon, <1>1, <1>5 DEF Multi
<1> QED BY Zenon, <1>1, <1>2, <1>6, <1>7, <1>8, BeginEventKeeps

\* DISCARD.
LEMMA DiscardKeeps ==
  ASSUME IInv, Recorded, NEW c \in situation.users, Discard(c)
  PROVE  IInv'
<1>0. c \in Clients
  BY Zenon, SituationFacts
<1>1. PICK r : r = Begin
  BY Zenon
<1>2. Good(r, {}) /\ r.ready = <<>>
  BY Zenon, <1>1, BeginFacts
<1>3. PICK t : t = DiscardTransaction(r, c)
  BY Zenon
<1>4. Good(t, {}) /\ Effect(r, t)
  BY Zenon, <1>0, <1>2, <1>3, DiscardGood
<1>5. t.ready = <<>>
  BY Zenon, <1>2, <1>3 DEF DiscardTransaction, UnwatchCommand, Good, IsServer, Fields
<1>6. server' = t
  BY Zenon, <1>1, <1>3 DEF Discard
<1> QED BY Zenon, <1>1, <1>4, <1>5, <1>6, BeginEventKeeps

\* EXEC.
LEMMA ExecKeeps ==
  ASSUME Counting, IInv, Recorded, NEW c \in situation.users, Exec(c)
  PROVE  IInv'
<1>0. c \in Clients
  BY Zenon, SituationFacts
<1>1. PICK r : r = Begin
  BY Zenon
<1>2. Good(r, {}) /\ r.clients = server.clients
  BY Zenon, <1>1, BeginFacts DEF Same
<1>3. r.clients[c].state = "normal" /\ r.clients[c].multi = TRUE
  <2>1. r.clients[c].state = "normal" /\ r.clients[c].multi
    BY Zenon, <1>2 DEF Exec, InMulti, Ready
  <2>2. r.clients[c].multi \in BOOLEAN
    BY Zenon, <1>0, <1>2 DEF Good, IsServer, ClientShape
  <2> QED BY Zenon, <2>1, <2>2
<1>4. PICK t : t = ExecCommand(r, c)
  BY Zenon
<1>5. Good(t, {}) /\ Effect(r, t)
  BY Zenon, <1>0, <1>2, <1>3, <1>4, ExecGood
<1>6. PICK u : u = After(t)
  BY Zenon
<1>7. Good(u, {}) /\ Effect(t, u) /\ u.ready = <<>>
  BY Zenon, <1>5, <1>6, AfterGood
<1>8. server' = u
  BY Zenon, <1>1, <1>4, <1>6 DEF Exec
<1>9. Effect(r, u)
  BY Zenon, <1>5, <1>7, EffectFacts
<1> QED BY Zenon, <1>1, <1>7, <1>8, <1>9, BeginEventKeeps

\* A command outside a transaction.
LEMMA RunKeeps ==
  ASSUME Counting, IInv, Recorded, NEW c \in situation.clients, NEW cmd \in situation.commands, Run(c, cmd)
  PROVE  IInv'
<1>0. c \in Clients /\ cmd \in CommandShape
  BY Zenon, SituationFacts
<1>1. PICK r : r = Begin
  BY Zenon
<1>2. Good(r, {}) /\ r.clients[c].state = "normal"
  BY Zenon, <1>1, BeginFacts DEF Same, Run, Ready
<1>3. PICK t : t = Call(r, c, cmd)
  BY Zenon
<1>4. Good(t, {}) /\ Effect(r, t)
  BY Zenon, <1>0, <1>2, <1>3, CallGood, EffectFacts DEF Executes
<1>5. PICK u : u = After(t)
  BY Zenon
<1>6. Good(u, {}) /\ Effect(t, u) /\ u.ready = <<>>
  BY Zenon, <1>4, <1>5, AfterGood
<1>7. server' = u
  BY Zenon, <1>1, <1>3, <1>5 DEF Run
<1>8. Effect(r, u)
  BY Zenon, <1>4, <1>6, EffectFacts
<1> QED BY Zenon, <1>1, <1>6, <1>7, <1>8, BeginEventKeeps

\* handleBlockedClientsTimeout.
LEMMA TimeoutKeeps ==
  ASSUME Counting, IInv, Recorded, NEW c \in Clients, Timeout(c)
  PROVE  IInv'
<1>1. PICK r : r = Begin
  BY Zenon
<1>2. Good(r, {}) /\ r.ready = <<>> /\ r.clients[c].state # "backend"
  BY Zenon, <1>1, BeginFacts DEF Same, Timeout
<1>3. PICK t : t = Unblock(r, c)
  BY Zenon
<1>4. Good(t, {}) /\ Part(r, t, {}) /\ t.ready = <<>>
  BY Zenon, <1>2, <1>3, UnblockGood
<1>5. server' = t
  BY Zenon, <1>1, <1>3 DEF Timeout
<1> QED BY Zenon, <1>1, <1>4, <1>5, BeginEventKeeps, EffectFacts

\* A key that is watched from now on has not changed yet.
LEMMA WatchKeeps ==
  ASSUME IInv, Recorded, NEW c \in situation.users, NEW k \in Keys, WatchForKey(c, k)
  PROVE  IInv'
<1>0. c \in Clients
  BY Zenon, SituationFacts
<1>1. PICK r : r = Begin
  BY Zenon
<1>2. /\ Good(r, {}) /\ r.ready = <<>> /\ Same(server, r) /\ IsServer(r)
      /\ r.clients[c] \in ClientShape
  BY Zenon, <1>0, <1>1, BeginFacts DEF Good, IsServer
<1>3. PICK x : x = [r.clients[c] EXCEPT !.watched = @ \union {k}]
  BY Zenon
<1>4. /\ x \in ClientShape /\ x.state = r.clients[c].state /\ x.cmd = r.clients[c].cmd
      /\ x.dirtyCas = r.clients[c].dirtyCas /\ r.clients[c].watched \subseteq x.watched
  BY Zenon, <1>2, <1>3 DEF ClientShape
<1>5. PICK t : t = [r EXCEPT !.clients[c].watched = @ \union {k}]
  BY Zenon
<1>6. /\ DOMAIN t = Fields /\ t.data = r.data /\ t.blocking = r.blocking /\ t.ready = r.ready
      /\ t.waiting = r.waiting /\ t.clients = [r.clients EXCEPT ![c] = x]
  BY Zenon, <1>2, <1>3, <1>5 DEF IsServer, Fields
<1>7. /\ t.clients \in [Clients -> ClientShape]
      /\ \A d \in Clients : /\ t.clients[d].state = r.clients[d].state
                            /\ t.clients[d].cmd = r.clients[d].cmd
                            /\ t.clients[d].dirtyCas = r.clients[d].dirtyCas
  <2>1. t.clients[c] = x /\ \A d \in Clients \ {c} : t.clients[d] = r.clients[d]
    BY Zenon, <1>0, <1>2, <1>6 DEF IsServer
  <2> QED BY Zenon, <1>2, <1>4, <1>6, <2>1 DEF IsServer
<1>8. IsServer(t)
  BY Zenon, <1>2, <1>6, <1>7 DEF IsServer, Blocker
<1>9. Registered(t) /\ Awake(t, {})
  BY SMTT(30), <1>2, <1>6, <1>7 DEF Good, Registered, BlockedOn, Awake
<1>10. ReadyFlagged(t)
  <2>1. Range(<<>>) = {} /\ IsInjective(<<>>)
    BY DEF Range, IsInjective
  <2> QED BY Zenon, <1>2, <1>6, <2>1 DEF ReadyFlagged
<1>11. Good(t, {}) /\ server' = t
  BY Zenon, <1>1, <1>5, <1>8, <1>9, <1>10 DEF Good, WatchForKey
<1>12. Waiters(t)
  <2>1. /\ \A j \in Keys : Getters(t, j) = Getters(server, j)
        /\ \A d \in Clients : WaitsFor(t.clients[d]) = WaitsFor(server.clients[d])
    BY Zenon, <1>2, <1>6, <1>7 DEF Same, Getters, WaitsFor
  <2> QED BY Zenon, <2>1 DEF IInv, Waiters
<1>13. \A d \in changed' : d \in Clients /\ Watching(d)
  BY Zenon DEF Recorded
<1>14. ChangedIsFlagged'
  <2> SUFFICES ASSUME NEW d \in changed' PROVE server'.clients[d].dirtyCas
    BY Zenon DEF ChangedIsFlagged
  <2>1. server'.data = server.data
    BY Zenon, <1>2, <1>6, <1>11 DEF Same
  <2>2. d \in changed /\ d \in Clients
    BY Zenon, <1>13, <2>1 DEF Watching
  <2>3. server.clients[d].dirtyCas
    BY Zenon, <2>2 DEF IInv, ChangedIsFlagged
  <2>4. r.clients = server.clients
    BY Zenon, <1>2 DEF Same
  <2> QED BY Zenon, <1>7, <1>11, <2>2, <2>3, <2>4
<1>15. changed' \subseteq Clients /\ \A d \in changed' : server'.clients[d].watched # {}
  BY Zenon, <1>13 DEF Watching
<1>16. situation' \in Situations
  BY Zenon DEF IInv, Recorded
<1> QED BY Zenon, <1>2, <1>6, <1>11, <1>12, <1>14, <1>15, <1>16 DEF IInv

\* A client waits for one key, and NULL is no list.
LEMMA WaitingFacts ==
  /\ \A x, j, k : j \in WaitsFor(x) /\ k \in WaitsFor(x) => j = k
  /\ \A x : x.state # "backend" => WaitsFor(x) = {}
  /\ NULL \notin Seq(Clients) /\ Range(<<>>) = {} /\ IsInjective(<<>>) /\ <<>> \in Seq(Clients)
<1>1. Range(<<>>) = {} /\ IsInjective(<<>>) /\ <<>> \in Seq(Clients)
  BY SMTT(30) DEF Range, IsInjective
<1> QED BY Zenon, <1>1, TransactionsAssumption DEF WaitsFor

\* A get that waits, or with redisoo_get_sync off one that has the value fetched for
\* later ones.
LEMMA GetKeeps ==
  ASSUME Counting, IInv, Recorded, NEW c \in situation.clients, NEW cmd \in situation.commands,
         GetFromBackend(c, cmd)
  PROVE  IInv'
<1>0. c \in Clients /\ cmd \in CommandShape
  BY Zenon, SituationFacts
<1>1. PICK k \in Keys : k = cmd.keys[1]
  BY Zenon, <1>0, CommandFacts DEF GetFromBackend, NeedsBackend
<1>2. PICK b : b = Begin
  BY Zenon
<1>3. /\ Good(b, {}) /\ IsServer(b) /\ b.ready = <<>> /\ Part(server, b, {}) /\ Same(server, b)
      /\ b.clients[c].state = "normal"
  BY Zenon, <1>2, BeginFacts DEF Good, Same, GetFromBackend, Ready
<1>4. PICK queued : queued = Getters(b, k)
  BY Zenon
<1>5. Waiters(b)
  BY Zenon, <1>3, WaitersKept, EffectFacts DEF IInv, Good
<1>6. /\ queued \in Seq(Clients) /\ IsInjective(queued)
      /\ WaitsFor(b.clients[c]) = {} /\ c \notin Range(queued)
  BY Zenon, <1>0, <1>3, <1>4, <1>5, WaitingFacts DEF Waiters
<1>7. server' = IF situation.sync
                THEN [b EXCEPT !.clients[c].state = "backend", !.clients[c].cmd = cmd,
                               !.waiting[k] = Append(queued, c)]
                ELSE After(Call([b EXCEPT !.waiting[k] = queued], c, cmd))
  <2>1. Getters(b, k) = Getters(server, k)
    BY Zenon, <1>3 DEF Same, Getters
  <2> QED BY Zenon, <1>1, <1>2, <1>4, <2>1 DEF GetFromBackend
<1>8. CASE situation.sync
  <2>1. PICK t : t = [b EXCEPT !.clients[c].state = "backend", !.clients[c].cmd = cmd,
                               !.waiting[k] = Append(queued, c)]
    BY Zenon
  <2>2. PICK x : x = [[b.clients[c] EXCEPT !.state = "backend"] EXCEPT !.cmd = cmd]
    BY Zenon
  <2>3. /\ x \in ClientShape /\ x.state = "backend" /\ x.cmd = cmd
        /\ x.watched = b.clients[c].watched /\ x.dirtyCas = b.clients[c].dirtyCas
    <3>1. b.clients[c] \in ClientShape
      BY Zenon, <1>0, <1>3 DEF IsServer
    <3> QED BY Zenon, <1>0, <2>2, <3>1 DEF ClientShape
  <2>4. /\ DOMAIN t = Fields /\ t.data = b.data /\ t.blocking = b.blocking /\ t.ready = b.ready
        /\ t.waiting = [b.waiting EXCEPT ![k] = Append(queued, c)]
        /\ t.clients = [b.clients EXCEPT ![c] = x]
    BY Zenon, <1>3, <2>1, <2>2 DEF IsServer, Fields
  <2>5. /\ t.clients \in [Clients -> ClientShape] /\ t.clients[c] = x
        /\ \A d \in Clients \ {c} : t.clients[d] = b.clients[d]
    BY ZenonT(60), <1>0, <1>3, <2>3, <2>4 DEF IsServer
  <2>6. \A d \in Clients : /\ BlockedOn(t.clients[d]) = BlockedOn(b.clients[d])
                           /\ Blocker(t.clients[d])
                           /\ t.clients[d].watched = b.clients[d].watched
                           /\ t.clients[d].dirtyCas = b.clients[d].dirtyCas
    BY ZenonT(60), <1>3, <2>3, <2>5 DEF BlockedOn, Blocker, IsServer
  <2>7. IsServer(t)
    BY Zenon, <1>3, <2>4, <2>5, <2>6 DEF IsServer
  <2>8. Good(t, {})
    BY Zenon, <1>3, <2>4, <2>6, <2>7 DEF Good, Registered, Awake, ReadyFlagged, Flagged
  <2>9. Flags(server, t, {})
    <3>1. b.clients = server.clients /\ b.data = server.data
      BY Zenon, <1>3 DEF Same
    <3> QED BY Zenon, <2>4, <2>6, <3>1 DEF Flags
  <2>10. Waiters(t)
    <3>1. t.waiting[k] = Append(queued, c) /\ \A j \in Keys \ {k} : t.waiting[j] = b.waiting[j]
      BY Zenon, <1>1, <1>3, <2>4 DEF IsServer
    <3>2. /\ Append(queued, c) \in Seq(Clients) /\ IsInjective(Append(queued, c))
          /\ Range(Append(queued, c)) = Range(queued) \union {c}
      BY <1>0, <1>6, AppendFacts
    <3>3. Getters(t, k) = Append(queued, c) /\ \A j \in Keys \ {k} : Getters(t, j) = Getters(b, j)
      BY Zenon, <3>1, <3>2, WaitingFacts DEF Getters
    <3>4. /\ WaitsFor(t.clients[c]) = {k}
          /\ \A d \in Clients \ {c} : WaitsFor(t.clients[d]) = WaitsFor(b.clients[d])
      BY Zenon, <1>1, <2>3, <2>5 DEF WaitsFor
    <3>5. ASSUME NEW j \in Keys, NEW d \in Clients
          PROVE  d \in Range(Getters(t, j)) <=> j \in WaitsFor(t.clients[d])
      <4>1. d \in Range(Getters(b, j)) <=> j \in WaitsFor(b.clients[d])
        BY Zenon, <1>5 DEF Waiters
      <4>2. CASE d = c
        BY Zenon, <1>6, <3>2, <3>3, <3>4, <4>1, <4>2
      <4>3. CASE d # c
        BY Zenon, <1>4, <3>2, <3>3, <3>4, <4>1, <4>3
      <4> QED BY Zenon, <4>2, <4>3
    <3>6. \A j \in Keys : Getters(t, j) \in Seq(Clients) /\ IsInjective(Getters(t, j))
      BY Zenon, <1>5, <3>2, <3>3 DEF Waiters
    <3> QED BY Zenon, <3>5, <3>6 DEF Waiters
  <2>11. server' = t
    BY Zenon, <1>7, <1>8, <2>1
  <2> QED BY Zenon, <1>3, <2>4, <2>8, <2>9, <2>10, <2>11, RecordedKeeps DEF IInv
<1>9. CASE ~situation.sync
  <2>1. PICK r : r = [b EXCEPT !.waiting[k] = queued]
    BY Zenon
  <2>2. /\ DOMAIN r = Fields /\ r.data = b.data /\ r.blocking = b.blocking /\ r.ready = b.ready
        /\ r.clients = b.clients /\ DOMAIN r.waiting = Keys /\ r.waiting[k] = queued
        /\ \A j \in Keys \ {k} : r.waiting[j] = b.waiting[j]
    BY Zenon, <1>1, <1>3, <2>1 DEF IsServer, Fields
  <2>3. Good(r, {})
    BY Zenon, <1>3, <2>2 DEF Good, IsServer, Registered, Awake, ReadyFlagged, Flagged
  <2>4. Flags(server, r, {})
    BY ZenonT(60), <1>3, <2>2 DEF Part, Flags
  <2>5. Waiters(r)
    <3>1. \A j \in Keys : Getters(r, j) = Getters(b, j)
      BY Zenon, <1>4, <1>6, <2>2, WaitingFacts DEF Getters
    <3> QED BY Zenon, <1>5, <2>2, <3>1 DEF Waiters
  <2>6. PICK t : t = Call(r, c, cmd)
    BY Zenon
  <2>7. Good(t, {}) /\ Effect(r, t)
    BY Zenon, <1>0, <1>3, <2>2, <2>3, <2>6, CallGood, EffectFacts DEF Executes
  <2>8. PICK u : u = After(t)
    BY Zenon
  <2>9. Good(u, {}) /\ Effect(t, u) /\ u.ready = <<>>
    BY Zenon, <2>7, <2>8, AfterGood
  <2>10. Effect(r, u) /\ server' = u
    BY Zenon, <1>7, <1>9, <2>1, <2>6, <2>7, <2>8, <2>9, EffectFacts
  <2> QED BY Zenon, <2>3, <2>4, <2>5, <2>9, <2>10, EventKeeps
<1> QED BY Zenon, <1>8, <1>9

\* _clearFinishKey: the value is stored like that of a command, and the clients of this
\* key are resumed.
LEMMA FillKeeps ==
  ASSUME IInv, Recorded, NEW k \in Keys, NEW v \in Texts \union {NULL}, Fill(k, v)
  PROVE  IInv'
<1>1. PICK b : b = Begin
  BY Zenon
<1>2. Good(b, {}) /\ b.ready = <<>> /\ Part(server, b, {}) /\ Same(server, b)
  BY Zenon, <1>1, BeginFacts
<1>3. PICK s : s = IF v = NULL THEN b ELSE [Stored(b, k, v) EXCEPT !.filled = @ \union {k}]
  BY Zenon
<1>4. Good(s, {}) /\ Part(server, s, {}) /\ s.ready = <<>>
  <2>1. CASE v = NULL
    BY Zenon, <1>2, <1>3, <2>1
  <2>2. CASE v # NULL
    <3>1. PICK w : w = SetKey(b, k, v)
      BY Zenon
    <3>2. Good(w, {}) /\ Part(b, w, {})
      BY Zenon, <1>2, <2>2, <3>1, SetKeyGood DEF IsList, IsString
    <3>3. w.ready = <<>>
      BY Zenon, <1>2, <3>1 DEF SetKey, Touch, Good, IsServer, Fields
    <3>4. s = [w EXCEPT !.filled = @ \union {k}]
      BY Zenon, <1>3, <2>2, <3>1 DEF Stored
    <3>5. Same(w, s)
      BY Zenon, <3>2, <3>4 DEF Good, IsServer, Same, Fields
    <3>6. Part(server, s, {}) /\ Good(s, {})
      BY Zenon, <1>2, <3>2, <3>5, PartTrans, SamePart, SameGood
    <3> QED BY Zenon, <3>3, <3>5, <3>6 DEF Same
  <2> QED BY Zenon, <2>1, <2>2
<1>5. IsServer(s) /\ Waiters(s) /\ s.waiting = server.waiting
  BY Zenon, <1>4, WaitersKept, EffectFacts DEF IInv, Good, Part, Keeps
<1>6. server.waiting[k] # NULL
  BY Zenon DEF Fill
<1>7. PICK resumed : resumed = Range(s.waiting[k])
  BY Zenon
<1>8. \A c \in Clients : c \in resumed <=> k \in WaitsFor(s.clients[c])
  BY Zenon, <1>5, <1>6, <1>7 DEF Waiters, Getters
<1> DEFINE y(c) == IF c \in resumed
                   THEN [[s.clients[c] EXCEPT !.state = "normal"] EXCEPT !.cmd = NULL]
                   ELSE s.clients[c]
<1>9. PICK t : t = [s EXCEPT !.waiting[k] = NULL, !.clients = [c \in Clients |-> y(c)]]
  BY Zenon
<1>10. server' = t
  BY Zenon, <1>1, <1>3, <1>5, <1>7, <1>9 DEF Fill
<1>11. /\ DOMAIN t = Fields /\ t.data = s.data /\ t.blocking = s.blocking /\ t.ready = s.ready
       /\ DOMAIN t.waiting = Keys /\ t.waiting[k] = NULL
       /\ \A j \in Keys \ {k} : t.waiting[j] = s.waiting[j]
       /\ t.clients = [c \in Clients |-> y(c)]
  BY Zenon, <1>5, <1>9 DEF IsServer, Fields
<1>12. ASSUME NEW c \in Clients
       PROVE  /\ y(c) \in ClientShape /\ y(c).watched = s.clients[c].watched
              /\ y(c).dirtyCas = s.clients[c].dirtyCas
              /\ c \in resumed => y(c).state = "normal"
              /\ c \notin resumed => y(c) = s.clients[c]
              /\ BlockedOn(y(c)) = BlockedOn(s.clients[c]) /\ Blocker(y(c))
  <2>1. s.clients[c] \in ClientShape /\ Blocker(s.clients[c])
    BY Zenon, <1>5 DEF IsServer
  <2>2. CASE c \in resumed
    <3>1. PICK x : x = [[s.clients[c] EXCEPT !.state = "normal"] EXCEPT !.cmd = NULL]
      BY Zenon
    <3>2. /\ x \in ClientShape /\ x.watched = s.clients[c].watched
          /\ x.dirtyCas = s.clients[c].dirtyCas /\ x.state = "normal"
      BY Zenon, <2>1, <3>1 DEF ClientShape
    <3>3. s.clients[c].state = "backend"
      BY Zenon, <1>8, <2>2, WaitingFacts
    <3> QED BY Zenon, <2>2, <3>1, <3>2, <3>3 DEF BlockedOn, Blocker
  <2>3. CASE c \notin resumed
    BY Zenon, <2>1, <2>3
  <2> QED BY Zenon, <2>2, <2>3
<1> HIDE DEF y
<1>13. t.clients \in [Clients -> ClientShape] /\ \A c \in Clients : t.clients[c] = y(c)
  BY ZenonT(60), <1>11, <1>12
<1>14. IsServer(t)
  BY Zenon, <1>5, <1>11, <1>12, <1>13 DEF IsServer
<1>15. Good(t, {})
  BY SMTT(30), <1>4, <1>11, <1>12, <1>13, <1>14 DEF Good, Registered, Awake, ReadyFlagged, Flagged
<1>16. Flags(server, t, {})
  BY SMTT(30), <1>4, <1>11, <1>12, <1>13 DEF Part, Flags
<1>17. Waiters(t)
  <2>1. Getters(t, k) = <<>> /\ \A j \in Keys \ {k} : Getters(t, j) = Getters(s, j)
    BY Zenon, <1>11 DEF Getters
  <2>2. \A c \in Clients :
          WaitsFor(t.clients[c]) = IF c \in resumed THEN {} ELSE WaitsFor(s.clients[c])
    BY Zenon, <1>12, <1>13, WaitingFacts
  <2>3. ASSUME NEW j \in Keys, NEW c \in Clients
        PROVE  c \in Range(Getters(t, j)) <=> j \in WaitsFor(t.clients[c])
    <3>1. c \in Range(Getters(s, j)) <=> j \in WaitsFor(s.clients[c])
      BY Zenon, <1>5 DEF Waiters
    <3>2. CASE j = k
      BY Zenon, <1>8, <2>1, <2>2, <3>2, WaitingFacts
    <3>3. CASE j # k
      BY Zenon, <1>8, <2>1, <2>2, <3>1, <3>3, WaitingFacts
    <3> QED BY Zenon, <3>2, <3>3
  <2>4. \A j \in Keys : Getters(t, j) \in Seq(Clients) /\ IsInjective(Getters(t, j))
    BY Zenon, <1>5, <2>1, WaitingFacts DEF Waiters
  <2> QED BY Zenon, <2>3, <2>4 DEF Waiters
<1> QED BY Zenon, <1>4, <1>10, <1>11, <1>15, <1>16, <1>17, RecordedKeeps DEF IInv

\* freeClient: the client is in no list any more, neither of those that are blocked nor
\* of those that wait for a handler.
LEMMA FreeKeeps ==
  ASSUME Counting, IInv, Recorded, NEW c \in Clients, FreeClient(c)
  PROVE  IInv'
<1>1. PICK b : b = Begin
  BY Zenon
<1>2. Good(b, {}) /\ b.ready = <<>> /\ Same(server, b)
  BY Zenon, <1>1, BeginFacts
<1>3. PICK s : s = Unblock(b, c)
  BY Zenon
<1>4. /\ Good(s, {}) /\ IsServer(s) /\ s.data = server.data /\ s.ready = <<>>
      /\ s.waiting = server.waiting /\ s.clients[c].state = "normal"
      /\ \A d \in Clients \ {c} : s.clients[d] = server.clients[d]
  BY SMTT(30), <1>2, <1>3, UnblockGood DEF Good, Same
<1>5. PICK t : t = [s EXCEPT !.clients[c] = Fresh,
                    !.waiting = [k \in Keys |-> IF @[k] = NULL THEN NULL ELSE Without(@[k], c)]]
  BY Zenon
<1>6. server' = t
  BY Zenon, <1>1, <1>3, <1>5 DEF FreeClient, Freed
<1>7. /\ DOMAIN t = Fields /\ t.data = s.data /\ t.blocking = s.blocking /\ t.ready = s.ready
      /\ t.waiting = [k \in Keys |-> IF s.waiting[k] = NULL THEN NULL ELSE Without(s.waiting[k], c)]
      /\ t.clients = [s.clients EXCEPT ![c] = Fresh]
  BY Zenon, <1>4, <1>5 DEF IsServer, Fields
<1>8. Fresh \in ClientShape /\ Fresh.state = "normal" /\ Fresh.watched = {}
  <2>1. <<>> \in Seq(CommandShape)
    BY SMTT(30)
  <2> QED BY Zenon, <2>1 DEF Fresh, ClientShape
<1>9. /\ t.clients \in [Clients -> ClientShape] /\ t.clients[c] = Fresh
      /\ \A d \in Clients \ {c} : t.clients[d] = s.clients[d]
  BY ZenonT(60), <1>4, <1>7, <1>8 DEF IsServer
<1>10. \A d \in Clients : BlockedOn(t.clients[d]) = BlockedOn(s.clients[d]) /\ Blocker(t.clients[d])
  BY ZenonT(60), <1>4, <1>8, <1>9 DEF BlockedOn, Blocker, IsServer
<1>11. IsServer(t)
  BY Zenon, <1>4, <1>7, <1>9, <1>10 DEF IsServer
<1>12. Good(t, {})
  <2>1. Registered(t) /\ Awake(t, {})
    BY Zenon, <1>4, <1>7, <1>10 DEF Good, Registered, Awake
  <2>2. ReadyFlagged(t)
    <3>1. Range(<<>>) = {} /\ IsInjective(<<>>)
      BY SMTT(30) DEF Range, IsInjective
    <3> QED BY Zenon, <1>4, <1>7, <3>1 DEF ReadyFlagged
  <2> QED BY Zenon, <1>11, <2>1, <2>2 DEF Good
<1>13. Flags(server, t, {})
  BY SMTT(30), <1>4, <1>7, <1>8, <1>9 DEF Flags
<1>14. Waiters(t)
  <2>1. ASSUME NEW j \in Keys
        PROVE  /\ Getters(t, j) \in Seq(Clients) /\ IsInjective(Getters(t, j))
               /\ Range(Getters(t, j)) = Range(Getters(server, j)) \ {c}
    <3>1. Getters(server, j) \in Seq(Clients) /\ IsInjective(Getters(server, j))
      BY Zenon DEF IInv, Waiters
    <3>2. CASE server.waiting[j] = NULL
      <4>1. Getters(t, j) = <<>> /\ Getters(server, j) = <<>>
        BY Zenon, <1>4, <1>7, <3>2 DEF Getters
      <4> QED BY Zenon, <4>1, WaitingFacts
    <3>3. CASE server.waiting[j] # NULL
      <4>1. Getters(server, j) = server.waiting[j] /\ t.waiting[j] = Without(server.waiting[j], c)
        BY Zenon, <1>4, <1>7, <3>3 DEF Getters
      <4>2. /\ t.waiting[j] \in Seq(Clients) /\ IsInjective(t.waiting[j])
            /\ Range(t.waiting[j]) = Range(server.waiting[j]) \ {c}
        BY <3>1, <4>1, WithoutFacts
      <4> QED BY Zenon, <4>1, <4>2, WaitingFacts DEF Getters
    <3> QED BY Zenon, <3>2, <3>3
  <2>2. ASSUME NEW j \in Keys, NEW d \in Clients
        PROVE  d \in Range(Getters(t, j)) <=> j \in WaitsFor(t.clients[d])
    <3>1. d \in Range(Getters(server, j)) <=> j \in WaitsFor(server.clients[d])
      BY Zenon DEF IInv, Waiters
    <3>2. CASE d = c
      BY Zenon, <1>8, <1>9, <2>1, <3>2, WaitingFacts
    <3>3. CASE d # c
      BY Zenon, <1>4, <1>9, <2>1, <3>1, <3>3
    <3> QED BY Zenon, <3>2, <3>3
  <2> QED BY Zenon, <2>1, <2>2 DEF Waiters
<1> QED BY Zenon, <1>4, <1>6, <1>7, <1>12, <1>13, <1>14, RecordedKeeps DEF IInv

\* A server without clients that are blocked or wait.
LEMMA FreshGood ==
  ASSUME NEW s, DOMAIN s = Fields, DOMAIN s.data = Keys,
         s.clients = [c \in Clients |-> Fresh], s.blocking = [k \in Keys |-> <<>>],
         s.waiting = [k \in Keys |-> NULL], s.ready = <<>>
  PROVE  Good(s, {}) /\ Waiters(s) /\ \A c \in Clients : s.clients[c].watched = {}
<1>1. Fresh \in ClientShape /\ Fresh.state = "normal" /\ Fresh.watched = {}
  <2>1. <<>> \in Seq(CommandShape)
    OBVIOUS
  <2> QED BY Zenon, <2>1 DEF Fresh, ClientShape
<1>2. Range(<<>>) = {} /\ IsInjective(<<>>)
  BY DEF Range, IsInjective
<1>3. s.clients \in [Clients -> ClientShape] /\ \A c \in Clients : s.clients[c] = Fresh
  BY Zenon, <1>1
<1>4. s.blocking \in [Keys -> Seq(Clients)] /\ \A k \in Keys : s.blocking[k] = <<>>
  OBVIOUS
<1>5. IsServer(s)
  <2>1. s.ready \in Seq(Keys)
    BY SMTT(30)
  <2> QED BY Zenon, <1>1, <1>3, <1>4, <2>1 DEF IsServer, Blocker
<1>6. Registered(s)
  BY Zenon, <1>1, <1>2, <1>3, <1>4 DEF Registered, BlockedOn
<1>7. Awake(s, {}) /\ ReadyFlagged(s)
  BY Zenon, <1>2, <1>4 DEF Awake, ReadyFlagged
<1>8. Waiters(s)
  <2>1. \A k \in Keys : Getters(s, k) = <<>>
    BY Zenon DEF Getters
  <2> QED BY Zenon, <1>1, <1>3, <2>1, WaitingFacts DEF Waiters
<1> QED BY Zenon, <1>1, <1>3, <1>5, <1>6, <1>7, <1>8 DEF Good

\* A restart from the append only file.
LEMMA RestartKeeps ==
  ASSUME IInv, Recorded, NEW n, Restart(n)
  PROVE  IInv'
<1>1. PICK d : d = Reload(server.base, SubSeq(server.log, 1, n))
  BY Zenon
<1>2. DOMAIN d = Keys
  BY Zenon, <1>1 DEF Reload
<1>3. DOMAIN server = Fields /\ server.ready = <<>>
  BY Zenon DEF IInv, Good, IsServer
<1>4. PICK t : t = [server EXCEPT
         !.data = d, !.clients = [c \in Clients |-> Fresh], !.blocking = [k \in Keys |-> <<>>],
         !.waiting = [k \in Keys |-> NULL], !.base = d, !.log = <<>>, !.seen = {d},
         !.served = <<>>, !.filled = {}]
  BY Zenon
<1>5. /\ DOMAIN t = Fields /\ DOMAIN t.data = Keys /\ t.clients = [c \in Clients |-> Fresh]
      /\ t.blocking = [k \in Keys |-> <<>>] /\ t.waiting = [k \in Keys |-> NULL]
      /\ t.ready = <<>>
  BY Zenon, <1>2, <1>3, <1>4 DEF Fields
<1>6. Good(t, {}) /\ Waiters(t) /\ \A c \in Clients : t.clients[c].watched = {}
  BY Zenon, <1>5, FreshGood
<1>7. server' = t
  BY Zenon, <1>1, <1>4 DEF Restart
<1>8. Flags(server, t, {})
  BY Zenon, <1>6 DEF Flags
<1> QED BY Zenon, <1>5, <1>6, <1>7, <1>8, RecordedKeeps DEF IInv

\* The invariant holds initially.
LEMMA InitIInv == Init => IInv
<1> SUFFICES ASSUME Init PROVE IInv
  BY Zenon
<1>1. /\ DOMAIN server = Fields /\ DOMAIN server.data = Keys
      /\ server.clients = [c \in Clients |-> Fresh] /\ server.blocking = [k \in Keys |-> <<>>]
      /\ server.waiting = [k \in Keys |-> NULL] /\ server.ready = <<>>
  BY Zenon DEF Init, Fields
<1>2. Good(server, {}) /\ Waiters(server)
  BY Zenon, <1>1, FreshGood
<1>3. changed = {} /\ situation \in Situations
  BY Zenon DEF Init
<1> QED BY Zenon, <1>1, <1>2, <1>3 DEF IInv, ChangedIsFlagged

\* Every event keeps the invariant.
LEMMA NextIInv ==
  ASSUME Counting
  PROVE  IInv /\ [Next]_vars => IInv'
<1> SUFFICES ASSUME IInv, [Next]_vars PROVE IInv'
  BY Zenon
<1>1. CASE UNCHANGED vars
  BY Zenon, <1>1 DEF vars, IInv, ChangedIsFlagged
<1>2. CASE Next
  <2>0. Recorded /\ Event
    BY Zenon, <1>2 DEF Next, Recorded
  <2>1. ASSUME NEW c \in situation.clients, NEW cmd \in situation.commands,
               GetFromBackend(c, cmd) \/ Run(c, cmd)
        PROVE  IInv'
    BY Zenon, <2>0, <2>1, GetKeeps, RunKeeps
  <2>2. ASSUME NEW c \in situation.users, NEW cmd \in situation.queued, QueueMultiCommand(c, cmd)
        PROVE  IInv'
    BY Zenon, <2>0, <2>2, QueueKeeps
  <2>3. ASSUME NEW c \in situation.users, FlagTransaction(c) \/ Multi(c) \/ Discard(c) \/ Exec(c)
        PROVE  IInv'
    BY Zenon, <2>0, <2>3, FlagKeeps, MultiKeeps, DiscardKeeps, ExecKeeps
  <2>4. ASSUME NEW c \in situation.users, NEW k \in Keys, WatchForKey(c, k)
        PROVE  IInv'
    BY Zenon, <2>0, <2>4, WatchKeeps
  <2>5. ASSUME NEW k \in Keys, NEW v \in Texts \union {NULL}, Fill(k, v)
        PROVE  IInv'
    BY Zenon, <2>0, <2>5, FillKeeps
  <2>6. ASSUME NEW c \in Clients, Timeout(c) \/ FreeClient(c)
        PROVE  IInv'
    BY Zenon, <2>0, <2>6, TimeoutKeeps, FreeKeeps
  <2>7. ASSUME NEW n \in 0..Len(server.log), Restart(n)
        PROVE  IInv'
    BY Zenon, <2>0, <2>7, RestartKeeps
  <2> QED BY Zenon, <2>0, <2>1, <2>2, <2>3, <2>4, <2>5, <2>6, <2>7 DEF Event
<1> QED BY Zenon, <1>1, <1>2

-----------------------------------------------------------------------------
(* The order, step by step. *)

\* The step that ServedInOrder asks for.
InOrder ==
  \A k \in Keys : \A i, j \in DOMAIN server.blocking[k] :
    i < j /\ <<server.blocking[k][j], k>> \in Range(server'.served)
      => server.blocking[k][i] \notin Range(server'.blocking[k])

\* An event that ends with handleClientsBlockedOnKeys, after a command or a transaction.
LEMMA AfterInOrder ==
  ASSUME Counting, IInv, NEW b, NEW s, NEW c \in Clients, b.blocking = server.blocking, b.served = <<>>,
         Joins(b, s, c), Good(s, {}), server' = After(s)
  PROVE  InOrder
<1>1. Order(s, server')
  BY Zenon, AfterGood
<1>2. s.served = <<>> /\ <<>> \in Seq(Clients \X Keys) /\ Range(<<>>) = {}
  BY SMTT(30) DEF Joins, Range
<1> SUFFICES ASSUME NEW k \in Keys, NEW i \in DOMAIN server.blocking[k],
                    NEW j \in DOMAIN server.blocking[k], i < j,
                    <<server.blocking[k][j], k>> \in Range(server'.served)
             PROVE  server.blocking[k][i] \notin Range(server'.blocking[k])
  BY Zenon DEF InOrder
<1>3. PICK a, e : a = server.blocking[k] /\ e = s.blocking[k]
  BY Zenon
<1>4. a \in Seq(Clients) /\ a[j] \in Clients /\ DOMAIN a = 1..Len(a) /\ Len(a) \in Nat
  BY SMTT(30), <1>3 DEF IInv, Good, IsServer
<1>5. e = a \/ e = Append(a, c)
  BY Zenon, <1>3 DEF Joins
<1>6. i \in DOMAIN e /\ j \in DOMAIN e /\ e[i] = a[i] /\ e[j] = a[j]
  BY SMTT(30), <1>3, <1>4, <1>5
<1>7. Ordered(s, server', k)
  BY Zenon, <1>1, <1>2 DEF Order
<1>8. <<a[j], k>> \in Range(server'.served) /\ <<a[j], k>> \notin Range(s.served)
  BY Zenon, <1>2, <1>3
<1>9. \A p, q \in DOMAIN e : p < q /\ e[q] = a[j] => e[p] \notin Range(server'.blocking[k])
  BY Zenon, <1>3, <1>4, <1>7, <1>8 DEF Ordered
<1> QED BY Zenon, <1>3, <1>6, <1>9

\* An event in which nobody is served.
LEMMA NobodyServed ==
  ASSUME server'.served = <<>>
  PROVE  InOrder
<1>1. Range(<<>>) = {}
  BY SMTT(30) DEF Range
<1> QED BY Zenon, <1>1 DEF InOrder

\* Every event serves in order.
LEMMA EventInOrder ==
  ASSUME Counting, IInv, Event
  PROVE  InOrder
<1>0. PICK b : b = Begin
  BY Zenon
<1>1. /\ IsServer(b) /\ Good(b, {}) /\ b.blocking = server.blocking /\ b.clients = server.clients
      /\ b.served = <<>> /\ DOMAIN b = Fields
  <2>1. Same(server, b) /\ Good(b, {}) /\ IsServer(server)
    BY Zenon, <1>0, BeginFacts DEF IInv, Good
  <2>2. b.served = <<>>
    BY Zenon, <1>0, <2>1 DEF Begin, IsServer, Fields
  <2> QED BY Zenon, <2>1, <2>2 DEF Same, Good, IsServer
<1>2. ASSUME NEW c \in situation.clients, NEW cmd \in situation.commands, Run(c, cmd)
      PROVE  InOrder
  <2>1. c \in Clients /\ cmd \in CommandShape /\ b.clients[c].state = "normal"
    BY Zenon, <1>1, <1>2, SituationFacts DEF Run, Ready
  <2>2. PICK s : s = Call(b, c, cmd)
    BY Zenon
  <2>3. Good(s, {}) /\ Joins(b, s, c)
    BY Zenon, <1>1, <2>1, <2>2, CallGood, CallJoins DEF Executes
  <2>4. server' = After(s)
    BY Zenon, <1>0, <1>2, <2>2 DEF Run
  <2> QED BY Zenon, <1>1, <2>1, <2>3, <2>4, AfterInOrder
<1>3. ASSUME NEW c \in situation.clients, NEW cmd \in situation.commands, GetFromBackend(c, cmd)
      PROVE  InOrder
  <2>1. c \in Clients /\ cmd \in CommandShape /\ b.clients[c].state = "normal"
    BY Zenon, <1>1, <1>3, SituationFacts DEF GetFromBackend, Ready
  <2>2. PICK k, queued : /\ k = cmd.keys[1]
                         /\ queued = Getters(server, k)
    BY Zenon
  <2>3. server' = IF situation.sync
                  THEN [b EXCEPT !.clients[c].state = "backend", !.clients[c].cmd = cmd,
                                 !.waiting[k] = Append(queued, c)]
                  ELSE After(Call([b EXCEPT !.waiting[k] = queued], c, cmd))
    BY Zenon, <1>0, <1>3, <2>2 DEF GetFromBackend
  <2>4. CASE situation.sync
    <3>1. server'.served = b.served
      BY Zenon, <1>1, <2>3, <2>4 DEF Fields
    <3> QED BY Zenon, <1>1, <3>1, NobodyServed
  <2>5. CASE ~situation.sync
    <3>1. PICK r : r = [b EXCEPT !.waiting[k] = queued]
      BY Zenon
    <3>2. /\ DOMAIN r = Fields /\ r.data = b.data /\ r.clients = b.clients
          /\ r.blocking = b.blocking /\ r.ready = b.ready /\ r.served = b.served
          /\ DOMAIN r.waiting = Keys
      BY Zenon, <1>1, <3>1 DEF IsServer, Fields
    <3>3. Good(r, {})
      BY Zenon, <1>1, <3>2 DEF Good, IsServer, Registered, Awake, ReadyFlagged, Flagged
    <3>4. PICK s : s = Call(r, c, cmd)
      BY Zenon
    <3>5. Good(s, {}) /\ Joins(r, s, c)
      BY Zenon, <2>1, <3>2, <3>3, <3>4, CallGood, CallJoins DEF Executes, Good
    <3>6. server' = After(s)
      BY Zenon, <2>3, <2>5, <3>1, <3>4
    <3> QED BY Zenon, <1>1, <2>1, <3>2, <3>5, <3>6, AfterInOrder
  <2> QED BY Zenon, <2>4, <2>5
<1>4. ASSUME NEW c \in situation.users, Exec(c)
      PROVE  InOrder
  <2>1. c \in Clients /\ b.clients[c].state = "normal" /\ b.clients[c].multi = TRUE
    <3>1. c \in Clients /\ b.clients[c].state = "normal" /\ b.clients[c].multi
      BY Zenon, <1>1, <1>4, SituationFacts DEF Exec, InMulti, Ready
    <3>2. b.clients[c].multi \in BOOLEAN
      BY Zenon, <1>1, <3>1 DEF IsServer, ClientShape
    <3> QED BY Zenon, <3>1, <3>2
  <2>2. PICK s : s = ExecCommand(b, c)
    BY Zenon
  <2>3. Good(s, {}) /\ Still(b, s)
    BY Zenon, <1>1, <2>1, <2>2, ExecGood
  <2>4. Joins(b, s, c)
    BY Zenon, <2>3 DEF Joins, Still
  <2>5. server' = After(s)
    BY Zenon, <1>0, <1>4, <2>2 DEF Exec
  <2> QED BY Zenon, <1>1, <2>1, <2>3, <2>4, <2>5, AfterInOrder
<1>5. ASSUME NEW c \in situation.users, NEW cmd \in situation.queued, QueueMultiCommand(c, cmd)
      PROVE  InOrder
  BY Zenon, <1>0, <1>1, <1>5, NobodyServed DEF QueueMultiCommand, Fields
<1>6. ASSUME NEW c \in situation.users, FlagTransaction(c) \/ Multi(c) \/ Discard(c)
      PROVE  InOrder
  <2>1. server'.served = b.served
    <3>1. Still(b, DiscardTransaction(b, c))
      BY Zenon, <1>1, DiscardStill
    <3>2. CASE Discard(c)
      BY Zenon, <1>0, <3>1, <3>2 DEF Discard, Still
    <3>3. CASE FlagTransaction(c) \/ Multi(c)
      BY Zenon, <1>0, <1>1, <3>3 DEF FlagTransaction, Multi, Fields
    <3> QED BY Zenon, <1>6, <3>2, <3>3
  <2> QED BY Zenon, <1>1, <2>1, NobodyServed
<1>7. ASSUME NEW c \in situation.users, NEW k \in Keys, WatchForKey(c, k)
      PROVE  InOrder
  BY Zenon, <1>0, <1>1, <1>7, NobodyServed DEF WatchForKey, Fields
<1>8. ASSUME NEW k \in Keys, NEW v \in Texts \union {NULL}, Fill(k, v)
      PROVE  InOrder
  <2>1. PICK s : s = IF v = NULL THEN b ELSE [Stored(b, k, v) EXCEPT !.filled = @ \union {k}]
    BY Zenon
  <2>2. DOMAIN s = Fields /\ s.served = <<>>
    BY Zenon, <1>1, <2>1 DEF Stored, SetKey, Touch, Fields
  <2>3. server'.served = s.served
    BY Zenon, <1>0, <1>8, <2>1, <2>2 DEF Fill, Fields
  <2> QED BY Zenon, <2>2, <2>3, NobodyServed
<1>9. ASSUME NEW c \in Clients, Timeout(c) \/ FreeClient(c)
      PROVE  InOrder
  <2>1. PICK s : s = Unblock(b, c)
    BY Zenon
  <2>2. DOMAIN s = Fields /\ s.served = <<>>
    BY Zenon, <1>1, <2>1 DEF Unblock, Fields
  <2>3. server'.served = s.served
    BY Zenon, <1>0, <1>9, <2>1, <2>2 DEF Timeout, FreeClient, Freed, Fields
  <2> QED BY Zenon, <2>2, <2>3, NobodyServed
<1>10. ASSUME NEW n \in 0..Len(server.log), Restart(n)
       PROVE  InOrder
  <2>1. DOMAIN server = Fields
    BY Zenon DEF IInv, Good, IsServer
  <2>2. server'.served = <<>>
    BY Zenon, <1>10, <2>1 DEF Restart, Fields
  <2> QED BY Zenon, <2>2, NobodyServed
<1> QED BY Zenon, <1>2, <1>3, <1>4, <1>5, <1>6, <1>7, <1>8, <1>9, <1>10 DEF Event

-----------------------------------------------------------------------------
(* The theorems. *)

INSTANCE FiniteSetTheorems

\* Numbers and finite sets are as the lemmas suppose.
LEMMA CountingHolds == Counting
<1>1. ASSUME NEW T \in SUBSET Nat, T # {} PROVE \E x \in T : \A y \in T : x <= y
  <2> DEFINE R == OpToRel(<, Nat)
  <2>1. T \subseteq Nat /\ T # {}
    BY Zenon, <1>1
  <2>2. \E x \in T : \A y \in T : ~(<<y, x>> \in R)
    <3> HIDE DEF R
    <3> QED BY Zenon, <2>1, NatLessThanWellFounded, WFMin DEF R
  <2>3. PICK x \in T : \A y \in T : ~(<<y, x>> \in R)
    BY Zenon, <2>2
  <2>4. \A y \in T : ~(y < x)
    BY Zenon, <2>1, <2>3 DEF OpToRel
  <2>5. \A y \in T : x <= y
    <3> HIDE DEF R
    <3> QED BY <2>1, <2>4
  <2> QED BY Zenon, <2>5
<1>2. ASSUME NEW C, NEW s \in Seq(C), IsInjective(s)
      PROVE  IsFiniteSet(Range(s)) /\ Cardinality(Range(s)) = Len(s)
  <2>1. Len(s) \in Nat /\ s \in [1..Len(s) -> Range(s)]
    BY DEF Range
  <2>2. s \in Surjection(1..Len(s), Range(s)) /\ s \in Injection(1..Len(s), Range(s))
    BY Zenon, <1>2, <2>1 DEF Surjection, Injection, Range
  <2>3. IsFiniteSet(1..Len(s)) /\ Cardinality(1..Len(s)) = Len(s)
    BY SMTT(30), <2>1, FS_Interval
  <2> QED BY Zenon, <2>2, <2>3, FS_Surjection
<1>3. Cardinality({}) = 0
  BY Zenon, FS_EmptySet
<1>4. ASSUME NEW S, IsFiniteSet(S)
      PROVE  /\ Cardinality(S) \in Nat
             /\ \A T \in SUBSET S : IsFiniteSet(T) /\ Cardinality(T) <= Cardinality(S)
             /\ \A x \in S : Cardinality(S \ {x}) = Cardinality(S) - 1
  BY Zenon, <1>4, FS_CardinalityType, FS_Subset, FS_RemoveElement
<1> QED BY Zenon, <1>1, <1>2, <1>3, <1>4 DEF Counting

\* The invariant holds: for any clients and keys and any set of situations, of lists and
\* transactions of any length.
THEOREM TransactionsInvariant == Spec => []IInv
<1>1. IInv /\ [Next]_vars => IInv'
  BY Zenon, NextIInv, CountingHolds
<1> QED BY InitIInv, <1>1, PTL DEF Spec

\* After every event the lists of blocked clients (blockForKeys, unblockClientWaitingData)
\* and of clients that wait for a handler (checkNeedToBackendState,
\* releaseWhenFreeClient) have each client exactly where it waits, once.
THEOREM BlockedAreRegistered == Spec => []WaitersRegistered
<1>1. IInv => WaitersRegistered
  BY Zenon DEF IInv, Good, Registered, Waiters, WaitersRegistered
<1> QED BY <1>1, TransactionsInvariant, PTL

\* A transaction never runs on watched keys that have changed (touchWatchedKey): also
\* when a client that is served or the handler of a get changed them.
THEOREM ChangesAreFlagged == Spec => []ChangedIsFlagged
<1>1. IInv => ChangedIsFlagged
  BY Zenon DEF IInv
<1> QED BY <1>1, TransactionsInvariant, PTL

\* handleClientsBlockedOnKeys leaves nobody blocked on a key that has a list, however
\* serving one key makes others ready.
THEOREM NobodySleeps == Spec => []NobodySleepsOnAList
<1>1. IInv => NobodySleepsOnAList
  <2>1. Range(<<>>) = {}
    BY SMTT(30) DEF Range
  <2> QED BY Zenon, <2>1 DEF IInv, Good, Awake, NobodySleepsOnAList
<1> QED BY <1>1, TransactionsInvariant, PTL

\* serveClientsBlockedOnListKey serves the clients of a key in the order in which they
\* blocked: of those in front of one that is served none stays blocked on the key.
THEOREM ServesInOrder == Spec => ServedInOrder
<1>1. IInv /\ [Next]_vars => [InOrder]_vars
  BY Zenon, EventInOrder, CountingHolds DEF Next
<1>2. [InOrder]_vars => [\A k \in Keys : \A i, j \in DOMAIN server.blocking[k] :
       i < j /\ <<server.blocking[k][j], k>> \in Range(server'.served)
         => server.blocking[k][i] \notin Range(server'.blocking[k])]_vars
  BY Zenon DEF InOrder
<1> QED BY <1>1, <1>2, TransactionsInvariant, PTL DEF Spec, ServedInOrder
=============================================================================
