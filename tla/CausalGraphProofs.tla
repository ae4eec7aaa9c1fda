-------------------------- MODULE CausalGraphProofs ---------------------------
(* Facts about the operation graph of dag.rs, for every set of operations:    *)
(* what the proofs about Replica, Checkpoint and KeyAgreement share.          *)
EXTENDS CausalGraph, Sequences, TLAPS

\* The least-number principle.  The lemmas that rest on it have it as a hypothesis,
\* and the modules with the theorems prove it from WellFoundedInduction: the
\* library is large, and would be part of every obligation here.
LeastNumber == \A S \in SUBSET Nat : S # {} => \E x \in S : \A y \in S : x <= y

\* A graph over the operations O that is causally closed, and in which the past
\* of an operation is what its signed dependencies give.
Good(O, g) ==
    /\ DOMAIN g \subseteq 1..Len(O)
    /\ g \in [DOMAIN g -> SUBSET DOMAIN g]
    /\ \A o \in DOMAIN g : O[o].deps \subseteq DOMAIN g
    /\ \A o \in DOMAIN g : g[o] = Closure(g, O[o].deps)
    /\ \A o \in DOMAIN g : \A x \in g[o] : x < o

Agree(g, h) == \A o \in DOMAIN g \cap DOMAIN h : g[o] = h[o]

\* Every dependency was signed before the operation that names it.
Ordered(O) == \A o \in 1..Len(O) : O[o].deps \subseteq 1..(o - 1)

\* Dag::causal_closure of known dependencies stays inside the graph.
LEMMA ClosureInside ==
    ASSUME NEW O, NEW g, Good(O, g), NEW D, D \subseteq DOMAIN g
    PROVE  Closure(g, D) = D \cup UNION {g[d] : d \in D} /\ Closure(g, D) \subseteq DOMAIN g
  BY DEF Closure, Good

\* Dag::add stores the operation.
LEMMA AddDomain ==
    ASSUME NEW g, NEW o, NEW D
    PROVE  DOMAIN Add(g, o, D) = DOMAIN g \cup {o}
  BY DEF Add

\* Graphs that agree give known dependencies the same closure.
LEMMA SameClosure ==
    ASSUME NEW O, NEW g, NEW h, Good(O, g), Good(O, h), Agree(g, h),
           NEW D, D \subseteq DOMAIN g, D \subseteq DOMAIN h
    PROVE  Closure(g, D) = Closure(h, D)
<1>1. \A d \in D : g[d] = h[d]
  BY DEF Agree
<1>2. UNION {g[d] : d \in D} = UNION {h[d] : d \in D}
  BY <1>1
<1> QED
  BY <1>2, ClosureInside, Zenon

\* Dag::add of an operation whose dependencies are there keeps a graph good and
\* in agreement with every other good graph.
LEMMA AddGood ==
    ASSUME NEW O, Len(O) \in Nat, Ordered(O), NEW g, Good(O, g),
           NEW o \in 1..Len(O), O[o].deps \subseteq DOMAIN g
    PROVE  /\ Good(O, Add(g, o, O[o].deps))
           /\ DOMAIN Add(g, o, O[o].deps) = DOMAIN g \cup {o}
           /\ \A h : Good(O, h) /\ Agree(g, h) => Agree(Add(g, o, O[o].deps), h)
<1> DEFINE D == O[o].deps
           a == Add(g, o, D)
<1>1. CASE o \in DOMAIN g
  BY <1>1, Zenon DEF Add
<1>2. CASE o \notin DOMAIN g
  <2>1. /\ DOMAIN a = DOMAIN g \cup {o}
        /\ a[o] = Closure(g, D)
        /\ \A x \in DOMAIN g : a[x] = g[x]
    BY <1>2 DEF Add
  <2>2. Closure(g, D) = D \cup UNION {g[d] : d \in D} /\ Closure(g, D) \subseteq DOMAIN g
    BY ClosureInside
  <2>3. \A E : E \subseteq DOMAIN g => Closure(a, E) = Closure(g, E)
    <3> SUFFICES ASSUME NEW E, E \subseteq DOMAIN g PROVE Closure(a, E) = Closure(g, E)
      OBVIOUS
    <3>1. E \cap DOMAIN a = E /\ E \cap DOMAIN g = E
      BY <2>1
    <3>2. {a[d] : d \in E} = {g[d] : d \in E}
      BY <2>1
    <3> QED
      BY <3>1, <3>2, Zenon DEF Closure
  <2>4. a \in [DOMAIN a -> SUBSET DOMAIN a]
    <3>1. a = [x \in DOMAIN g \cup {o} |-> IF x = o THEN Closure(g, D) ELSE g[x]]
      BY <1>2 DEF Add
    <3>2. \A x \in DOMAIN g : g[x] \subseteq DOMAIN g
      BY DEF Good
    <3> QED
      BY <2>1, <2>2, <3>1, <3>2
  <2>5. \A x \in DOMAIN a : O[x].deps \subseteq DOMAIN a /\ a[x] = Closure(a, O[x].deps)
    BY <2>1, <2>3 DEF Good
  <2>6. \A x \in DOMAIN a : \A y \in a[x] : y < x
    <3>1. \A y \in Closure(g, D) : y < o
      <4> SUFFICES ASSUME NEW y \in Closure(g, D) PROVE y < o
        OBVIOUS
      <4>1. D \subseteq 1..(o - 1)
        BY DEF Ordered
      <4>2. CASE y \in D
        BY <4>1, <4>2
      <4>3. ASSUME NEW d \in D, y \in g[d] PROVE y < o
        <5>1. y < d /\ d < o
          BY <4>1, <4>3 DEF Good
        <5>2. y \in Nat /\ d \in Nat /\ o \in Nat
          BY <4>1, <4>3 DEF Good
        <5> QED
          BY <5>1, <5>2
      <4> QED
        BY <2>2, <4>2, <4>3
    <3> QED
      BY <2>1, <3>1 DEF Good
  <2>7. Good(O, a)
    BY <2>1, <2>4, <2>5, <2>6 DEF Good
  <2>8. ASSUME NEW h, Good(O, h), Agree(g, h) PROVE Agree(a, h)
    <3> SUFFICES ASSUME o \in DOMAIN h PROVE a[o] = h[o]
      BY <2>1, <2>8 DEF Agree
    <3>1. O[o].deps \subseteq DOMAIN h /\ h[o] = Closure(h, D)
      BY <2>8 DEF Good
    <3>2. Closure(g, D) = Closure(h, D)
      BY <3>1, <2>8, SameClosure
    <3> QED
      BY <2>1, <3>1, <3>2
  <2> QED
    BY <2>1, <2>7, <2>8
<1> QED
  BY <1>1, <1>2

\* A set of positions that is not empty has a last one.
LEMMA LastExists ==
    ASSUME LeastNumber, NEW n \in Nat, NEW S, S \subseteq 1..n, S # {}
    PROVE  \E x \in S : \A y \in S : y <= x
<1> DEFINE T == {n - x : x \in S}
<1>1. T \in SUBSET Nat /\ T # {}
  <2>1. \A x \in S : x \in 1..n /\ n - x \in Nat
    OBVIOUS
  <2> QED
    BY <2>1, Zenon
<1>2. PICK t \in T : \A y \in T : t <= y
  <2> HIDE DEF T
  <2> QED
    BY <1>1, Zenon DEF LeastNumber
<1>3. PICK x \in S : t = n - x
  OBVIOUS
<1>4. ASSUME NEW y \in S PROVE y <= x
  <2>1. n - y \in T
    BY Zenon
  <2>2. t <= n - y
    BY <1>2, <2>1, Zenon
  <2> QED
    BY <1>3, <2>2
<1> QED
  BY <1>4, Zenon

\* A graph that holds anything has a head, so nobody but the founder ever signs
\* an operation without dependencies.
LEMMA HeadsExist ==
    ASSUME LeastNumber, NEW O, Len(O) \in Nat, NEW g, Good(O, g), DOMAIN g # {}
    PROVE  Heads(g) # {}
<1>1. DOMAIN g \subseteq 1..Len(O)
  BY DEF Good
<1>2. PICK o \in DOMAIN g : \A y \in DOMAIN g : y <= o
  BY <1>1, LastExists
<1>3. ASSUME NEW x \in DOMAIN g, o \in g[x] PROVE FALSE
  <2>1. o < x /\ o \in Nat /\ x \in Nat
    BY <1>1, <1>3 DEF Good
  <2> QED
    BY <1>2, <2>1
<1> QED
  BY <1>2, <1>3 DEF Heads

\* Dag::ancestors is transitive.
LEMMA PastTransitive ==
    ASSUME LeastNumber, NEW O, NEW g, Good(O, g), NEW o \in DOMAIN g, NEW x \in g[o]
    PROVE  x \in DOMAIN g /\ g[x] \subseteq g[o]
<1> DEFINE Bad == {y \in DOMAIN g : \E z \in g[y] : ~(g[z] \subseteq g[y])}
<1>1. \A y \in DOMAIN g : g[y] \subseteq DOMAIN g /\ y \in Nat
  BY DEF Good
<1>2. ASSUME Bad # {} PROVE FALSE
  <2>1. PICK y \in Bad : \A b \in Bad : y <= b
    <3>1. Bad \subseteq Nat
      BY <1>1
    <3> HIDE DEF Bad
    <3> QED
      BY <1>2, <3>1, Zenon DEF LeastNumber
  <2>2. PICK z \in g[y] : ~(g[z] \subseteq g[y])
    OBVIOUS
  <2>3. O[y].deps \subseteq DOMAIN g /\ g[y] = O[y].deps \cup UNION {g[d] : d \in O[y].deps}
    BY ClosureInside, ZenonT(30) DEF Good
  <2>4. PICK d \in O[y].deps : z \in g[d]
    BY <2>2, <2>3
  <2>5. d \in DOMAIN g /\ d < y /\ d \in Nat /\ y \in Nat
    BY <1>1, <2>3 DEF Good
  <2>6. d \notin Bad
    BY <2>1, <2>5
  <2>7. g[z] \subseteq g[d] /\ g[d] \subseteq g[y]
    BY <2>3, <2>4, <2>5, <2>6
  <2> QED
    BY <2>2, <2>7
<1> QED
  BY <1>1, <1>2

\* Whoever signs on top of its heads signs on top of everything it holds.
LEMMA HeadsCover ==
    ASSUME LeastNumber, NEW O, Len(O) \in Nat, NEW g, Good(O, g)
    PROVE  Heads(g) \subseteq DOMAIN g /\ Closure(g, Heads(g)) = DOMAIN g
<1>1. Heads(g) \subseteq DOMAIN g
  BY DEF Heads
<1>2. /\ Closure(g, Heads(g)) = Heads(g) \cup UNION {g[d] : d \in Heads(g)}
      /\ Closure(g, Heads(g)) \subseteq DOMAIN g
  BY <1>1, ClosureInside
<1>3. ASSUME NEW o \in DOMAIN g PROVE o \in Closure(g, Heads(g))
  <2> DEFINE Later == {x \in DOMAIN g : o = x \/ o \in g[x]}
  <2>1. Later \subseteq 1..Len(O) /\ o \in Later
    BY <1>3 DEF Good
  <2>2. PICK x \in Later : \A y \in Later : y <= x
    <3> HIDE DEF Later
    <3> QED
      BY <2>1, LastExists
  <2>3. x \in Heads(g)
    <3> SUFFICES ASSUME NEW y \in DOMAIN g, x \in g[y] PROVE FALSE
      BY DEF Heads
    <3>1. g[x] \subseteq g[y] /\ x < y
      BY PastTransitive DEF Good
    <3>2. y \in Later
      BY <3>1
    <3>3. x \in Nat /\ y \in Nat
      BY <2>1, <3>2
    <3> QED
      BY <2>2, <3>1, <3>2, <3>3
  <2> QED
    BY <1>2, <2>3
<1> QED
  BY <1>1, <1>2, <1>3, Zenon

\* Appending an operation leaves graphs over the earlier ones as they are.
LEMMA AppendGood ==
    ASSUME NEW S, NEW O \in Seq(S), NEW op \in S, Ordered(O), op.deps \subseteq 1..Len(O)
    PROVE  /\ Append(O, op) \in Seq(S) /\ Len(Append(O, op)) = Len(O) + 1
           /\ Append(O, op)[Len(O) + 1] = op
           /\ \A o \in 1..Len(O) : Append(O, op)[o] = O[o]
           /\ Ordered(Append(O, op))
           /\ \A h : Good(O, h) => Good(Append(O, op), h)
<1> DEFINE n == Len(O)
           P == Append(O, op)
<1>1. /\ n \in Nat /\ P \in Seq(S) /\ Len(P) = n + 1 /\ P[n + 1] = op
      /\ \A o \in 1..n : P[o] = O[o]
  OBVIOUS
<1> HIDE DEF P
<1>2. \A o \in 1..(n + 1) : o = n + 1 \/ o \in 1..n
  BY <1>1
<1>3. Ordered(P)
  <2> SUFFICES ASSUME NEW o \in 1..Len(P) PROVE P[o].deps \subseteq 1..(o - 1)
    BY DEF Ordered
  <2>1. CASE o = n + 1
    BY <1>1, <2>1
  <2>2. CASE o \in 1..n
    BY <1>1, <2>2 DEF Ordered
  <2> QED
    BY <1>1, <1>2, <2>1, <2>2
<1>4. ASSUME NEW h, Good(O, h) PROVE Good(P, h)
  <2>1. DOMAIN h \subseteq 1..n /\ 1..n \subseteq 1..Len(P)
    BY <1>1, <1>4 DEF Good
  <2>2. \A o \in DOMAIN h : P[o] = O[o]
    BY <1>1, <2>1
  <2> QED
    BY <1>4, <2>1, <2>2 DEF Good
<1> QED
  BY <1>1, <1>3, <1>4 DEF P

\* Participant::sign: an operation signed on top of a part of the graph is
\* appended and added to the signer's graph.
LEMMA SignGood ==
    ASSUME NEW S, NEW O \in Seq(S), NEW op \in S, Ordered(O), NEW g, Good(O, g),
           op.deps \subseteq DOMAIN g
    PROVE  LET P == Append(O, op)
               k == Len(O) + 1
               a == Add(g, k, op.deps)
           IN  /\ Ordered(P) /\ Good(P, a) /\ k \notin DOMAIN g
               /\ a[k] = Closure(g, op.deps) /\ \A x \in DOMAIN g : a[x] = g[x]
               /\ \A h : Good(O, h) => Good(P, h)
               /\ \A h : Good(O, h) /\ Agree(g, h) => Agree(a, h)
<1> DEFINE P == Append(O, op)
           k == Len(O) + 1
           a == Add(g, k, op.deps)
<1>1. DOMAIN g \subseteq 1..Len(O) /\ Len(O) \in Nat /\ k \notin DOMAIN g
  BY DEF Good
<1>2. /\ P \in Seq(S) /\ Len(P) = k /\ P[k] = op /\ \A o \in 1..Len(O) : P[o] = O[o]
      /\ Ordered(P) /\ \A h : Good(O, h) => Good(P, h)
  BY <1>1, AppendGood
<1>3. a[k] = Closure(g, op.deps) /\ \A x \in DOMAIN g : a[x] = g[x]
  <2>1. a = [x \in DOMAIN g \cup {k} |-> IF x = k THEN Closure(g, op.deps) ELSE g[x]]
    BY <1>1 DEF Add
  <2> QED
    BY <1>1, <2>1
<1>4. /\ k \in 1..Len(P) /\ Len(P) \in Nat /\ P[k].deps \subseteq DOMAIN g /\ Good(P, g)
      /\ a = Add(g, k, P[k].deps)
  BY <1>1, <1>2
<1> HIDE DEF P, k, a
<1>5. /\ Good(P, a) /\ DOMAIN a = DOMAIN g \cup {k}
      /\ \A h : Good(P, h) /\ Agree(g, h) => Agree(a, h)
  <2>1. /\ Good(P, Add(g, k, P[k].deps)) /\ DOMAIN Add(g, k, P[k].deps) = DOMAIN g \cup {k}
        /\ \A h : Good(P, h) /\ Agree(g, h) => Agree(Add(g, k, P[k].deps), h)
    BY ONLY <1>2, <1>4, AddGood, Zenon
  <2> QED
    BY <1>4, <2>1, Zenon
<1>6. /\ Ordered(P) /\ Good(P, a) /\ k \notin DOMAIN g
      /\ a[k] = Closure(g, op.deps) /\ (\A x \in DOMAIN g : a[x] = g[x])
      /\ (\A h : Good(O, h) => Good(P, h))
      /\ \A h : Good(O, h) /\ Agree(g, h) => Agree(a, h)
  BY <1>1, <1>2, <1>3, <1>5
<1> QED
  BY <1>6, Zenon DEF P, k, a
===============================================================================
