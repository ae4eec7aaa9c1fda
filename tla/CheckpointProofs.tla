--------------------------- MODULE CheckpointProofs ---------------------------
(* Accusation and Checkpoint: guilt is a function of the graph, so verdicts   *)
(* are shared, where no accusation that proves nothing is in the way, and the *)
(* cached view is current; a certificate that is accepted was signed in its   *)
(* very state by the whole roster.  For every finite set of participants,     *)
(* whoever is faulty, and every bound.                                        *)
EXTENDS Checkpoint, CausalGraphProofs, FiniteSetTheorems

-----------------------------------------------------------------------------
\* Every set of numbers that is not empty has a least element.
LEMMA Smallest == LeastNumber
<1> SUFFICES ASSUME NEW S \in SUBSET Nat, S # {} PROVE \E x \in S : \A y \in S : x <= y
  BY DEF LeastNumber
<1>1. PICK x \in S : \A y \in S : ~(<<y, x>> \in OpToRel(<, Nat))
  BY NatLessThanWellFounded, WFMin, Zenon
<1>2. ASSUME NEW y \in S PROVE x <= y
  <2>1. x \in Nat /\ y \in Nat
    OBVIOUS
  <2>2. ~(y < x)
    BY <1>1, <2>1, Zenon DEF OpToRel
  <2> QED
    BY <2>1, <2>2
<1> QED
  BY <1>2

-----------------------------------------------------------------------------
(* Operations and what one participant makes of them.                         *)

Operation == [author : Peers, kind : Kinds, who : Peers, deps : SUBSET Nat,
              to : SUBSET Peers, bad : SUBSET Peers, of : Nat]

\* An accusation by anyone but the faulty member, whom nobody cheats.
Proven(op) == op.kind = "Accuse" /\ op.author # Faulty

\* Such an accusation names, among its dependencies, a contribution of the
\* accused whose slice to the accuser contradicts the commitment.
Founded(O, op) ==
    /\ Faulty \notin op.bad
    /\ Proven(op) =>
         /\ op.of \in op.deps
         /\ O[op.of].kind = "Contrib" /\ O[op.of].author = op.who /\ op.author \in O[op.of].bad

Signed(O) ==
    /\ O \in Seq(Operation) /\ Ordered(O)
    /\ \A o \in 1..Len(O) : O[o].bad \subseteq O[o].to /\ Founded(O, O[o])

\* Whom the accusations in a graph that prove something are about.
Accused(O, g) == {O[o].who : o \in {o \in DOMAIN g : Proven(O[o])}}

\* check_accusation tells the two kinds of accusation apart, in every graph that
\* has what the accusation depends on.
LEMMA Checked ==
    ASSUME NEW O, Signed(O), NEW g, Good(O, g), NEW o \in 1..Len(O), O[o].deps \subseteq DOMAIN g,
           O[o].kind = "Accuse"
    PROVE  CheckAccusation(O, g, O[o]) <=> Proven(O[o])
<1>1. Founded(O, O[o]) /\ DOMAIN g \subseteq 1..Len(O) /\ \A x \in 1..Len(O) : Faulty \notin O[x].bad
  BY DEF Signed, Good, Founded
<1>2. CASE O[o].author = Faulty
  BY <1>1, <1>2 DEF CheckAccusation, Proven
<1>3. CASE O[o].author # Faulty
  BY <1>1, <1>3 DEF CheckAccusation, Proven, Founded
<1> QED
  BY <1>2, <1>3

\* A participant with operations O and graph g ends a handler with P and h.
Follows(O, g, P, h) ==
    /\ Signed(P) /\ Good(P, h)
    /\ Len(O) <= Len(P) /\ \A o \in 1..Len(O) : P[o] = O[o]
    /\ DOMAIN g \subseteq DOMAIN h
    /\ \A x : Good(O, x) => Good(P, x)
    /\ \A x : Good(O, x) /\ Agree(g, x) => Agree(h, x)

\* Two steps of a handler make one.
LEMMA FollowsOn ==
    ASSUME NEW O, NEW g, NEW P, NEW h, NEW Q, NEW k, Len(O) \in Nat,
           Follows(O, g, P, h), Follows(P, h, Q, k)
    PROVE  Follows(O, g, Q, k)
<1>1. Len(P) \in Nat /\ Len(Q) \in Nat
  BY DEF Follows, Signed
<1>2. Len(O) <= Len(Q) /\ \A o \in 1..Len(O) : Q[o] = O[o]
  <2>1. \A o \in 1..Len(O) : o \in 1..Len(P)
    BY <1>1 DEF Follows
  <2> QED
    BY <1>1, <2>1 DEF Follows
<1> QED
  BY <1>2 DEF Follows

\* Participant::ingest adds an operation.
LEMMA AddFollows ==
    ASSUME NEW O, Signed(O), NEW g, Good(O, g), NEW o \in 1..Len(O), O[o].deps \subseteq DOMAIN g
    PROVE  Follows(O, g, O, Add(g, o, O[o].deps))
<1>1. Len(O) \in Nat /\ Ordered(O)
  BY DEF Signed
<1>2. /\ Good(O, Add(g, o, O[o].deps))
      /\ \A h : Good(O, h) /\ Agree(g, h) => Agree(Add(g, o, O[o].deps), h)
  BY <1>1, AddGood, Zenon
<1>3. DOMAIN Add(g, o, O[o].deps) = DOMAIN g \cup {o}
  BY AddDomain, Zenon
<1> QED
  BY <1>1, <1>2, <1>3 DEF Follows

\* Participant::sign appends an operation.
LEMMA SignFollows ==
    ASSUME NEW O, Signed(O), NEW g, Good(O, g), NEW op \in Operation,
           op.deps \subseteq DOMAIN g, op.bad \subseteq op.to, Founded(O, op)
    PROVE  Follows(O, g, Append(O, op), Add(g, Len(O) + 1, op.deps))
<1> DEFINE P == Append(O, op)
           n == Len(O)
           a == Add(g, Len(O) + 1, op.deps)
<1>1. n \in Nat /\ Ordered(O) /\ O \in Seq(Operation) /\ DOMAIN g \subseteq 1..n
  BY DEF Signed, Good
<1>2. /\ P \in Seq(Operation) /\ Len(P) = n + 1 /\ P[n + 1] = op
      /\ \A o \in 1..n : P[o] = O[o]
  BY <1>1
<1>3. /\ Ordered(P) /\ Good(P, a)
      /\ \A h : Good(O, h) => Good(P, h)
      /\ \A h : Good(O, h) /\ Agree(g, h) => Agree(a, h)
  BY <1>1, SignGood, Zenon
<1>4. DOMAIN a = DOMAIN g \cup {n + 1}
  BY AddDomain, Zenon
<1> HIDE DEF P, a, n
<1>5. ASSUME NEW x, x.deps \subseteq 1..n, Founded(O, x) PROVE Founded(P, x)
  BY <1>2, <1>5 DEF Founded
<1>6. ASSUME NEW o \in 1..(n + 1) PROVE P[o].bad \subseteq P[o].to /\ Founded(P, P[o])
  <2>1. CASE o = n + 1
    BY <1>1, <1>2, <1>5, <2>1
  <2>2. CASE o \in 1..n
    <3>1. O[o].deps \subseteq 1..(o - 1) /\ O[o].bad \subseteq O[o].to /\ Founded(O, O[o])
      BY <2>2 DEF Signed, Ordered, n
    <3>2. 1..(o - 1) \subseteq 1..n
      BY <1>1, <2>2
    <3> QED
      BY <1>2, <1>5, <2>2, <3>1, <3>2
  <2> QED
    BY <1>1, <2>1, <2>2
<1>7. Signed(P)
  BY <1>2, <1>3, <1>6 DEF Signed
<1>8. Follows(O, g, P, a)
  <2>1. Len(O) <= Len(P) /\ \A o \in 1..Len(O) : P[o] = O[o]
    BY <1>1, <1>2 DEF n
  <2> QED
    BY <1>3, <1>4, <1>7, <2>1 DEF Follows
<1> QED
  BY <1>8 DEF P, a

-----------------------------------------------------------------------------
(* The roster and the view are functions of the graph.                        *)

\* What is signed later changes nothing a graph says.
LEMMA ViewKept ==
    ASSUME NEW O, NEW P, NEW g, Len(O) \in Nat, Len(P) \in Nat, Good(O, g), O \in Seq(Operation),
           P \in Seq(Operation), Len(O) <= Len(P), \A o \in 1..Len(O) : P[o] = O[o], NEW c
    PROVE  View(P, g, c) = View(O, g, c) /\ Accused(P, g) = Accused(O, g)
<1>1. /\ DOMAIN g \subseteq 1..Len(O) /\ DOMAIN O = 1..Len(O) /\ DOMAIN P = 1..Len(P)
      /\ 1..Len(O) \subseteq 1..Len(P)
  BY DEF Good
<1>2. \A o \in DOMAIN g : P[o] = O[o]
  BY <1>1
<1>3. \A t : Accusations(P, DOMAIN g, t, c) = Accusations(O, DOMAIN g, t, c)
  BY <1>2 DEF Accusations
<1>4. MembersAmong(P, g, DOMAIN g, c) = MembersAmong(O, g, DOMAIN g, c)
  BY <1>2, <1>3 DEF MembersAmong
<1>5. Contribs(P) \cap DOMAIN g = Contribs(O) \cap DOMAIN g
  BY <1>1, <1>2 DEF Contribs
<1>6. Frontier(g, Contribs(P)) = Frontier(g, Contribs(O))
  BY <1>5 DEF Frontier
<1>7. Accused(P, g) = Accused(O, g)
  BY <1>2 DEF Accused
<1> QED
  BY <1>4, <1>6, <1>7 DEF View

\* Someone who is not accused is a member, once admitted.
LEMMA MembersTyped ==
    ASSUME NEW O, Signed(O), NEW g, Good(O, g), NEW c, NEW keep, keep \subseteq DOMAIN g
    PROVE  MembersAmong(O, g, keep, c) \subseteq Peers
<1>1. \A o \in keep : O[o] \in Operation
  BY DEF Signed, Good
<1> QED
  BY <1>1 DEF MembersAmong, Operation

\* Whom a graph holds guilty besides is not asked for when a past is judged in
\* which every accusation of t proves something.
LEMMA SameMembers ==
    ASSUME NEW O, NEW g, NEW h, Good(O, g), Good(O, h), Agree(g, h),
           NEW D, D \subseteq DOMAIN g, D \subseteq DOMAIN h,
           NEW t, \A x \in Closure(g, D) : O[x].kind = "Accuse" /\ O[x].who = t => Proven(O[x])
    PROVE  t \in MembersAmong(O, g, Closure(g, D), Accused(O, g))
             <=> t \in MembersAmong(O, h, Closure(h, D), Accused(O, h))
<1> DEFINE K == Closure(g, D)
<1>1. K = Closure(h, D) /\ K \subseteq DOMAIN g /\ K \subseteq DOMAIN h
  BY SameClosure, ClosureInside
<1>2. \A a \in K : \A r : Precedes(g, r, a) <=> Precedes(h, r, a)
  BY <1>1 DEF Precedes, Agree
<1>3. \A x \in K : O[x].kind = "Accuse" /\ O[x].who = t => Proven(O[x])
  OBVIOUS
<1> HIDE DEF K
<1>4. Accusations(O, K, t, Accused(O, g)) = Accusations(O, K, t, Accused(O, h))
  <2>1. ASSUME NEW x \in K, O[x].kind = "Accuse", O[x].who = t
        PROVE  t \in Accused(O, g) /\ t \in Accused(O, h)
    BY <1>1, <1>3, <2>1 DEF Accused
  <2> QED
    BY <2>1 DEF Accusations
<1>5. t \in MembersAmong(O, g, K, Accused(O, g)) <=> t \in MembersAmong(O, h, K, Accused(O, h))
  BY <1>2, <1>4 DEF MembersAmong
<1> QED
  BY <1>1, <1>5 DEF K

-----------------------------------------------------------------------------
(* The inductive invariant of Accusation.                                     *)

Graphs ==
    /\ Signed(ops) /\ sent \subseteq 1..Len(ops)
    /\ graph = [p \in Peers |-> graph[p]]
    /\ \A p \in Peers : Good(ops, graph[p])
    /\ \A p, q \in Peers : Agree(graph[p], graph[q])

\* Everybody's admission is in everybody's graph.
Admitted ==
    \A p, t \in Peers : \E a \in DOMAIN graph[p] : ops[a].kind = "Add" /\ ops[a].who = t

Guilt == guilty = [p \in Peers |-> Accused(ops, graph[p])]

\* The cached view is never out of date, not even between two handlers.
Cached ==
    derived = [p \in Peers |-> [epoch |-> Epoch(graph[p]), guilty |-> Cardinality(guilty[p]),
                                view |-> View(ops, graph[p], guilty[p])]]

IInv == Graphs /\ Admitted /\ Guilt /\ Cached

\* Participant::derived gives the view of the present graph and guilty set.
LEMMA CachedView ==
    ASSUME IInv, NEW p \in Peers
    PROVE  ViewOf(p) = View(ops, graph[p], guilty[p])
<1>1. derived[p] = [epoch |-> Epoch(graph[p]), guilty |-> Cardinality(guilty[p]),
                    view |-> View(ops, graph[p], guilty[p])]
  BY DEF IInv, Cached
<1>2. PICK d : d = derived[p]
  OBVIOUS
<1>3. /\ d.epoch = Epoch(graph[p]) /\ d.guilty = Cardinality(guilty[p])
      /\ d.view = View(ops, graph[p], guilty[p])
  BY <1>1, <1>2
<1>4. Derived(d, ops, graph[p], guilty[p]) = d
  BY <1>3 DEF Derived, Stale
<1> QED
  BY <1>2, <1>3, <1>4 DEF ViewOf

\* A graph grows by at least one operation, which the cache notices.
LEMMA Noticed ==
    ASSUME NEW O, Len(O) \in Nat, NEW h, Good(O, h), NEW g, DOMAIN g \subseteq DOMAIN h, DOMAIN g # DOMAIN h
    PROVE  Epoch(g) # Epoch(h)
<1>1. IsFiniteSet(DOMAIN h)
  <2>1. IsFiniteSet(1..Len(O))
    BY FS_Interval
  <2>2. DOMAIN h \in SUBSET (1..Len(O))
    BY DEF Good
  <2> QED
    BY <2>1, <2>2, FS_Subset
<1>2. Cardinality(DOMAIN h) = Cardinality(DOMAIN g) => DOMAIN h = DOMAIN g
  BY <1>1, FS_Subset
<1> QED
  BY <1>2 DEF Epoch

\* A handler of p that ends with operations P, graph h and guilty set c.
LEMMA SetInv ==
    ASSUME IInv, NEW p \in Peers, NEW P, NEW h, NEW c, NEW out, Set(p, P, h, c, out),
           Follows(ops, graph[p], P, h), DOMAIN h # DOMAIN graph[p],
           c = Accused(P, h), out \subseteq 1..Len(P)
    PROVE  IInv'
<1>1. /\ ops' = P /\ graph' = [graph EXCEPT ![p] = h] /\ guilty' = [guilty EXCEPT ![p] = c]
      /\ derived' = [derived EXCEPT ![p] = Derived(derived[p], ops', graph'[p], guilty'[p])]
      /\ sent' = sent \cup out
  BY DEF Set
<1>2. Graphs /\ Admitted /\ Guilt /\ Cached
  BY DEF IInv
<1>3. /\ Signed(P) /\ Good(P, h) /\ Len(ops) <= Len(P) /\ (\A o \in 1..Len(ops) : P[o] = ops[o])
      /\ DOMAIN graph[p] \subseteq DOMAIN h /\ (\A x : Good(ops, x) => Good(P, x))
      /\ \A x : Good(ops, x) /\ Agree(graph[p], x) => Agree(h, x)
  BY DEF Follows
<1>4. /\ Len(ops) \in Nat /\ Len(P) \in Nat /\ 1..Len(ops) \subseteq 1..Len(P)
      /\ ops \in Seq(Operation) /\ P \in Seq(Operation)
  BY <1>2, <1>3 DEF Graphs, Signed
<1>5. graph' = [q \in Peers |-> IF q = p THEN h ELSE graph[q]]
  BY <1>1, <1>2 DEF Graphs
<1>6. Graphs'
  <2>1. \A q \in Peers : Good(P, graph'[q])
    BY <1>2, <1>3, <1>5 DEF Graphs
  <2>2. \A x, y : Agree(x, y) => Agree(y, x)
    BY DEF Agree
  <2>3. Agree(h, h) /\ \A q \in Peers : Agree(h, graph[q])
    BY <1>2, <1>3 DEF Graphs, Agree
  <2>4. \A q, r \in Peers : Agree(graph'[q], graph'[r])
    BY <1>2, <1>5, <2>2, <2>3 DEF Graphs
  <2>5. sent' \subseteq 1..Len(P)
    BY <1>1, <1>2, <1>4 DEF Graphs
  <2> QED
    BY <1>1, <1>3, <1>5, <2>1, <2>4, <2>5, Zenon DEF Graphs
<1>7. Admitted'
  <2>1. \A q \in Peers : DOMAIN graph[q] \subseteq 1..Len(ops)
    BY <1>2 DEF Graphs, Good
  <2>2. \A q \in Peers : DOMAIN graph[q] \subseteq DOMAIN graph'[q]
    BY <1>3, <1>5
  <2> QED
    BY <1>1, <1>2, <1>3, <2>1, <2>2, SMTT(30), Zenon DEF Admitted
<1>8. \A q \in Peers : \A x : /\ View(P, graph[q], x) = View(ops, graph[q], x)
                              /\ Accused(P, graph[q]) = Accused(ops, graph[q])
  BY <1>2, <1>3, <1>4, ViewKept, Zenon DEF Graphs
<1>9. guilty' = [q \in Peers |-> IF q = p THEN c ELSE guilty[q]]
  BY <1>1, <1>2 DEF Guilt
<1>10. Guilt'
  <2>1. \A q \in Peers : guilty'[q] = Accused(P, graph'[q])
    BY <1>2, <1>5, <1>8, <1>9 DEF Guilt
  <2> QED
    BY <1>1, <1>9, <2>1, Zenon DEF Guilt
<1>11. Cached'
  <2> DEFINE D(q) == [epoch |-> Epoch(graph'[q]), guilty |-> Cardinality(guilty'[q]),
                      view |-> View(P, graph'[q], guilty'[q])]
  <2>1. graph'[p] = h /\ guilty'[p] = c
    BY <1>5, <1>9
  <2>2. derived[p].epoch = Epoch(graph[p])
    BY <1>2 DEF Cached
  <2>3. Epoch(graph[p]) # Epoch(h)
    BY <1>3, <1>4, Noticed
  <2>4. Stale(derived[p], h, c)
    BY <2>2, <2>3 DEF Stale
  <2>5. Derived(derived[p], ops', graph'[p], guilty'[p]) = D(p)
    BY <1>1, <2>1, <2>4 DEF Derived
  <2>6. \A q \in Peers \ {p} : derived[q] = D(q)
    BY <1>2, <1>5, <1>8, <1>9, Zenon DEF Cached
  <2> HIDE DEF D
  <2>7. derived' = [q \in Peers |-> IF q = p THEN D(p) ELSE derived[q]]
    BY <1>1, <1>2, <2>5 DEF Cached
  <2>8. derived' = [q \in Peers |-> D(q)]
    BY <2>6, <2>7
  <2> QED
    BY <1>1, <2>8, Zenon DEF Cached, D
<1> QED
  BY <1>6, <1>7, <1>10, <1>11 DEF IInv

-----------------------------------------------------------------------------
(* The handlers.                                                              *)

\* The guilty set c after the operation op.
Charged(c, op) == IF Proven(op) THEN c \cup {op.who} ELSE c

\* An operation added to a graph adds whom it accuses, if it proves it.
LEMMA AccusedAdd ==
    ASSUME NEW O, NEW g, NEW o, NEW D
    PROVE  Accused(O, Add(g, o, D)) = Charged(Accused(O, g), O[o])
<1>1. DOMAIN Add(g, o, D) = DOMAIN g \cup {o}
  BY AddDomain, Zenon
<1> QED
  BY <1>1 DEF Accused, Charged

\* The same of one that has just been signed.
LEMMA AccusedSign ==
    ASSUME NEW O \in Seq(Operation), NEW g, Good(O, g), NEW op \in Operation, NEW D
    PROVE  Accused(Append(O, op), Add(g, Len(O) + 1, D)) = Charged(Accused(O, g), op)
<1> DEFINE P == Append(O, op)
           k == Len(O) + 1
<1>1. /\ P[k] = op /\ \A o \in 1..Len(O) : P[o] = O[o]
  OBVIOUS
<1>2. DOMAIN g \subseteq 1..Len(O)
  BY DEF Good
<1> HIDE DEF P, k
<1>3. Accused(P, g) = Accused(O, g)
  BY <1>1, <1>2 DEF Accused
<1>4. Accused(P, Add(g, k, D)) = Charged(Accused(O, g), op)
  BY <1>1, <1>3, AccusedAdd
<1> QED
  BY <1>4 DEF P, k

\* op is signed by p on top of graph g.
OnTop(op, p, g, kind, to, bad) ==
    /\ op \in Operation /\ op.deps = Heads(g) /\ op.deps \subseteq DOMAIN g
    /\ op.author = p /\ op.kind = kind /\ op.to = to /\ op.bad = bad

\* A record with the heads as dependencies is an operation on top of the graph.
LEMMA RecordOnTop ==
    ASSUME NEW O, Len(O) \in Nat, NEW g, Good(O, g), NEW p \in Peers, NEW kind \in Kinds,
           NEW who \in Peers, NEW to \in SUBSET Peers, NEW bad \in SUBSET Peers, NEW of \in Nat,
           NEW op, op = [author |-> p, kind |-> kind, who |-> who, deps |-> Heads(g), to |-> to,
                         bad |-> bad, of |-> of]
    PROVE  OnTop(op, p, g, kind, to, bad)
<1>1. Heads(g) \subseteq DOMAIN g /\ DOMAIN g \subseteq Nat
  BY DEF Heads, Good
<1>2. op \in Operation
  BY <1>1 DEF Operation
<1>3. op.deps = Heads(g) /\ op.author = p /\ op.kind = kind /\ op.to = to /\ op.bad = bad
  OBVIOUS
<1> QED
  BY <1>1, <1>2, <1>3 DEF OnTop

\* contribute_excluding.
LEMMA ContributionOnTop ==
    ASSUME NEW O, Len(O) \in Nat, NEW g, Good(O, g), NEW p \in Peers, NEW M \in SUBSET Peers,
           NEW bad \in SUBSET Peers
    PROVE  OnTop(Contribution(O, g, p, M, bad), p, g, "Contrib", M \ {p}, bad)
<1>1. PICK op, to, kind, of : /\ op = Contribution(O, g, p, M, bad) /\ to = M \ {p}
                              /\ kind = "Contrib" /\ of = 0
  BY Zenon
<1>2. op = [author |-> p, kind |-> kind, who |-> p, deps |-> Heads(g), to |-> to,
            bad |-> bad, of |-> of]
  BY <1>1, Zenon DEF Contribution, Op, NoOp
<1>3. kind \in Kinds /\ to \in SUBSET Peers /\ of \in Nat
  BY <1>1 DEF Kinds
<1>4. OnTop(op, p, g, kind, to, bad)
  BY <1>2, <1>3, RecordOnTop
<1> QED
  BY <1>1, <1>4

\* contribute keeps the invariant.
LEMMA ContributeInv ==
    ASSUME IInv, NEW p \in Peers, NEW bad \in SUBSET (Peers \ {Faulty}), Contribute(p, bad)
    PROVE  IInv'
<1> DEFINE M == ViewOf(p).members
<1>1. PICK op : op = Contribution(ops, graph[p], p, M, bad)
  OBVIOUS
<1>2. PICK P, h, k : P = Append(ops, op) /\ k = Len(ops) + 1 /\ h = Add(graph[p], k, op.deps)
  BY Zenon
<1>3. bad \subseteq op.to /\ Set(p, P, h, guilty[p], {k})
  BY <1>1, <1>2 DEF Contribute
<1>4. /\ Signed(ops) /\ ops \in Seq(Operation) /\ Len(ops) \in Nat /\ Good(ops, graph[p])
      /\ guilty[p] = Accused(ops, graph[p])
  BY DEF IInv, Graphs, Guilt, Signed
<1>5. M \in SUBSET Peers
  BY <1>4, CachedView, MembersTyped DEF View
<1> HIDE DEF M
<1>6. /\ op \in Operation /\ op.deps \subseteq DOMAIN graph[p] /\ op.kind = "Contrib"
      /\ op.to = M \ {p} /\ op.bad = bad
  <2>1. OnTop(Contribution(ops, graph[p], p, M, bad), p, graph[p], "Contrib", M \ {p}, bad)
    <3>1. bad \in SUBSET Peers
      OBVIOUS
    <3> QED
      BY <1>4, <1>5, <3>1, ContributionOnTop, Zenon
  <2> QED
    BY <1>1, <2>1 DEF OnTop
<1>7. Founded(ops, op) /\ op.bad \subseteq op.to
  BY <1>3, <1>6 DEF Founded, Proven
<1>8. Follows(ops, graph[p], P, h)
  BY <1>2, <1>4, <1>6, <1>7, SignFollows
<1>9. DOMAIN h # DOMAIN graph[p] /\ {k} \subseteq 1..Len(P)
  <2>1. DOMAIN h = DOMAIN graph[p] \cup {k}
    BY <1>2, AddDomain, Zenon
  <2>2. k \notin DOMAIN graph[p] /\ k \in 1..Len(P)
    BY <1>2, <1>4, <1>6 DEF Good
  <2> QED
    BY <2>1, <2>2
<1>10. Accused(P, h) = guilty[p]
  <2>1. Accused(P, h) = Charged(Accused(ops, graph[p]), op)
    <3>1. Accused(Append(ops, op), Add(graph[p], Len(ops) + 1, op.deps))
            = Charged(Accused(ops, graph[p]), op)
      BY <1>4, <1>6, AccusedSign
    <3> QED
      BY <1>2, <3>1
  <2> QED
    BY <1>4, <1>6, <2>1 DEF Charged, Proven
<1> QED
  BY <1>3, <1>8, <1>9, <1>10, SetInv

\* invite keeps the invariant.
LEMMA InviteInv ==
    ASSUME IInv, NEW p \in Peers, Invite(p)
    PROVE  IInv'
<1>1. PICK add, O, g, k : /\ add = Op(p, "Add", Faulty, graph[p]) /\ k = Len(ops) + 1
                          /\ O = Append(ops, add) /\ g = Add(graph[p], k, add.deps)
  BY Zenon
<1> DEFINE M == View(O, g, guilty[p]).members
<1>2. PICK op, P, h : /\ op = Contribution(O, g, p, M, {})
                      /\ P = Append(O, op) /\ h = Add(g, k + 1, op.deps)
  BY Zenon
<1>3. Set(p, P, h, guilty[p], {k, k + 1})
  BY <1>1, <1>2, Zenon DEF Invite
<1>4. /\ Signed(ops) /\ ops \in Seq(Operation) /\ Len(ops) \in Nat /\ Good(ops, graph[p])
      /\ guilty[p] = Accused(ops, graph[p])
  BY DEF IInv, Graphs, Guilt, Signed
<1>5. /\ add \in Operation /\ add.deps \subseteq DOMAIN graph[p] /\ add.kind = "Add"
      /\ add.bad = {} /\ add.to = {}
  <2>1. PICK kind, none, of : kind = "Add" /\ none = {} /\ of = 0
    BY Zenon
  <2>2. add = [author |-> p, kind |-> kind, who |-> Faulty, deps |-> Heads(graph[p]), to |-> none,
               bad |-> none, of |-> of]
    BY <1>1, <2>1 DEF Op, NoOp
  <2>3. kind \in Kinds /\ none \in SUBSET Peers /\ of \in Nat /\ Faulty \in Peers
    BY <2>1, AccusationAssumption DEF Kinds
  <2> QED
    <3>1. OnTop(add, p, graph[p], kind, none, none)
      BY <1>4, <2>2, <2>3, RecordOnTop
    <3> QED
      BY <2>1, <3>1 DEF OnTop
<1>6. Follows(ops, graph[p], O, g)
  <2>1. Founded(ops, add)
    BY <1>5, SMTT(30), Zenon DEF Founded, Proven
  <2> QED
    BY <1>1, <1>4, <1>5, <2>1, SignFollows
<1>7. /\ Signed(O) /\ Good(O, g) /\ O \in Seq(Operation) /\ Len(O) = k /\ Len(O) \in Nat
  BY <1>1, <1>4, <1>5, <1>6 DEF Follows, Signed
<1>8. M \in SUBSET Peers
  BY <1>7, MembersTyped DEF View
<1> HIDE DEF M
<1>9. /\ op \in Operation /\ op.deps \subseteq DOMAIN g /\ op.kind = "Contrib" /\ op.bad = {}
  <2>1. OnTop(Contribution(O, g, p, M, {}), p, g, "Contrib", M \ {p}, {})
    BY <1>7, <1>8, ContributionOnTop
  <2> QED
    BY <1>2, <2>1 DEF OnTop
<1>10. Follows(O, g, P, h)
  <2>1. Founded(O, op) /\ op.bad \subseteq op.to
    BY <1>9 DEF Founded, Proven
  <2> QED
    BY <1>2, <1>7, <1>9, <2>1, SignFollows
<1>11. Follows(ops, graph[p], P, h)
  BY <1>4, <1>6, <1>10, FollowsOn
<1>12. DOMAIN h # DOMAIN graph[p] /\ {k, k + 1} \subseteq 1..Len(P)
  <2>1. DOMAIN g = DOMAIN graph[p] \cup {k}
    BY <1>1, AddDomain, Zenon
  <2>2. DOMAIN h = DOMAIN g \cup {k + 1}
    BY <1>2, AddDomain, Zenon
  <2>3. k \notin DOMAIN graph[p] /\ k \in 1..Len(P) /\ k + 1 \in 1..Len(P)
    BY <1>1, <1>2, <1>4, <1>7, <1>9 DEF Good
  <2> QED
    BY <2>1, <2>2, <2>3
<1>13. Accused(P, h) = guilty[p]
  <2>1. Accused(O, g) = Charged(Accused(ops, graph[p]), add)
    <3>1. Accused(Append(ops, add), Add(graph[p], Len(ops) + 1, add.deps))
            = Charged(Accused(ops, graph[p]), add)
      BY <1>4, <1>5, AccusedSign
    <3> QED
      BY <1>1, <3>1
  <2>2. h = Add(g, Len(O) + 1, op.deps)
    BY <1>2, <1>7
  <2>3. Accused(P, h) = Charged(Accused(O, g), op)
    <3>1. Accused(Append(O, op), Add(g, Len(O) + 1, op.deps)) = Charged(Accused(O, g), op)
      BY <1>7, <1>9, AccusedSign
    <3> QED
      BY <1>2, <2>2, <3>1
  <2> QED
    BY <1>4, <1>5, <1>9, <2>1, <2>3 DEF Charged, Proven
<1> QED
  BY <1>3, <1>11, <1>12, <1>13, SetInv

\* What was just added is a head.
LEMMA NewestIsHead ==
    ASSUME NEW O, NEW g, Good(O, g), NEW o, o \notin DOMAIN g, NEW D, D \subseteq DOMAIN g
    PROVE  o \in Heads(Add(g, o, D))
<1>1. Add(g, o, D) = [x \in DOMAIN g \cup {o} |-> IF x = o THEN Closure(g, D) ELSE g[x]]
  BY DEF Add
<1>2. Closure(g, D) \subseteq DOMAIN g /\ \A x \in DOMAIN g : g[x] \subseteq DOMAIN g
  BY ClosureInside DEF Good
<1> QED
  BY <1>1, <1>2 DEF Heads

\* ingest of an operation, open_slice included.
LEMMA IngestInv ==
    ASSUME IInv, NEW p \in Peers, NEW o \in DOMAIN ops, Ingest(p, o)
    PROVE  IInv'
<1>1. PICK op, g : op = ops[o] /\ g = Add(graph[p], o, op.deps)
  OBVIOUS
<1>2. /\ o \notin DOMAIN graph[p] /\ op.deps \subseteq DOMAIN graph[p]
      /\ op.kind = "Contrib" /\ p \in op.bad => OpenSlice(p, o, g)
      /\ op.kind = "Accuse" => Set(p, ops, g, Convict(ops, g, op, guilty[p]), {})
      /\ ~(op.kind = "Contrib" /\ p \in op.bad) /\ op.kind # "Accuse" => Set(p, ops, g, guilty[p], {})
  BY <1>1 DEF Ingest, Dag, DepsSatisfied
<1>3. /\ Signed(ops) /\ ops \in Seq(Operation) /\ Len(ops) \in Nat /\ Good(ops, graph[p])
      /\ guilty[p] = Accused(ops, graph[p]) /\ o \in 1..Len(ops)
  BY DEF IInv, Graphs, Guilt, Signed
<1>4. op \in Operation /\ Founded(ops, op)
  BY <1>1, <1>3 DEF Signed
<1>5. Follows(ops, graph[p], ops, g)
  BY <1>1, <1>2, <1>3, AddFollows
<1>6. DOMAIN g = DOMAIN graph[p] \cup {o}
  BY <1>1, AddDomain, Zenon
<1>7. Accused(ops, g) = Charged(guilty[p], op)
  BY <1>1, <1>3, AccusedAdd, Zenon
<1>8. CASE op.kind = "Accuse"
  <2>1. CheckAccusation(ops, g, op) <=> Proven(op)
    <3>1. Good(ops, g) /\ op.deps \subseteq DOMAIN g
      BY <1>2, <1>5, <1>6 DEF Follows
    <3> QED
      BY <1>1, <1>3, <1>8, <3>1, Checked
  <2>2. Convict(ops, g, op, guilty[p]) = Accused(ops, g)
    BY <1>7, <1>8, <2>1 DEF Convict, Charged
  <2>3. Set(p, ops, g, Accused(ops, g), {}) /\ DOMAIN g # DOMAIN graph[p]
    BY <1>2, <1>6, <1>8, <2>2
  <2> QED
    BY <1>5, <2>3, SetInv
<1>9. CASE op.kind = "Contrib" /\ p \in op.bad
  <2>1. PICK acc, P, h : /\ acc = [Op(p, "Accuse", op.author, g) EXCEPT !.of = o]
                         /\ P = Append(ops, acc) /\ h = Add(g, Len(ops) + 1, acc.deps)
    BY Zenon
  <2>2. Set(p, P, h, Convict(ops, g, acc, guilty[p]), {})
    BY <1>1, <1>2, <1>9, <2>1 DEF OpenSlice
  <2>3. Good(ops, g)
    BY <1>5 DEF Follows
  <2>4. /\ acc \in Operation /\ acc.deps = Heads(g) /\ acc.deps \subseteq DOMAIN g /\ acc.author = p
        /\ acc.kind = "Accuse" /\ acc.bad = {} /\ acc.who = op.author /\ acc.of = o
    <3>1. PICK kind, none, who : kind = "Accuse" /\ none = {} /\ who = op.author
      BY Zenon
    <3>2. acc = [author |-> p, kind |-> kind, who |-> who, deps |-> Heads(g), to |-> none,
                 bad |-> none, of |-> o]
      BY <2>1, <3>1, Zenon DEF Op
    <3>3. kind \in Kinds /\ none \in SUBSET Peers /\ who \in Peers /\ o \in Nat
      BY <1>3, <1>4, <3>1 DEF Kinds, Operation
    <3>4. OnTop(acc, p, g, kind, none, none)
      BY <1>3, <2>3, <3>2, <3>3, RecordOnTop
    <3>5. acc.who = who /\ acc.of = o
      BY <3>2
    <3> QED
      BY <3>1, <3>4, <3>5 DEF OnTop
  <2>5. o \in acc.deps
    BY <1>1, <1>2, <1>3, <2>4, NewestIsHead
  <2>6. Founded(ops, acc) /\ Proven(acc)
    <3>1. p # Faulty
      BY <1>4, <1>9 DEF Founded
    <3> QED
      BY <1>1, <1>9, <2>4, <2>5, <3>1 DEF Founded, Proven
  <2>7. Follows(ops, g, P, h)
    BY <1>3, <2>1, <2>3, <2>4, <2>6, SignFollows, Zenon
  <2>8. Follows(ops, graph[p], P, h)
    BY <1>3, <1>5, <2>7, FollowsOn
  <2>9. DOMAIN h # DOMAIN graph[p]
    BY <1>2, <1>6, <2>7 DEF Follows
  <2>10. Accused(P, h) = Charged(Accused(ops, g), acc)
    <3>1. Accused(Append(ops, acc), Add(g, Len(ops) + 1, acc.deps)) = Charged(Accused(ops, g), acc)
      BY <1>3, <2>3, <2>4, AccusedSign
    <3> QED
      BY <2>1, <3>1
  <2>11. CheckAccusation(ops, g, acc)
    BY <1>1, <1>6, <1>9, <2>4 DEF CheckAccusation
  <2>12. Convict(ops, g, acc, guilty[p]) = Accused(P, h)
    <3>1. ~Proven(op)
      BY <1>9 DEF Proven
    <3> QED
      BY <1>7, <2>6, <2>10, <2>11, <3>1 DEF Convict, Charged
  <2> QED
    BY <2>2, <2>8, <2>9, <2>12, SetInv
<1>10. CASE ~(op.kind = "Contrib" /\ p \in op.bad) /\ op.kind # "Accuse"
  <2>1. guilty[p] = Accused(ops, g)
    BY <1>7, <1>10 DEF Charged, Proven
  <2>2. Set(p, ops, g, guilty[p], {}) /\ DOMAIN g # DOMAIN graph[p]
    BY <1>2, <1>6, <1>10
  <2> QED
    BY <1>5, <2>1, <2>2, SetInv
<1> QED
  BY <1>8, <1>9, <1>10

\* An accusation that proves nothing keeps the invariant: nobody is charged.
LEMMA AccuseFalselyInv ==
    ASSUME IInv, NEW p \in Peers, NEW of \in DOMAIN ops, AccuseFalsely(p, of)
    PROVE  IInv'
<1>1. PICK acc, P, h, k : /\ acc = [Op(p, "Accuse", ops[of].author, graph[p]) EXCEPT !.of = of]
                          /\ P = Append(ops, acc) /\ k = Len(ops) + 1 /\ h = Add(graph[p], k, acc.deps)
  BY Zenon
<1>2. p = Faulty /\ Set(p, P, h, guilty[p], {k})
  BY <1>1, Zenon DEF AccuseFalsely
<1>3. /\ Signed(ops) /\ ops \in Seq(Operation) /\ Len(ops) \in Nat /\ Good(ops, graph[p])
      /\ guilty[p] = Accused(ops, graph[p]) /\ of \in 1..Len(ops)
  BY DEF IInv, Graphs, Guilt, Signed
<1>4. /\ acc \in Operation /\ acc.deps \subseteq DOMAIN graph[p] /\ acc.author = Faulty
      /\ acc.bad = {} /\ acc.to = {}
  <2>1. PICK kind, none, who : kind = "Accuse" /\ none = {} /\ who = ops[of].author
    BY Zenon
  <2>2. acc = [author |-> p, kind |-> kind, who |-> who, deps |-> Heads(graph[p]), to |-> none,
               bad |-> none, of |-> of]
    BY <1>1, <2>1, Zenon DEF Op
  <2>3. ops[of] \in Operation
    BY <1>3
  <2>4. kind \in Kinds /\ none \in SUBSET Peers /\ who \in Peers /\ of \in Nat
    BY <1>3, <2>1, <2>3 DEF Kinds, Operation
  <2>5. OnTop(acc, p, graph[p], kind, none, none)
    BY <1>3, <2>2, <2>4, RecordOnTop
  <2> QED
    BY <1>2, <2>1, <2>5 DEF OnTop
<1>5. Founded(ops, acc) /\ acc.bad \subseteq acc.to /\ ~Proven(acc)
  BY <1>4 DEF Founded, Proven
<1>6. Follows(ops, graph[p], P, h)
  BY <1>1, <1>3, <1>4, <1>5, SignFollows
<1>7. DOMAIN h # DOMAIN graph[p] /\ {k} \subseteq 1..Len(P)
  <2>1. DOMAIN h = DOMAIN graph[p] \cup {k}
    BY <1>1, AddDomain, Zenon
  <2>2. k \notin DOMAIN graph[p] /\ k \in 1..Len(P)
    BY <1>1, <1>3, <1>4 DEF Good
  <2> QED
    BY <2>1, <2>2
<1>8. Accused(P, h) = guilty[p]
  <2>1. Accused(Append(ops, acc), Add(graph[p], Len(ops) + 1, acc.deps))
          = Charged(Accused(ops, graph[p]), acc)
    BY <1>3, <1>4, AccusedSign
  <2> QED
    BY <1>1, <1>3, <1>5, <2>1 DEF Charged
<1> QED
  BY <1>2, <1>6, <1>7, <1>8, SetInv

-----------------------------------------------------------------------------
(* The history everybody starts from.                                         *)

\* A finite set listed without repetition.
LEMMA SetListed ==
    ASSUME NEW S, IsFiniteSet(S)
    PROVE  /\ Bijection(1..Cardinality(S), S) # {}
           /\ \A f \in Bijection(1..Cardinality(S), S) :
                f \in Seq(S) /\ \A x \in S : \E i \in 1..Len(f) : f[i] = x
<1>1. PICK n : n = Cardinality(S)
  OBVIOUS
<1>2. n \in Nat /\ ExistsBijection(1..n, S)
  BY <1>1, FS_CardinalityType
<1>3. Bijection(1..n, S) # {}
  BY <1>2 DEF ExistsBijection
<1>4. ASSUME NEW f \in Bijection(1..n, S)
      PROVE  f \in Seq(S) /\ \A x \in S : \E i \in 1..Len(f) : f[i] = x
  <2>1. f \in [1..n -> S] /\ f \in Surjection(1..n, S)
    BY DEF Bijection, Injection
  <2>2. f \in Seq(S) /\ Len(f) = n
    BY <1>2, <2>1
  <2> QED
    BY <2>1, <2>2, Zenon DEF Surjection
<1> QED
  BY <1>1, <1>3, <1>4

\* The founder's history: a chain of admissions and one contribution.
LEMMA ChainGood ==
    ASSUME NEW n \in Nat \ {0}, NEW O \in Seq(Operation), Len(O) = n + 2,
           \A o \in 1..n : O[o].deps = 1..(o - 1) \ 1..(o - 2),
           O[n + 1].deps = {n}, NEW g, g = [o \in 1..(n + 1) |-> 1..(o - 1)]
    PROVE  Good(O, g)
<1>1. DOMAIN g = 1..(n + 1) /\ \A o \in DOMAIN g : g[o] = 1..(o - 1)
  OBVIOUS
<1>2. \A o \in DOMAIN g : O[o].deps = IF o = 1 THEN {} ELSE {o - 1}
  <2> SUFFICES ASSUME NEW o \in 1..(n + 1) PROVE O[o].deps = IF o = 1 THEN {} ELSE {o - 1}
    BY <1>1, Zenon
  <2>1. CASE o = n + 1
    <3>1. o # 1 /\ o - 1 = n
      BY <2>1
    <3> QED
      BY <2>1, <3>1
  <2>2. CASE o # n + 1
    <3>1. o \in 1..n
      BY <2>2
    <3>2. 1..(o - 1) \ 1..(o - 2) = IF o = 1 THEN {} ELSE {o - 1}
      BY <3>1
    <3> QED
      BY <3>1, <3>2, Zenon
  <2> QED
    BY <2>1, <2>2
<1>3. ASSUME NEW o \in DOMAIN g
      PROVE  /\ O[o].deps \subseteq DOMAIN g /\ g[o] = Closure(g, O[o].deps)
             /\ \A x \in g[o] : x < o
             /\ g[o] \subseteq DOMAIN g
  <2>1. CASE o = 1
    <3>1. O[o].deps = {} /\ g[o] = {}
      BY <1>1, <1>2, <2>1
    <3> QED
      BY <3>1 DEF Closure
  <2>2. CASE o # 1
    <3>1. O[o].deps = {o - 1} /\ o - 1 \in DOMAIN g /\ g[o] = 1..(o - 1) /\ g[o - 1] = 1..(o - 2)
      <4>1. o \in 1..(n + 1) /\ o - 1 \in 1..(n + 1) /\ (o - 1) - 1 = o - 2
        BY <1>1, <2>2
      <4>2. O[o].deps = {o - 1}
        BY <1>2, <2>2, <4>1, Zenon
      <4>3. o - 1 \in DOMAIN g /\ g[o] = 1..(o - 1) /\ g[o - 1] = 1..((o - 1) - 1)
        BY <1>1, <4>1, Zenon
      <4> QED
        BY <4>1, <4>2, <4>3
    <3>2. Closure(g, {o - 1}) = {o - 1} \cup g[o - 1]
      BY <3>1 DEF Closure
    <3>3. 1..(o - 1) = {o - 1} \cup 1..(o - 2)
      BY <1>1, <2>2
    <3>4. (\A x \in 1..(o - 1) : x < o) /\ 1..(o - 1) \subseteq DOMAIN g
      BY <1>1
    <3> QED
      BY <3>1, <3>2, <3>3, <3>4, Zenon
  <2> QED
    BY <2>1, <2>2
<1>4. g \in [DOMAIN g -> SUBSET DOMAIN g] /\ DOMAIN g \subseteq 1..Len(O)
  BY <1>1, <1>3
<1> QED
  BY <1>3, <1>4 DEF Good

\* The operations of Init, made from one another.
Shaped(x, kind, deps, to, bad) ==
    x \in Operation /\ x.kind = kind /\ x.deps = deps /\ x.to = to /\ x.bad = bad

\* An admission of the history the conference starts from.
LEMMA AdmissionShape ==
    ASSUME NEW f, NEW d0, Shaped(f, "Add", d0, {}, {}), NEW w \in Peers, NEW d \in SUBSET Nat
    PROVE  /\ Shaped([f EXCEPT !.who = w, !.deps = d], "Add", d, {}, {})
           /\ [f EXCEPT !.who = w, !.deps = d].who = w
<1>1. PICK x : x = [f EXCEPT !.who = w, !.deps = d]
  OBVIOUS
<1>2. x \in Operation
  BY <1>1, Zenon DEF Operation, Shaped
<1>3. x.kind = f.kind /\ x.who = w /\ x.deps = d /\ x.to = f.to /\ x.bad = f.bad
  BY <1>1 DEF Operation, Shaped
<1>4. Shaped(x, "Add", d, {}, {}) /\ x.who = w
  BY <1>2, <1>3 DEF Shaped
<1> QED
  BY <1>1, <1>4

\* A contribution in that history.
LEMMA ContributionShape ==
    ASSUME NEW f, NEW d0, Shaped(f, "Add", d0, {}, {}), NEW q \in Peers, NEW d \in SUBSET Nat,
           NEW r \in SUBSET Peers
    PROVE  Shaped([f EXCEPT !.author = q, !.kind = "Contrib", !.who = q, !.deps = d, !.to = r],
                  "Contrib", d, r, {})
<1>1. PICK x, k : k = "Contrib" /\ x = [f EXCEPT !.author = q, !.kind = k, !.who = q, !.deps = d, !.to = r]
  BY Zenon
<1>2. k \in Kinds
  BY <1>1 DEF Kinds
<1>3. x \in Operation
  BY <1>1, <1>2, Zenon DEF Operation, Shaped
<1>4. x.kind = k /\ x.deps = d /\ x.to = r /\ x.bad = f.bad
  BY <1>1 DEF Operation, Shaped
<1>5. Shaped(x, k, d, r, {})
  BY <1>3, <1>4 DEF Shaped
<1> QED
  BY <1>1, <1>5

\* The same contribution, with some slices that differ from what it commits to.
LEMMA EquivocationShape ==
    ASSUME NEW f, NEW k, NEW d, NEW r, Shaped(f, k, d, r, {}), NEW b \in SUBSET Peers
    PROVE  Shaped([f EXCEPT !.bad = b], k, d, r, b)
<1>1. PICK x : x = [f EXCEPT !.bad = b]
  BY Zenon
<1>2. x \in Operation
  BY <1>1 DEF Operation, Shaped
<1>3. x.kind = k /\ x.deps = d /\ x.to = r /\ x.bad = b
  BY <1>1 DEF Operation, Shaped
<1> QED
  BY <1>1, <1>2, <1>3 DEF Shaped

\* The invariant holds where the conference starts.
LEMMA InitInv == Init => IInv
<1> SUFFICES ASSUME Init PROVE IInv
  BY Zenon
<1> DEFINE others == Peers \ {Founder}
           roster == <<Founder>> \o (CHOOSE f \in Bijection(1..Cardinality(others), others) : TRUE)
           n == Len(roster)
           first == Op(Founder, "Add", Founder, EmptyGraph)
           add(o) == [first EXCEPT !.who = roster[o], !.deps = 1..(o - 1) \ 1..(o - 2)]
           contrib(p, o) == [first EXCEPT !.author = p, !.kind = "Contrib", !.who = p,
                                          !.deps = {o - 1}, !.to = Peers \ {p}]
           g == [o \in 1..(n + 1) |-> 1..(o - 1)]
           A == [o \in 1..n |-> add(o)]
           c1 == contrib(Founder, n + 1)
<1>1. PICK bad \in SUBSET (Peers \ {Faulty}) :
        /\ ops = A \o <<c1, [contrib(Faulty, n + 2) EXCEPT !.bad = bad]>>
        /\ sent = {n + 2}
        /\ graph = [p \in Peers |-> IF p = Faulty THEN Add(g, n + 2, {n + 1}) ELSE g]
        /\ guilty = [p \in Peers |-> {}]
        /\ derived = [p \in Peers |-> [epoch |-> Epoch(graph[p]), guilty |-> 0,
                                       view |-> View(ops, graph[p], {})]]
  BY Zenon DEF Init
<1> DEFINE c2 == [contrib(Faulty, n + 2) EXCEPT !.bad = bad]
<1>2. /\ Founder \in Peers /\ Faulty \in Peers /\ IsFiniteSet(Peers)
  BY AccusationAssumption
<1>3. /\ roster \in Seq(Peers) /\ n \in Nat \ {0}
      /\ \A t \in Peers : \E i \in 1..n : roster[i] = t
  <2> DEFINE rest == CHOOSE f \in Bijection(1..Cardinality(others), others) : TRUE
  <2>1. IsFiniteSet(Peers \ {Founder})
    BY <1>2, FS_RemoveElement
  <2>2. rest \in Seq(Peers \ {Founder}) /\ \A x \in Peers \ {Founder} : \E i \in 1..Len(rest) : rest[i] = x
    <3>1. PICK B : B = Bijection(1..Cardinality(others), others)
      OBVIOUS
    <3>2. B # {} /\ \A f \in B : f \in Seq(others) /\ \A x \in others : \E i \in 1..Len(f) : f[i] = x
      BY <2>1, <3>1, SetListed, Zenon
    <3>3. (CHOOSE f \in B : TRUE) \in B
      BY <3>2
    <3>4. rest \in B
      BY <3>1, <3>3
    <3> QED
      BY <3>2, <3>4, Zenon
  <2> HIDE DEF rest
  <2>3. rest \in Seq(Peers) /\ Len(rest) \in Nat
    BY <2>2
  <2>4. /\ <<Founder>> \o rest \in Seq(Peers) /\ Len(<<Founder>> \o rest) = Len(rest) + 1
        /\ (<<Founder>> \o rest)[1] = Founder
        /\ \A i \in 1..Len(rest) : (<<Founder>> \o rest)[i + 1] = rest[i]
    BY <1>2, <2>3
  <2>5. roster \in Seq(Peers) /\ n = Len(rest) + 1 /\ roster[1] = Founder
        /\ \A i \in 1..Len(rest) : roster[i + 1] = rest[i] /\ i + 1 \in 1..n
    BY <2>3, <2>4 DEF rest
  <2> HIDE DEF roster, n
  <2>6. 1 \in 1..n
    BY <2>3, <2>5
  <2>7. ASSUME NEW t \in Peers PROVE \E i \in 1..n : roster[i] = t
    <3>1. CASE t = Founder
      BY <2>5, <2>6, <3>1
    <3>2. CASE t # Founder
      <4>1. PICK i \in 1..Len(rest) : rest[i] = t
        BY <2>2, <3>2
      <4> QED
        BY <2>5, <4>1
    <3> QED
      BY <3>1, <3>2
  <2>8. n \in Nat \ {0}
    BY <2>3, <2>5, SMTT(30), Zenon
  <2> QED
    BY <2>5, <2>7, <2>8
<1> HIDE DEF roster, n
<1>4. PICK d0 : Shaped(first, "Add", d0, {}, {})
  <2>1. Heads(EmptyGraph) \in SUBSET Nat
    BY DEF Heads, EmptyGraph
  <2> QED
    BY <1>2, <2>1 DEF Op, NoOp, Operation, Kinds, Shaped
<1> HIDE DEF first
<1>5. ASSUME NEW o \in 1..n
      PROVE  /\ add(o) \in Operation /\ add(o).kind = "Add" /\ add(o).who = roster[o]
             /\ add(o).deps = 1..(o - 1) \ 1..(o - 2) /\ add(o).bad = {} /\ add(o).to = {}
  <2>1. PICK w, d : w = roster[o] /\ d = 1..(o - 1) \ 1..(o - 2)
    BY Zenon
  <2>2. w \in Peers /\ d \in SUBSET Nat
    BY <1>3, <2>1 DEF n
  <2>3. add(o) = [first EXCEPT !.who = w, !.deps = d]
    BY <2>1
  <2> HIDE DEF add
  <2>4. Shaped(add(o), "Add", d, {}, {}) /\ add(o).who = w
    <3>1. /\ Shaped([first EXCEPT !.who = w, !.deps = d], "Add", d, {}, {})
          /\ [first EXCEPT !.who = w, !.deps = d].who = w
      BY <1>4, <2>2, AdmissionShape, Zenon
    <3> QED
      BY <2>3, <3>1, Zenon
  <2> QED
    BY <2>1, <2>4 DEF Shaped
<1> HIDE DEF add
<1>6. ASSUME NEW q \in Peers, NEW o \in 1..(n + 2)
      PROVE  Shaped(contrib(q, o), "Contrib", {o - 1}, Peers \ {q}, {})
  <2>1. PICK d, r : d = {o - 1} /\ r = Peers \ {q}
    BY Zenon
  <2>2. d \in SUBSET Nat /\ r \in SUBSET Peers
    BY <1>3, <2>1
  <2>3. contrib(q, o) = [first EXCEPT !.author = q, !.kind = "Contrib", !.who = q, !.deps = d, !.to = r]
    BY <2>1
  <2> HIDE DEF contrib
  <2>4. Shaped(contrib(q, o), "Contrib", d, r, {})
    <3>1. Shaped([first EXCEPT !.author = q, !.kind = "Contrib", !.who = q, !.deps = d, !.to = r],
                 "Contrib", d, r, {})
      BY <1>4, <2>2, ContributionShape, Zenon
    <3> QED
      BY <2>3, <3>1, Zenon
  <2> QED
    BY <2>1, <2>4
<1>7. /\ c1 \in Operation /\ c1.kind = "Contrib" /\ c1.deps = {n} /\ c1.bad = {}
  <2>1. PICK k : k = n + 1
    OBVIOUS
  <2>2. k \in 1..(n + 2) /\ k - 1 = n
    BY <1>3, <2>1
  <2>3. c1 = contrib(Founder, k)
    BY <2>1
  <2> HIDE DEF contrib, c1
  <2>4. Shaped(contrib(Founder, k), "Contrib", {k - 1}, Peers \ {Founder}, {})
    BY <1>2, <1>6, <2>2, Zenon
  <2>5. Shaped(c1, "Contrib", {k - 1}, Peers \ {Founder}, {})
    BY <2>3, <2>4, Zenon
  <2> QED
    BY <2>2, <2>5 DEF Shaped
<1>8. /\ c2 \in Operation /\ c2.kind = "Contrib" /\ c2.deps = {n + 1} /\ c2.bad \subseteq c2.to
      /\ Faulty \notin c2.bad
  <2>1. PICK k : k = n + 2
    OBVIOUS
  <2>2. k \in 1..(n + 2) /\ k - 1 = n + 1 /\ bad \in SUBSET Peers
    BY <1>3, <2>1
  <2>3. PICK c : c = contrib(Faulty, k)
    OBVIOUS
  <2>4. c2 = [c EXCEPT !.bad = bad]
    BY <2>1, <2>3
  <2> HIDE DEF contrib, c2
  <2>5. Shaped(contrib(Faulty, k), "Contrib", {k - 1}, Peers \ {Faulty}, {})
    BY <1>2, <1>6, <2>2, Zenon
  <2>6. Shaped(c, "Contrib", {k - 1}, Peers \ {Faulty}, {})
    BY <2>3, <2>5, Zenon
  <2>7. Shaped([c EXCEPT !.bad = bad], "Contrib", {k - 1}, Peers \ {Faulty}, bad)
    BY <2>2, <2>6, EquivocationShape, Zenon
  <2>8. Shaped(c2, "Contrib", {k - 1}, Peers \ {Faulty}, bad)
    BY <2>4, <2>7, Zenon
  <2> QED
    BY <2>2, <2>8 DEF Shaped
<1> HIDE DEF c1, c2
<1>9. /\ ops \in Seq(Operation) /\ Len(ops) = n + 2 /\ (\A o \in 1..n : ops[o] = add(o))
      /\ ops[n + 1] = c1 /\ ops[n + 2] = c2
  <2>1. A \in Seq(Operation) /\ Len(A) = n /\ \A o \in 1..n : A[o] = add(o)
    BY <1>3, <1>5
  <2> HIDE DEF A
  <2> QED
    BY <1>1, <1>3, <1>7, <1>8, <2>1 DEF c2
<1>10. \A o \in 1..(n + 2) : o \in 1..n \/ o = n + 1 \/ o = n + 2
  BY <1>3
<1>11. Signed(ops)
  <2>1. \A o \in 1..n : ops[o].deps \subseteq 1..(o - 1)
    BY <1>5, <1>9
  <2>2. {n} \subseteq 1..(n + 1 - 1) /\ {n + 1} \subseteq 1..(n + 2 - 1)
    BY <1>3
  <2>3. Ordered(ops)
    BY <1>7, <1>8, <1>9, <1>10, <2>1, <2>2 DEF Ordered
  <2>4. \A o \in 1..(n + 2) : /\ ops[o].kind # "Accuse" /\ ops[o].bad \subseteq ops[o].to
                              /\ Faulty \notin ops[o].bad
    BY <1>5, <1>7, <1>8, <1>9, <1>10
  <2> QED
    BY <1>9, <2>3, <2>4 DEF Signed, Founded, Proven
<1>12. Good(ops, g)
  <2>1. \A o \in 1..n : ops[o].deps = 1..(o - 1) \ 1..(o - 2)
    BY <1>5, <1>9
  <2>2. ops[n + 1].deps = {n} /\ g = [o \in 1..(n + 1) |-> 1..(o - 1)]
    BY <1>7, <1>9
  <2> HIDE DEF g
  <2> QED
    BY <1>3, <1>9, <2>1, <2>2, ChainGood, Zenon
<1> DEFINE h == Add(g, n + 2, {n + 1})
<1>13. Good(ops, h) /\ Agree(h, g) /\ DOMAIN h = DOMAIN g \cup {n + 2}
  <2>1. n + 2 \in 1..Len(ops) /\ ops[n + 2].deps = {n + 1} /\ {n + 1} \subseteq DOMAIN g
        /\ Len(ops) \in Nat
    BY <1>3, <1>8, <1>9
  <2>2. PICK k, D : k = n + 2 /\ D = {n + 1}
    BY Zenon
  <2> HIDE DEF g
  <2>3. Follows(ops, g, ops, Add(g, k, ops[k].deps))
    BY <1>11, <1>12, <2>1, <2>2, AddFollows
  <2>4. Agree(g, g)
    BY DEF Agree
  <2> QED
    BY <1>12, <2>1, <2>2, <2>3, <2>4, AddDomain, Zenon DEF Follows
<1>14. DOMAIN g = 1..(n + 1)
  OBVIOUS
<1> HIDE DEF g, h
<1>15. \A p \in Peers : graph[p] = IF p = Faulty THEN h ELSE g
  BY <1>1 DEF h
<1>16. Graphs
  <2>1. \A x, y : Agree(x, x) /\ (Agree(x, y) => Agree(y, x))
    BY DEF Agree
  <2>2. \A p, q \in Peers : Agree(graph[p], graph[q])
    BY <1>13, <1>15, <2>1
  <2>3. sent \subseteq 1..Len(ops)
    BY <1>1, <1>3, <1>9
  <2>4. graph = [p \in Peers |-> graph[p]]
    BY <1>1
  <2> QED
    BY <1>11, <1>12, <1>13, <1>15, <2>2, <2>3, <2>4 DEF Graphs
<1>17. \A p \in Peers : 1..n \subseteq DOMAIN graph[p] /\ DOMAIN graph[p] \subseteq 1..(n + 2)
  BY <1>3, <1>13, <1>14, <1>15, SMTT(30), Zenon
<1>18. Admitted
  <2> SUFFICES ASSUME NEW p \in Peers, NEW t \in Peers
               PROVE  \E a \in DOMAIN graph[p] : ops[a].kind = "Add" /\ ops[a].who = t
    BY DEF Admitted
  <2>1. PICK i \in 1..n : roster[i] = t
    BY <1>3
  <2>2. ops[i].kind = "Add" /\ ops[i].who = t
    BY <1>5, <1>9, <2>1
  <2> QED
    BY <1>17, <2>2
<1>19. \A p \in Peers : guilty[p] = {} /\ Accused(ops, graph[p]) = {}
  <2>1. \A o \in 1..(n + 2) : ops[o].kind # "Accuse"
    BY <1>5, <1>7, <1>8, <1>9, <1>10
  <2> QED
    BY <1>1, <1>17, <2>1, Zenon DEF Accused, Proven
<1>20. Guilt
  BY <1>1, <1>19, Zenon DEF Guilt
<1>21. Cached
  BY <1>1, <1>19, FS_EmptySet DEF Cached
<1> QED
  BY <1>16, <1>18, <1>20, <1>21 DEF IInv

-----------------------------------------------------------------------------
(* Accusation as a whole.                                                     *)

\* A step that changes nothing keeps it.
LEMMA StutterInv == IInv /\ UNCHANGED vars => IInv'
<1> SUFFICES ASSUME IInv, UNCHANGED vars PROVE IInv'
  OBVIOUS
<1>1. ops' = ops /\ graph' = graph /\ guilty' = guilty /\ derived' = derived /\ sent' = sent
  BY DEF vars
<1>2. Graphs' /\ Admitted'
  BY <1>1 DEF IInv, Graphs, Admitted
<1>3. Guilt' /\ Cached'
  BY <1>1 DEF IInv, Guilt, Cached
<1> QED
  BY <1>2, <1>3 DEF IInv

\* Every step of the accusation half keeps it.
LEMMA StepInv == IInv /\ [Next]_vars => IInv'
<1> SUFFICES ASSUME IInv, [Next]_vars PROVE IInv'
  OBVIOUS
<1>1. CASE UNCHANGED vars
  BY <1>1, StutterInv
<1>2. CASE Next
  <2>1. PICK p \in Peers :
          \/ Contribute(p, {}) \/ Invite(p)
          \/ \E bad \in SUBSET (Peers \ {Faulty}) \ {{}} : p = Faulty /\ Contribute(p, bad)
          \/ \E o \in DOMAIN ops : AccuseFalsely(p, o) \/ Ingest(p, o)
    BY <1>2 DEF Next
  <2>2. CASE Contribute(p, {})
    BY <2>2, ContributeInv
  <2>3. CASE Invite(p)
    BY <2>3, InviteInv
  <2>4. ASSUME NEW bad \in SUBSET (Peers \ {Faulty}) \ {{}}, Contribute(p, bad) PROVE IInv'
    BY <2>4, ContributeInv
  <2>5. ASSUME NEW o \in DOMAIN ops, AccuseFalsely(p, o) \/ Ingest(p, o) PROVE IInv'
    BY <2>5, AccuseFalselyInv, IngestInv
  <2> QED
    BY <2>1, <2>2, <2>3, <2>4, <2>5
<1> QED
  BY <1>1, <1>2

\* Nobody is ever acquitted: a conviction stays with whoever reached it.
LEMMA GuiltGrows ==
    ASSUME IInv, Next, NEW q \in Peers
    PROVE  guilty[q] \subseteq guilty'[q]
<1>1. guilty = [p \in Peers |-> guilty[p]]
  BY DEF IInv, Guilt
<1>2. ASSUME NEW p \in Peers, NEW P, NEW h, NEW c, NEW out, Set(p, P, h, c, out), guilty[p] \subseteq c
      PROVE  guilty[q] \subseteq guilty'[q]
  BY <1>1, <1>2 DEF Set
<1>3. \A O, g, op, c : c \subseteq Convict(O, g, op, c)
  BY DEF Convict
<1>4. PICK p \in Peers :
        \/ Contribute(p, {}) \/ Invite(p)
        \/ \E bad \in SUBSET (Peers \ {Faulty}) \ {{}} : p = Faulty /\ Contribute(p, bad)
        \/ \E o \in DOMAIN ops : AccuseFalsely(p, o) \/ Ingest(p, o)
  BY DEF Next
<1>5. ASSUME NEW bad, Contribute(p, bad) PROVE guilty[q] \subseteq guilty'[q]
  BY <1>2, <1>5, Zenon DEF Contribute
<1>6. CASE Invite(p)
  BY <1>2, <1>6 DEF Invite
<1>7. ASSUME NEW o, Ingest(p, o) PROVE guilty[q] \subseteq guilty'[q]
  <2>1. \A g : OpenSlice(p, o, g) => guilty[q] \subseteq guilty'[q]
    BY <1>2, <1>3 DEF OpenSlice
  <2>2. ASSUME NEW g, NEW op, Set(p, ops, g, Convict(ops, g, op, guilty[p]), {})
        PROVE  guilty[q] \subseteq guilty'[q]
    BY <1>2, <1>3, <2>2
  <2>3. ASSUME NEW g, Set(p, ops, g, guilty[p], {}) PROVE guilty[q] \subseteq guilty'[q]
    BY <1>2, <2>3
  <2> QED
    BY <1>7, <2>1, <2>2, <2>3 DEF Ingest
<1>8. ASSUME NEW o, AccuseFalsely(p, o) PROVE guilty[q] \subseteq guilty'[q]
  BY <1>2, <1>8, Zenon DEF AccuseFalsely
<1> QED
  BY <1>4, <1>5, <1>6, <1>7, <1>8

\* Typing follows from the invariant.
LEMMA InvTypeOK == IInv => TypeOK
<1> SUFFICES ASSUME IInv PROVE TypeOK
  OBVIOUS
<1>1. /\ Signed(ops) /\ ops \in Seq(Operation) /\ DOMAIN ops = 1..Len(ops)
      /\ sent \subseteq 1..Len(ops) /\ \A p \in Peers : Good(ops, graph[p])
  BY DEF IInv, Graphs, Signed
<1>2. \A o \in DOMAIN ops : /\ ops[o].kind \in Kinds /\ ops[o].deps \subseteq 1..(o - 1)
                            /\ ops[o].bad \subseteq ops[o].to /\ ops[o].to \subseteq Peers
  <2>1. \A o \in DOMAIN ops : ops[o] \in Operation
    BY <1>1
  <2>2. \A o \in DOMAIN ops : ops[o].kind \in Kinds /\ ops[o].to \subseteq Peers
    BY <2>1 DEF Operation
  <2> QED
    BY <1>1, <2>2 DEF Signed, Ordered
<1>3. ASSUME NEW p \in Peers
      PROVE  /\ Dag(p) \subseteq DOMAIN ops /\ guilty[p] \subseteq Peers
             /\ \A o \in Dag(p) : ops[o].deps \subseteq graph[p][o]
  <2>1. Good(ops, graph[p]) /\ Dag(p) \subseteq DOMAIN ops
    BY <1>1 DEF Good, Dag
  <2>2. guilty[p] \subseteq Peers
    <3>1. \A o \in Dag(p) : ops[o] \in Operation
      BY <1>1, <2>1
    <3>2. guilty[p] = Accused(ops, graph[p])
      BY DEF IInv, Guilt
    <3> QED
      BY <3>1, <3>2 DEF Accused, Dag, Operation
  <2>3. \A o \in Dag(p) : ops[o].deps \subseteq graph[p][o]
    BY <2>1 DEF Good, Dag, Closure
  <2> QED
    BY <2>1, <2>2, <2>3
<1> QED
  BY <1>1, <1>2, <1>3 DEF TypeOK

\* So does that guilt is proven.
LEMMA InvGuiltProven == IInv => GuiltProven
<1> SUFFICES ASSUME IInv, NEW p \in Peers PROVE guilty[p] = {ops[o].who : o \in Evidence(p)}
  BY DEF GuiltProven
<1>1. Signed(ops) /\ Good(ops, graph[p]) /\ guilty[p] = Accused(ops, graph[p])
  BY DEF IInv, Graphs, Guilt
<1>2. \A o \in Dag(p) : o \in 1..Len(ops) /\ ops[o].deps \subseteq DOMAIN graph[p]
  BY <1>1 DEF Good, Dag
<1>3. \A o \in Dag(p) : ops[o].kind = "Accuse" => (CheckAccusation(ops, graph[p], ops[o]) <=> Proven(ops[o]))
  BY <1>1, <1>2, Checked
<1>4. Evidence(p) = {o \in DOMAIN graph[p] : Proven(ops[o])}
  BY <1>3 DEF Evidence, Dag, Proven
<1> QED
  BY <1>1, <1>4 DEF Accused

\* So does that the cache is current.
LEMMA InvViewCurrent == IInv => ViewCurrent
  BY CachedView DEF ViewCurrent

\* So does that verdicts are shared: an operation's past is the same for all
\* judges, and so are the accusations in it that prove something.
LEMMA InvSameVerdict == IInv => SameVerdict
<1> SUFFICES ASSUME IInv, NEW o \in DOMAIN ops
             PROVE  \E verdict \in BOOLEAN :
                      \A p \in {p \in Peers : DepsSatisfied(graph[p], ops[o].deps)} :
                        Judge(ops, graph[p], guilty[p], ops[o]) = verdict \/ Unproven(p, o) # {}
  BY Zenon DEF SameVerdict
<1> DEFINE judges == {p \in Peers : DepsSatisfied(graph[p], ops[o].deps)}
           J(p) == Judge(ops, graph[p], guilty[p], ops[o])
<1>1. ASSUME NEW p \in judges, NEW q \in judges, Unproven(p, o) = {} PROVE J(p) <=> J(q)
  <2>1. /\ Good(ops, graph[p]) /\ Good(ops, graph[q]) /\ Agree(graph[p], graph[q])
        /\ guilty[p] = Accused(ops, graph[p]) /\ guilty[q] = Accused(ops, graph[q])
        /\ ops[o].deps \subseteq DOMAIN graph[p] /\ ops[o].deps \subseteq DOMAIN graph[q]
    BY Zenon DEF IInv, Graphs, Guilt, DepsSatisfied
  <2>2. ASSUME NEW x \in Closure(graph[p], ops[o].deps), ops[x].kind = "Accuse", ops[x].who = ops[o].author
        PROVE  Proven(ops[x])
    <3>1. CheckAccusation(ops, graph[p], ops[x])
      BY <1>1, <2>2 DEF Unproven
    <3>2. x \in DOMAIN graph[p]
      BY <2>1, ClosureInside
    <3>3. x \in 1..Len(ops) /\ ops[x].deps \subseteq DOMAIN graph[p]
      BY <2>1, <3>2 DEF Good
    <3>4. Signed(ops)
      BY DEF IInv, Graphs
    <3> QED
      BY <2>1, <2>2, <3>1, <3>3, <3>4, Checked
  <2>3. ops[o].author \in MembersAmong(ops, graph[p], Closure(graph[p], ops[o].deps), Accused(ops, graph[p]))
          <=> ops[o].author \in MembersAmong(ops, graph[q], Closure(graph[q], ops[o].deps), Accused(ops, graph[q]))
    BY <2>1, <2>2, SameMembers
  <2> QED
    BY <2>1, <2>3 DEF Judge
<1>2. \A p \in judges : J(p) \in BOOLEAN
  BY DEF Judge
<1> HIDE DEF J, judges
<1>3. \E verdict \in BOOLEAN : \A p \in judges : J(p) = verdict \/ Unproven(p, o) # {}
  <2>1. CASE \A p \in judges : Unproven(p, o) # {}
    BY <2>1
  <2>2. CASE ~ \A p \in judges : Unproven(p, o) # {}
    <3>1. PICK p \in judges : Unproven(p, o) = {}
      BY <2>2
    <3>2. \A q \in judges : J(q) = J(p)
      BY <1>1, <1>2, <3>1
    <3> QED
      BY <1>2, <3>2
  <2> QED
    BY <2>1, <2>2
<1> QED
  BY <1>3 DEF J, judges

\* Someone a participant counts out is someone it holds guilty.
LEMMA OutsidersGuilty ==
    ASSUME IInv, NEW p \in Peers
    PROVE  Peers \ View(ops, graph[p], guilty[p]).members \subseteq guilty[p]
<1> SUFFICES ASSUME NEW t \in Peers, t \notin guilty[p]
             PROVE  t \in MembersAmong(ops, graph[p], DOMAIN graph[p], guilty[p])
  BY DEF View
<1>1. PICK a \in DOMAIN graph[p] : ops[a].kind = "Add" /\ ops[a].who = t
  BY DEF IInv, Admitted
<1>2. Accusations(ops, DOMAIN graph[p], t, guilty[p]) = {}
  BY DEF Accusations
<1> QED
  BY <1>1, <1>2 DEF MembersAmong

-----------------------------------------------------------------------------
(* Checkpoints: every signature was made in the state it certifies, a         *)
(* certificate holds only signatures that were made, and whoever accepts one  *)
(* has its members' signatures and has convicted everyone it leaves out.      *)

Signatures ==
    \A a \in approvals :
        a.record \in records /\ a = [signer |-> a.signer, record |-> a.record, seen |-> a.record.view]

Offered ==
    \A c \in offers :
        /\ c.record \in records
        /\ \A s \in c.signers : [signer |-> s, record |-> c.record, seen |-> c.record.view] \in approvals

Accepted ==
    /\ accepted = [p \in Peers |-> accepted[p]]
    /\ \A p \in Peers : accepted[p] \subseteq records

CInv == IInv /\ Signatures /\ Offered /\ Accepted /\ SignedInState /\ ExclusionProven

\* No certificate exists at the start.
LEMMA CInitInv == CInit => CInv
<1> SUFFICES ASSUME CInit PROVE CInv
  OBVIOUS
<1>1. IInv
  BY InitInv DEF CInit
<1> QED
  BY <1>1 DEF CInit, CInv, Signatures, Offered, Accepted, SignedInState, ExclusionProven

\* Operations and accusations leave signatures and certificates as they are.
LEMMA OperationKeeps ==
    ASSUME CInv, Next, UNCHANGED cvars
    PROVE  CInv'
<1>1. records' = records /\ approvals' = approvals /\ offers' = offers /\ accepted' = accepted
  BY DEF cvars
<1>2. IInv /\ IInv'
  BY StepInv DEF CInv
<1>3. Signatures' /\ Offered' /\ Accepted' /\ SignedInState'
  BY <1>1 DEF CInv, Signatures, Offered, Accepted, SignedInState
<1>4. ExclusionProven'
  BY <1>1, <1>2, GuiltGrows DEF CInv, ExclusionProven
<1> QED
  BY <1>2, <1>3, <1>4 DEF CInv

\* prepare_checkpoint keeps the invariant.
LEMMA PrepareKeeps ==
    ASSUME CInv, NEW p \in Peers, NEW next, PrepareCheckpoint(p, next)
    PROVE  CInv'
<1>1. /\ records \subseteq records' /\ approvals' = approvals /\ offers' = offers
      /\ accepted' = accepted /\ UNCHANGED vars
  BY DEF PrepareCheckpoint
<1>2. IInv'
  BY <1>1, StutterInv DEF CInv
<1>3. guilty' = guilty
  BY <1>1 DEF vars
<1> QED
  BY <1>1, <1>2, <1>3 DEF CInv, Signatures, Offered, Accepted, SignedInState, ExclusionProven

\* approve_checkpoint signs the view its record names.
LEMMA ApproveKeeps ==
    ASSUME CInv, NEW p \in Peers, NEW r \in records, ApproveCheckpoint(p, r)
    PROVE  CInv'
<1> DEFINE a == [signer |-> p, record |-> r, seen |-> r.view]
<1>1. /\ approvals' = approvals \cup {a} /\ records' = records /\ offers' = offers
      /\ accepted' = accepted /\ UNCHANGED vars
  BY DEF ApproveCheckpoint, Matches
<1>2. IInv'
  BY <1>1, StutterInv DEF CInv
<1>3. guilty' = guilty
  BY <1>1 DEF vars
<1>4. a.record = r /\ a.signer = p
  OBVIOUS
<1>5. a.record \in records /\ a = [signer |-> a.signer, record |-> a.record, seen |-> a.record.view]
  BY <1>4
<1> HIDE DEF a
<1>6. Signatures'
  BY <1>1, <1>5 DEF CInv, Signatures
<1>7. Offered' /\ Accepted' /\ SignedInState' /\ ExclusionProven'
  BY <1>1, <1>3 DEF CInv, Offered, Accepted, SignedInState, ExclusionProven
<1> QED
  BY <1>2, <1>6, <1>7 DEF CInv

\* offer_checkpoint hands on only signatures that were made.
LEMMA OfferKeeps ==
    ASSUME CInv, NEW p \in Peers, NEW r \in records, NEW c \in Certificates(r), OfferCheckpoint(p, c)
    PROVE  CInv'
<1>1. /\ offers' = offers \cup {c} /\ records' = records /\ approvals' = approvals
      /\ accepted' = accepted /\ UNCHANGED vars
  BY DEF OfferCheckpoint
<1>2. IInv'
  BY <1>1, StutterInv DEF CInv
<1>3. guilty' = guilty
  BY <1>1 DEF vars
<1>4. c.record = r /\ \A s \in c.signers : \E a \in approvals : a.signer = s /\ a.record = r
  BY DEF Certificates
<1>5. \A s \in c.signers : [signer |-> s, record |-> c.record, seen |-> c.record.view] \in approvals
  BY <1>4 DEF CInv, Signatures
<1>6. Offered'
  BY <1>1, <1>4, <1>5 DEF CInv, Offered
<1>7. Signatures' /\ Accepted' /\ SignedInState' /\ ExclusionProven'
  BY <1>1, <1>3 DEF CInv, Signatures, Accepted, SignedInState, ExclusionProven
<1> QED
  BY <1>2, <1>6, <1>7 DEF CInv

\* The handler of an offer accepts only in the state the record names.
LEMMA HandleKeeps ==
    ASSUME CInv, NEW p \in Peers, NEW c \in offers, HandleCheckpoint(p, c)
    PROVE  CInv'
<1>1. /\ accepted' = [accepted EXCEPT ![p] = @ \cup {c.record}] /\ records' = records
      /\ approvals' = approvals /\ offers' = offers /\ UNCHANGED vars
  BY DEF HandleCheckpoint
<1>2. IInv /\ IInv'
  BY <1>1, StutterInv DEF CInv
<1>3. guilty' = guilty
  BY <1>1 DEF vars
<1>4. accepted' = [q \in Peers |-> IF q = p THEN accepted[q] \cup {c.record} ELSE accepted[q]]
  BY <1>1, Zenon DEF CInv, Accepted
<1>5. c.signers = c.record.view.members /\ c.record.view = View(ops, graph[p], guilty[p])
  <2>1. ViewOf(p) = View(ops, graph[p], guilty[p])
    BY <1>2, CachedView
  <2>2. /\ c.signers = MembersAmong(ops, graph[p], Dag(p), guilty[p])
        /\ c.record.view = ViewOf(p)
    BY DEF HandleCheckpoint, Validates, Verify, Matches
  <2> QED
    BY <2>1, <2>2 DEF View, Dag
<1>9. \A q \in Peers : \A x \in accepted'[q] : x \in accepted[q] \/ x = c.record
  BY <1>4
<1>6. SignedInState'
  <2>1. \A s \in c.record.view.members :
          [signer |-> s, record |-> c.record, seen |-> c.record.view] \in approvals
    BY <1>5 DEF CInv, Offered
  <2> QED
    BY <1>1, <1>9, <2>1, Zenon DEF CInv, SignedInState
<1>7. ExclusionProven'
  <2>1. Peers \ c.record.view.members \subseteq guilty[p]
    BY <1>2, <1>5, OutsidersGuilty
  <2> QED
    BY <1>3, <1>4, <2>1 DEF CInv, ExclusionProven
<1>8. Signatures' /\ Offered' /\ Accepted'
  <2>1. Signatures' /\ Offered'
    BY <1>1 DEF CInv, Signatures, Offered
  <2>2. accepted' = [q \in Peers |-> accepted'[q]]
    BY <1>4
  <2>3. \A q \in Peers : accepted'[q] \subseteq records'
    BY <1>1, <1>9 DEF CInv, Accepted, Offered
  <2> QED
    BY <2>1, <2>2, <2>3 DEF Accepted
<1> QED
  BY <1>2, <1>6, <1>7, <1>8 DEF CInv

\* Every step keeps the invariant.
LEMMA CStepInv == CInv /\ [CNext]_allvars => CInv'
<1> SUFFICES ASSUME CInv, [CNext]_allvars PROVE CInv'
  OBVIOUS
<1>1. CASE UNCHANGED allvars
  <2>1. UNCHANGED vars /\ UNCHANGED cvars
    BY <1>1 DEF allvars
  <2>2. IInv'
    BY <2>1, StutterInv DEF CInv
  <2>3. /\ guilty' = guilty /\ records' = records /\ approvals' = approvals /\ offers' = offers
        /\ accepted' = accepted
    BY <2>1 DEF vars, cvars
  <2> QED
    BY <2>2, <2>3 DEF CInv, Signatures, Offered, Accepted, SignedInState, ExclusionProven
<1>2. CASE Next /\ UNCHANGED cvars
  BY <1>2, OperationKeeps
<1>3. ASSUME NEW p \in Peers, NEW next \in Sessions, PrepareCheckpoint(p, next) PROVE CInv'
  BY <1>3, PrepareKeeps
<1>4. ASSUME NEW p \in Peers, NEW r \in records, ApproveCheckpoint(p, r) PROVE CInv'
  BY <1>4, ApproveKeeps
<1>5. ASSUME NEW p \in Peers, NEW r \in records, NEW c \in Certificates(r), OfferCheckpoint(p, c)
      PROVE  CInv'
  BY <1>5, OfferKeeps
<1>6. ASSUME NEW p \in Peers, NEW c \in offers, HandleCheckpoint(p, c) PROVE CInv'
  BY <1>6, HandleKeeps
<1> QED
  BY <1>1, <1>2, <1>3, <1>4, <1>5, <1>6, SMTT(30), Zenon DEF CNext

\* CInv is an inductive invariant of participants and checkpoints together, for
\* every finite set of participants, whoever founds and whoever is faulty.
THEOREM Invariance == CSpec => []CInv
<1>1. CInit => CInv
  BY CInitInv
<1>2. CInv /\ [CNext]_allvars => CInv'
  BY CStepInv
<1> QED
  BY <1>1, <1>2, PTL DEF CSpec

\* Operations refer to earlier ones, graphs are causally closed, and nothing is
\* signed, offered or accepted that was not prepared.
THEOREM TypeCorrect == CSpec => []CTypeOK
<1>1. CInv => CTypeOK
  <2> SUFFICES ASSUME CInv PROVE CTypeOK
    OBVIOUS
  <2>1. TypeOK
    BY InvTypeOK DEF CInv
  <2> QED
    BY <2>1 DEF CInv, CTypeOK, Signatures, Offered, Accepted
<1> QED
  BY <1>1, Invariance, PTL

\* The guilty set of Participant::ingest is always what the evidence in the
\* participant's own graph proves, so validate_participant accepts it when the
\* state is restored.
THEOREM GuiltIsEvidence == CSpec => []GuiltProven
<1>1. CInv => GuiltProven
  BY InvGuiltProven DEF CInv
<1> QED
  BY <1>1, Invariance, PTL

\* The cache behind Participant::derived never shows a view other than that of
\* the present graph and guilty set.
THEOREM CacheCurrent == CSpec => []ViewCurrent
<1>1. CInv => ViewCurrent
  BY InvViewCurrent DEF CInv
<1> QED
  BY <1>1, Invariance, PTL

\* Participant::authorised gives all participants that can judge an operation
\* the same answer, whatever accusations they have checked meanwhile, unless an
\* accusation of its author that proves nothing is in the operation's past.
THEOREM VerdictsShared == CSpec => []SameVerdict
<1>1. CInv => SameVerdict
  BY InvSameVerdict DEF CInv
<1> QED
  BY <1>1, Invariance, PTL

\* Whoever accepts a certificate has the signature of every member of the roster
\* it certifies, made in that very state.
THEOREM SignaturesInState == CSpec => []SignedInState
<1>1. CInv => SignedInState
  BY DEF CInv
<1> QED
  BY <1>1, Invariance, PTL

\* Whoever a certificate leaves out was convicted by everyone that accepted it.
THEOREM OnlyGuiltyExcluded == CSpec => []ExclusionProven
<1>1. CInv => ExclusionProven
  BY DEF CInv
<1> QED
  BY <1>1, Invariance, PTL

\* A member that counts the faulty one out contributes: the new tip follows the
\* accusation and is not addressed to the accused.
LEMMA RekeyComplete ==
    ASSUME IInv, NEW p \in Peers, Faulty \in guilty[p] \ ViewOf(p).members, Contribute(p, {})
    PROVE  RemovalComplete(ops', graph'[p], guilty'[p], Faulty)
<1> DEFINE M == ViewOf(p).members
           G == graph[p]
<1>1. PICK op : op = Contribution(ops, G, p, M, {})
  OBVIOUS
<1>2. PICK P, h, k : P = Append(ops, op) /\ k = Len(ops) + 1 /\ h = Add(G, k, op.deps)
  BY Zenon
<1>3. p \in M /\ Set(p, P, h, guilty[p], {k})
  BY <1>1, <1>2 DEF Contribute
<1>4. /\ Signed(ops) /\ ops \in Seq(Operation) /\ Len(ops) \in Nat /\ Good(ops, G)
      /\ guilty[p] = Accused(ops, G)
  BY SMTT(30), Zenon DEF IInv, Graphs, Guilt, Signed
<1>5. M \in SUBSET Peers
  BY <1>4, CachedView, MembersTyped DEF View
<1>6. ops' = P /\ graph'[p] = h /\ guilty'[p] = guilty[p]
  <2>1. graph = [q \in Peers |-> graph[q]] /\ guilty = [q \in Peers |-> guilty[q]]
    BY DEF IInv, Graphs, Guilt
  <2> QED
    BY <1>3, <2>1 DEF Set
<1>7. Faulty \in Accused(ops, G) /\ Faulty \notin M
  BY <1>4, Zenon
<1> HIDE DEF M, G
<1>8. /\ op \in Operation /\ op.deps = Heads(G) /\ op.kind = "Contrib" /\ op.author = p
      /\ op.to = M \ {p}
  <2>1. OnTop(Contribution(ops, G, p, M, {}), p, G, "Contrib", M \ {p}, {})
    BY <1>4, <1>5, ContributionOnTop, Zenon
  <2> QED
    BY <1>1, <2>1 DEF OnTop
<1>9. k \notin DOMAIN G /\ DOMAIN G \subseteq 1..Len(ops)
  BY <1>2, <1>4, SMTT(30), Zenon DEF Good
<1>10. /\ Len(P) = k /\ DOMAIN P = 1..k /\ k \in 1..k /\ P[k] = op
       /\ \A o \in 1..Len(ops) : P[o] = ops[o]
  <2>1. ops \in Seq(Operation) /\ op \in Operation /\ P = Append(ops, op) /\ k = Len(ops) + 1
    BY <1>2, <1>4, <1>8
  <2> QED
    BY ONLY <2>1, SMTT(30)
<1>11. DOMAIN h = DOMAIN G \cup {k} /\ h[k] = DOMAIN G /\ \A x \in DOMAIN G : h[x] = G[x]
  <2>1. Closure(G, Heads(G)) = DOMAIN G
    BY <1>4, HeadsCover, Smallest
  <2> QED
    BY <1>2, <1>8, <1>9, <2>1 DEF Add
<1>12. k \in Frontier(h, Contribs(P))
  <2>1. k \in Contribs(P)
    BY <1>8, <1>10 DEF Contribs
  <2>2. \A x \in DOMAIN G : G[x] \subseteq DOMAIN G
    BY <1>4 DEF Good
  <2>3. \A x \in DOMAIN h : k \notin h[x]
    BY <1>9, <1>11, <2>2
  <2> QED
    BY <1>11, <2>1, <2>3 DEF Frontier
<1>13. PICK r \in DOMAIN G : ops[r].kind = "Accuse" /\ ops[r].who = Faulty
  BY <1>7 DEF Accused, Proven
<1>14. r \in Accusations(P, DOMAIN h, Faulty, guilty[p]) /\ Precedes(h, r, k)
  <2>1. P[r] = ops[r] /\ r \in DOMAIN h /\ k \in DOMAIN h /\ r # k
    BY <1>9, <1>10, <1>11, <1>13
  <2> QED
    BY <1>4, <1>7, <1>11, <1>13, <2>1, Zenon DEF Accusations, Precedes
<1>15. Faulty \notin P[k].to /\ P[k].author # Faulty
  BY <1>3, <1>7, <1>8, <1>10, Zenon
<1>16. RemovalComplete(P, h, guilty[p], Faulty)
  BY <1>12, <1>14, <1>15 DEF RemovalComplete
<1> QED
  BY <1>6, <1>16

\* Participant::contribute of a member that counts the faulty one out completes
\* its removal in that member's view, however the two came to be in that state.
THEOREM RekeyCompletesRemoval == CSpec => RekeyCompletes
<1>1. CInv /\ [CNext]_allvars
        => [\A p \in Peers : Faulty \in guilty[p] \ ViewOf(p).members /\ Contribute(p, {})
              => RemovalComplete(ops', graph'[p], guilty'[p], Faulty)]_vars
  BY RekeyComplete DEF CInv
<1> QED
  BY <1>1, Invariance, PTL DEF CSpec, RekeyCompletes
===============================================================================
