---------------------------- MODULE ReplicaProofs -----------------------------
(* Replica: any two participants agree on the past of every operation both    *)
(* hold, and therefore on its authorisation, for every set of participants,   *)
(* policy, hash order and bound.                                              *)
EXTENDS Replica, CausalGraphProofs, FiniteSetTheorems, WellFoundedInduction

-----------------------------------------------------------------------------
\* Every set of numbers that is not empty has a least element.
LEMMA Smallest == LeastNumber
<1> SUFFICES ASSUME NEW S \in SUBSET Nat, S # {} PROVE \E x \in S : \A y \in S : x <= y
  BY DEF LeastNumber
<1>1. PICK x \in S : \A y \in S : ~(<<y, x>> \in OpToRel(<, Nat))
  BY NatLessThanWellFounded, WFMin, Zenon
<1>2. ASSUME NEW y \in S PROVE x <= y
  <2>1. x \in Nat /\ y \in Nat
    OBVIOUS
  <2>2. ~(y < x)
    BY <1>1, <2>1, Zenon DEF OpToRel
  <2> QED
    BY <2>1, <2>2
<1> QED
  BY <1>2

-----------------------------------------------------------------------------
(* Signing.  s and t are [ops, graph] records, as in Replica.                 *)

\* t is s after some operations, none of them founding, were signed.
Grows(s, t) ==
    /\ t.ops \in Seq(Operation)
    /\ Len(s.ops) <= Len(t.ops)
    /\ Ordered(t.ops)
    /\ \A o \in 1..Len(s.ops) : t.ops[o] = s.ops[o]
    /\ \A o \in 1..Len(t.ops) : o > Len(s.ops) => ~Founding(t.ops[o])
    /\ Good(t.ops, t.graph)
    /\ DOMAIN s.graph \subseteq DOMAIN t.graph
    /\ \A h : Good(s.ops, h) => Good(t.ops, h)
    /\ \A h : Good(s.ops, h) /\ Agree(s.graph, h) => Agree(t.graph, h)

Sane(s) == s.ops \in Seq(Operation) /\ Ordered(s.ops) /\ Good(s.ops, s.graph)

\* A handler that adds nothing.
LEMMA GrowsSelf ==
    ASSUME NEW s, Sane(s)
    PROVE  Grows(s, s)
<1>1. Len(s.ops) \in Nat
  BY DEF Sane
<1> QED
  BY <1>1 DEF Sane, Grows

\* A larger graph over the operations there are.
LEMMA GrowsGraph ==
    ASSUME NEW s, NEW t, Sane(s), t.ops = s.ops, Good(s.ops, t.graph),
           DOMAIN s.graph \subseteq DOMAIN t.graph,
           \A h : Good(s.ops, h) /\ Agree(s.graph, h) => Agree(t.graph, h)
    PROVE  Grows(s, t)
<1>1. Len(s.ops) \in Nat
  BY DEF Sane
<1> QED
  BY <1>1 DEF Sane, Grows

\* What has grown is closed and agrees with the operations.
LEMMA GrowsSane ==
    ASSUME NEW s, NEW t, Grows(s, t)
    PROVE  Sane(t)
  BY DEF Grows, Sane

\* Two additions make one.
LEMMA GrowsOn ==
    ASSUME NEW s, NEW t, NEW u, Sane(s), Grows(s, t), Grows(t, u)
    PROVE  Grows(s, u)
<1>1. Len(s.ops) \in Nat /\ Len(t.ops) \in Nat /\ Len(u.ops) \in Nat
  BY DEF Sane, Grows
<1>2. /\ u.ops \in Seq(Operation) /\ Len(s.ops) <= Len(u.ops) /\ Ordered(u.ops)
      /\ Good(u.ops, u.graph) /\ DOMAIN s.graph \subseteq DOMAIN u.graph
  BY <1>1 DEF Grows
<1>3. \A o \in 1..Len(s.ops) : u.ops[o] = s.ops[o]
  BY <1>1 DEF Grows
<1>4. \A o \in 1..Len(u.ops) : o > Len(s.ops) => ~Founding(u.ops[o])
  <2> SUFFICES ASSUME NEW o \in 1..Len(u.ops), o > Len(s.ops) PROVE ~Founding(u.ops[o])
    OBVIOUS
  <2>1. CASE o > Len(t.ops)
    BY <2>1 DEF Grows
  <2>2. CASE o <= Len(t.ops)
    <3>1. o \in 1..Len(t.ops)
      BY <1>1, <2>2
    <3> QED
      BY <3>1 DEF Grows
  <2> QED
    BY <1>1, <2>1, <2>2
<1>5. \A h : Good(s.ops, h) => Good(u.ops, h)
  BY DEF Grows
<1>6. \A h : Good(s.ops, h) /\ Agree(s.graph, h) => Agree(u.graph, h)
  BY DEF Grows
<1> QED
  BY <1>2, <1>3, <1>4, <1>5, <1>6 DEF Grows

\* One signature on top of a part of the graph.
LEMMA ExtendGrows ==
    ASSUME NEW s, Sane(s), NEW op \in Operation, op.deps \subseteq DOMAIN s.graph, ~Founding(op)
    PROVE  Grows(s, Extend(s, op))
<1> DEFINE O == Append(s.ops, op)
           k == Len(s.ops) + 1
           g == Add(s.graph, k, op.deps)
<1>2. s.ops \in Seq(Operation) /\ Len(s.ops) \in Nat /\ Ordered(s.ops) /\ Good(s.ops, s.graph)
  BY DEF Sane
<1>3. /\ O \in Seq(Operation) /\ Len(O) = k /\ O[k] = op
      /\ \A o \in 1..Len(s.ops) : O[o] = s.ops[o]
      /\ Ordered(O) /\ Good(O, g) /\ DOMAIN g = DOMAIN s.graph \cup {k}
      /\ \A h : Good(s.ops, h) => Good(O, h)
      /\ \A h : Good(s.ops, h) /\ Agree(s.graph, h) => Agree(g, h)
  <2>1. /\ O \in Seq(Operation) /\ Len(O) = k /\ O[k] = op
        /\ \A o \in 1..Len(s.ops) : O[o] = s.ops[o]
    BY <1>2
  <2>2. /\ Ordered(O) /\ Good(O, g)
        /\ \A h : Good(s.ops, h) => Good(O, h)
        /\ \A h : Good(s.ops, h) /\ Agree(s.graph, h) => Agree(g, h)
    BY <1>2, SignGood, Zenon
  <2>3. DOMAIN g = DOMAIN s.graph \cup {k}
    BY AddDomain, Zenon
  <2> QED
    BY <2>1, <2>2, <2>3
<1>1. O = Append(s.ops, op) /\ k = Len(s.ops) + 1 /\ g = Add(s.graph, k, op.deps)
  OBVIOUS
<1> HIDE DEF O, g, k
<1>4. \A o \in 1..Len(O) : o > Len(s.ops) => ~Founding(O[o])
  <2> SUFFICES ASSUME NEW o \in 1..Len(O), o > Len(s.ops) PROVE ~Founding(O[o])
    OBVIOUS
  <2>1. o = k
    BY <1>1, <1>2, <1>3
  <2> QED
    BY <1>3, <2>1
<1>5. PICK t : t = Extend(s, op)
  OBVIOUS
<1>6. t.ops = O /\ t.graph = g /\ Len(s.ops) <= Len(O)
  BY <1>1, <1>2, <1>3, <1>5 DEF Extend
<1>7. Grows(s, t)
  BY <1>3, <1>4, <1>6 DEF Grows
<1> QED
  BY <1>5, <1>7

\* Participant::sign on top of the heads.
LEMMA SignGrows ==
    ASSUME NEW s, Sane(s), NEW p \in Peers, NEW who \in Peers, NEW kind \in Kinds,
           kind # "Add" \/ DOMAIN s.graph # {}
    PROVE  Grows(s, Sign(s, p, kind, who))
<1> DEFINE op == [author |-> p, kind |-> kind, who |-> who, deps |-> Heads(s.graph)]
<1>1. Len(s.ops) \in Nat /\ Good(s.ops, s.graph)
  BY DEF Sane
<1>2. Heads(s.graph) \subseteq DOMAIN s.graph /\ DOMAIN s.graph \subseteq Nat
  BY <1>1 DEF Heads, Good
<1>3. op \in Operation /\ op.deps \subseteq DOMAIN s.graph
  BY <1>2 DEF Operation
<1>4. ~Founding(op)
  BY <1>1, HeadsExist, Smallest DEF Founding
<1>5. Sign(s, p, kind, who) = Extend(s, op)
  BY DEF Sign
<1> HIDE DEF op
<1> QED
  BY <1>3, <1>4, <1>5, ExtendGrows

\* Publishing key material adds a Data operation or none.
LEMMA SignDataGrows ==
    ASSUME NEW s, Sane(s), NEW p \in Peers, NEW n \in 0..1
    PROVE  Grows(s, SignData(s, p, n))
<1>1. CASE n = 0
  BY <1>1, GrowsSelf DEF SignData
<1>2. CASE n # 0
  <2>1. SignData(s, p, n) = Sign(s, p, "Data", p)
    BY <1>2 DEF SignData
  <2>2. "Data" \in Kinds /\ "Data" # "Add"
    BY DEF Kinds
  <2> QED
    BY <2>1, <2>2, SignGrows
<1> QED
  BY <1>1, <1>2

-----------------------------------------------------------------------------
(* The inductive invariant.                                                   *)

\* Every graph held, by a participant or in a welcome.
Held == {graph[p] : p \in Peers} \cup {w.history : w \in welcomes}

\* What the graphs hold is good, and any two of them agree; the only founding
\* operations are the founder's.
Core ==
    /\ ops \in Seq(Operation) /\ Len(ops) <= MaxOps /\ Ordered(ops)
    /\ graph = [p \in Peers |-> graph[p]]
    /\ \A g \in Held : Good(ops, g)
    /\ \A g, h \in Held : Agree(g, h)
    /\ \A o \in 1..Len(ops) : Founding(ops[o]) => ops[o].author = Founder
    /\ \A w \in welcomes : w.to \in Peers

Traffic ==
    /\ joined \subseteq Peers
    /\ pending \in [Peers -> SUBSET (1..Len(ops))]
    /\ \A p \in Peers : Cardinality(pending[p]) <= MaxPending
    /\ mail \in [Peers -> SUBSET (1..Len(ops))]
    /\ sent \subseteq 1..Len(ops)
    /\ \A m \in syncs : m \in [from : Peers, to : Peers, heads : SUBSET (1..Len(ops))]

IInv == Core /\ Traffic

\* Typing follows from the invariant.
LEMMA InvTypes ==
    IInv => TypeOK
<1> SUFFICES ASSUME IInv PROVE TypeOK
  OBVIOUS
<1>1. ASSUME NEW g, Good(ops, g) PROVE IsGraph(g)
  <2>1. Len(ops) \in Nat
    BY DEF IInv, Core
  <2> QED
    BY <1>1, <2>1 DEF Good, IsGraph
<1>2. \A p \in Peers : IsGraph(graph[p])
  BY <1>1 DEF IInv, Core, Held
<1>3. \A w \in welcomes : w.to \in Peers /\ IsGraph(w.history)
  BY <1>1 DEF IInv, Core, Held
<1> QED
  BY <1>2, <1>3 DEF IInv, Core, Traffic, TypeOK

\* A participant that starts from s, in agreement with everyone, and ends its
\* handler in t, having sent the welcomes W, keeps every graph good.
LEMMA CommitCore ==
    ASSUME Core, NEW p \in Peers, NEW s, NEW t, NEW out, NEW W,
           s.ops = ops, Sane(s), \A h \in Held : Agree(s.graph, h),
           Grows(s, t), Commit(p, t, out), welcomes' = welcomes \cup W,
           \A w \in W : /\ w.to \in Peers /\ Good(t.ops, w.history)
                        /\ Agree(t.graph, w.history)
                        /\ \A h \in Held : Agree(w.history, h)
                        /\ \A v \in W : Agree(w.history, v.history)
    PROVE  Core' /\ 1..Len(ops) \subseteq 1..Len(ops')
<1>1. /\ Len(t.ops) <= MaxOps /\ ops' = t.ops /\ t.ops \in Seq(Operation) /\ Ordered(t.ops)
      /\ Good(t.ops, t.graph) /\ Len(ops) <= Len(t.ops)
      /\ \A o \in 1..Len(ops) : t.ops[o] = ops[o]
  BY DEF Commit, Grows
<1>2. Len(ops) \in Nat /\ Len(ops') \in Nat /\ 1..Len(ops) \subseteq 1..Len(ops')
  BY <1>1 DEF Core
<1>3. graph' = [q \in Peers |-> IF q = p THEN t.graph ELSE graph[q]]
  BY DEF Commit, Core
<1> DEFINE New_ == {t.graph} \cup {w.history : w \in W}
<1>4. ASSUME NEW g \in Held' PROVE g \in Held \/ g \in New_
  <2>1. CASE \E q \in Peers : g = graph'[q]
    BY <1>3, <2>1 DEF Held
  <2>2. CASE \E w \in welcomes' : g = w.history
    BY <2>2 DEF Held
  <2> QED
    BY <1>4, <2>1, <2>2 DEF Held
<1>5. \A h \in Held : Good(ops, h) /\ Good(t.ops, h) /\ Agree(t.graph, h)
  BY DEF Core, Grows
<1>6. \A g, h : Agree(g, h) => Agree(h, g)
  BY DEF Agree
<1>7. Agree(t.graph, t.graph)
  BY DEF Agree
<1>8. \A g \in New_ : Good(t.ops, g) /\ (\A h \in Held : Agree(g, h)) /\ (\A h \in New_ : Agree(g, h))
  BY <1>1, <1>5, <1>6, <1>7
<1> HIDE DEF New_
<1>9. \A g \in Held' : Good(ops', g)
  BY <1>1, <1>4, <1>5, <1>8
<1>10. \A g, h \in Held' : Agree(g, h)
  BY <1>4, <1>6, <1>8 DEF Core
<1>11. \A o \in 1..Len(ops') : Founding(ops'[o]) => ops'[o].author = Founder
  <2> SUFFICES ASSUME NEW o \in 1..Len(ops'), Founding(ops'[o]) PROVE ops'[o].author = Founder
    OBVIOUS
  <2>1. ~(o > Len(ops))
    BY <1>1 DEF Grows
  <2>2. o \in 1..Len(ops)
    BY <1>2, <2>1
  <2> QED
    BY <1>1, <2>2 DEF Core
<1>12. graph' = [q \in Peers |-> graph'[q]] /\ \A w \in welcomes' : w.to \in Peers
  BY <1>3 DEF Core
<1> QED
  BY <1>1, <1>2, <1>9, <1>10, <1>11, <1>12 DEF Core

\* What is under way stays well-typed when operations are only appended.
LEMMA TrafficKept ==
    ASSUME Traffic, 1..Len(ops) \subseteq 1..Len(ops'), joined' \subseteq Peers,
           pending' \in [Peers -> SUBSET (1..Len(ops))],
           \A p \in Peers : Cardinality(pending'[p]) <= MaxPending,
           mail' \in [Peers -> SUBSET (1..Len(ops))],
           sent' \subseteq 1..Len(ops'),
           \A m \in syncs' : m \in [from : Peers, to : Peers, heads : SUBSET (1..Len(ops))]
    PROVE  Traffic'
<1> DEFINE n == 1..Len(ops)
           n2 == 1..Len(ops')
<1>1. n \subseteq n2
  OBVIOUS
<1>2. pending' \in [Peers -> SUBSET n] /\ mail' \in [Peers -> SUBSET n] /\ sent' \subseteq n2
  OBVIOUS
<1>3. \A m \in syncs' : m \in [from : Peers, to : Peers, heads : SUBSET n]
  OBVIOUS
<1> HIDE DEF n, n2
<1>4. pending' \in [Peers -> SUBSET n2] /\ mail' \in [Peers -> SUBSET n2]
  BY <1>1, <1>2
<1>5. \A m \in syncs' : m \in [from : Peers, to : Peers, heads : SUBSET n2]
  BY <1>1, <1>3
<1> QED
  BY <1>2, <1>4, <1>5 DEF Traffic, n2

\* A handler starts from what the participant holds.
LEMMA HereSane ==
    ASSUME Core, NEW p \in Peers
    PROVE  /\ Sane(Here(p)) /\ Here(p).ops = ops /\ Here(p).graph = graph[p]
           /\ \A h \in Held : Agree(graph[p], h)
  BY DEF Core, Held, Here, Sane

\* A handler that starts from the participant's own graph and sends no welcome.
LEMMA LocalCore ==
    ASSUME Core, NEW p \in Peers, NEW t, NEW out, Grows(Here(p), t), Commit(p, t, out),
           welcomes' = welcomes
    PROVE  Core' /\ 1..Len(ops) \subseteq 1..Len(ops')
<1> DEFINE s == Here(p)
           W == {}
<1>1. s.ops = ops /\ Sane(s) /\ \A h \in Held : Agree(s.graph, h)
  BY HereSane
<1>2. Grows(s, t) /\ welcomes' = welcomes \cup W
  OBVIOUS
<1>3. \A w \in W : FALSE
  OBVIOUS
<1> HIDE DEF s, W
<1> QED
  BY <1>1, <1>2, <1>3, CommitCore, Zenon

\* The new operations a handler broadcasts are among those signed.
LEMMA NewSent ==
    ASSUME Core, NEW p \in Peers, NEW t, t.ops \in Seq(Operation)
    PROVE  New(t) \subseteq 1..Len(t.ops)
<1>1. Len(ops) \in Nat /\ Len(t.ops) \in Nat
  BY DEF Core
<1> QED
  BY <1>1 DEF New

\* The creator's conference satisfies the invariant.
LEMMA InitInv ==
    Init => IInv
<1> SUFFICES ASSUME Init PROVE IInv
  OBVIOUS
<1> DEFINE empty == [ops |-> <<>>, graph |-> EmptyGraph]
           op == [author |-> Founder, kind |-> "Add", who |-> Founder, deps |-> {}]
           O == <<op>>
           first == [ops |-> O, graph |-> Add(EmptyGraph, 1, {})]
           s == SignData(first, Founder, 1)
<1>0. Founder \in Peers /\ MaxOps \in Nat /\ MaxOps >= 2
  BY ReplicaAssumption
<1>1. DOMAIN EmptyGraph = {} /\ Heads(EmptyGraph) = {}
  BY DEF EmptyGraph, Heads
<1>2. Sign(empty, Founder, "Add", Founder) = first
  <2>1. Append(<<>>, op) = O /\ Len(<<>>) + 1 = 1
    OBVIOUS
  <2> QED
    BY <1>1, <2>1, Zenon DEF Sign, Extend
<1>3. op \in Operation /\ O \in Seq(Operation) /\ Len(O) = 1 /\ O[1] = op
  BY <1>0 DEF Operation, Kinds
<1>4. \A o \in 1..Len(O) : o = 1
  BY <1>3
<1>5. Ordered(O)
  BY <1>3, <1>4 DEF Ordered
<1>6. \A Q : Q \in Seq(Operation) => Good(Q, EmptyGraph)
  BY <1>1 DEF Good, EmptyGraph
<1>7. Good(O, first.graph)
  <2> HIDE DEF O
  <2>1. 1 \in 1..Len(O) /\ O[1].deps = {} /\ O[1].deps \subseteq DOMAIN EmptyGraph /\ Len(O) \in Nat
    BY <1>3
  <2> QED
    BY <1>3, <1>5, <1>6, <2>1, AddGood, Zenon
<1>8. Sane(first)
  BY <1>3, <1>5, <1>7 DEF Sane
<1>9. Grows(first, s)
  BY <1>0, <1>8, SignDataGrows
<1>10. Len(s.ops) = 2
  BY <1>3 DEF SignData, Sign, Extend
<1>11. /\ ops = s.ops /\ joined = {Founder} /\ sent = {1, 2} /\ syncs = {} /\ welcomes = {}
       /\ graph = [p \in Peers |-> IF p = Founder THEN s.graph ELSE EmptyGraph]
       /\ pending = [p \in Peers |-> {}] /\ mail = [p \in Peers |-> {}]
  BY <1>2, Zenon DEF Init
<1> HIDE DEF s
<1>12. \A g \in Held : g = s.graph \/ g = EmptyGraph
  BY <1>11 DEF Held
<1>13. s.ops \in Seq(Operation) /\ Ordered(s.ops) /\ Good(s.ops, s.graph)
  BY <1>9 DEF Grows
<1>14. \A g, h \in Held : Agree(g, h)
  BY <1>1, <1>12 DEF Agree
<1>15. \A o \in 1..Len(ops) : Founding(ops[o]) => ops[o].author = Founder
  <2> SUFFICES ASSUME NEW o \in 1..Len(ops), Founding(ops[o]) PROVE ops[o].author = Founder
    OBVIOUS
  <2>1. ~(o > 1)
    BY <1>3, <1>9, <1>11 DEF Grows
  <2>2. o = 1
    BY <1>10, <1>11, <2>1
  <2>3. ops[1] = O[1]
    <3> HIDE DEF O
    <3>0. first.ops = O
      OBVIOUS
    <3> HIDE DEF first
    <3>1. 1 \in 1..Len(O)
      BY <1>3
    <3>2. s.ops[1] = first.ops[1]
      BY <1>9, <3>0, <3>1 DEF Grows
    <3> QED
      BY <1>11, <3>0, <3>2
  <2> QED
    BY <1>3, <2>2, <2>3
<1>16. Core
  BY <1>0, <1>6, <1>10, <1>11, <1>12, <1>13, <1>14, <1>15 DEF Core
<1>17. Traffic
  <2>1. sent \subseteq 1..Len(ops)
    BY <1>10, <1>11
  <2>2. \A S : [p \in Peers |-> {}] \in [Peers -> SUBSET S]
    OBVIOUS
  <2>3. \A p \in Peers : Cardinality(pending[p]) <= MaxPending
    BY <1>11, FS_EmptySet, ReplicaAssumption
  <2> QED
    BY <1>0, <1>11, <2>1, <2>2, <2>3 DEF Traffic
<1> QED
  BY <1>16, <1>17 DEF IInv

\* A handler that changes no graph keeps every graph good.
LEMMA QuietCore ==
    ASSUME Core, UNCHANGED <<ops, graph, welcomes>>
    PROVE  Core' /\ 1..Len(ops) \subseteq 1..Len(ops')
<1>1. ops' = ops /\ graph' = graph /\ welcomes' = welcomes
  OBVIOUS
<1>2. Held' = Held
  BY <1>1 DEF Held
<1> QED
  BY <1>1, <1>2 DEF Core

\* Local operations keep the invariant.
LEMMA LocalInv ==
    ASSUME IInv, NEW p \in Peers,
           Leave(p) \/ Publish(p) \/ \E q \in Peers, fails \in BOOLEAN : Remove(p, q, fails)
    PROVE  IInv'
<1>1. Core /\ Traffic /\ Sane(Here(p))
  BY HereSane DEF IInv
<1>2. ASSUME NEW t, NEW out, Grows(Here(p), t), Commit(p, t, out), out = {} \/ out = New(t),
             UNCHANGED <<joined, pending, mail, syncs, welcomes>>
      PROVE  IInv'
  <2>1. Core' /\ 1..Len(ops) \subseteq 1..Len(ops')
    BY <1>1, <1>2, LocalCore
  <2>2. t.ops \in Seq(Operation) /\ ops' = t.ops /\ sent' = sent \cup out
    BY <1>2 DEF Grows, Commit
  <2>3. out \subseteq 1..Len(ops')
    BY <1>1, <1>2, <2>2, NewSent
  <2>4. sent' \subseteq 1..Len(ops')
    BY <1>1, <2>1, <2>2, <2>3 DEF Traffic
  <2>5. Traffic'
    BY <1>1, <1>2, <2>1, <2>4, TrafficKept DEF Traffic
  <2> QED
    BY <2>1, <2>5 DEF IInv
<1>3. \A kind \in {"Remove", "Data"} : kind \in Kinds /\ kind # "Add"
  BY DEF Kinds
<1>4. CASE Leave(p)
  <2>1. Grows(Here(p), Sign(Here(p), p, "Remove", p))
    BY <1>1, <1>3, SignGrows
  <2> QED
    BY <1>2, <1>4, <2>1 DEF Leave
<1>5. CASE Publish(p)
  <2>1. Grows(Here(p), SignData(Here(p), p, 1))
    BY <1>1, SignDataGrows
  <2> QED
    BY <1>2, <1>5, <2>1 DEF Publish
<1>6. ASSUME NEW q \in Peers, NEW fails \in BOOLEAN, Remove(p, q, fails) PROVE IInv'
  <2> DEFINE removed == Sign(Here(p), p, "Remove", q)
             refused == fails \/ p \notin Members(removed.ops, removed.graph)
             done == IF refused THEN removed ELSE SignData(removed, p, 1)
  <2>1. Commit(p, done, IF refused THEN {} ELSE New(done)) /\ UNCHANGED <<joined, pending, mail, syncs, welcomes>>
    BY <1>6 DEF Remove
  <2>2. Grows(Here(p), removed)
    BY <1>1, <1>3, SignGrows
  <2> HIDE DEF removed
  <2>3. Grows(removed, SignData(removed, p, 1))
    BY <2>2, GrowsSane, SignDataGrows
  <2>4. Grows(Here(p), done)
    BY <1>1, <2>2, <2>3, GrowsOn
  <2> HIDE DEF done, refused
  <2> QED
    BY <1>2, <2>1, <2>4
<1> QED
  BY <1>4, <1>5, <1>6

\* invite keeps the invariant: the graph in the welcome is one the inviter had
\* while it signed.
LEMMA InviteInv ==
    ASSUME IInv, NEW p \in Peers, NEW q \in Peers, NEW rotates \in 0..1, NEW fails \in BOOLEAN,
           Invite(p, q, rotates, fails)
    PROVE  IInv'
<1> DEFINE here == Here(p)
           added == Sign(here, p, "Add", q)
           welcomed == SignData(added, p, rotates)
           done == IF fails THEN welcomed ELSE SignData(welcomed, p, 1)
           w == [to |-> q, history |-> welcomed.graph]
           W == IF fails THEN {} ELSE {w}
           out == IF fails THEN {} ELSE New(done)
<1>1. /\ Core /\ Traffic /\ Sane(here) /\ here.ops = ops
      /\ \A h \in Held : Good(here.ops, h) /\ Agree(here.graph, h)
  BY HereSane DEF IInv, Core
<1>2. Commit(p, done, out) /\ welcomes' = welcomes \cup W /\ UNCHANGED <<joined, pending, mail, syncs>>
  BY DEF Invite
<1>3. DOMAIN here.graph # {}
  BY DEF Invite, MembersOf, Members, MembersIn, Here
<1>4. Grows(here, added)
  <2>1. "Add" \in Kinds
    BY DEF Kinds
  <2> QED
    BY <1>1, <1>3, <2>1, SignGrows
<1> HIDE DEF here, added
<1>5. Grows(here, welcomed) /\ Sane(welcomed)
  BY <1>1, <1>4, GrowsSane, SignDataGrows, GrowsOn
<1> HIDE DEF welcomed
<1>6. Grows(welcomed, done)
  BY <1>5, SignDataGrows, GrowsSelf
<1> HIDE DEF done
<1>7. Grows(here, done)
  BY <1>1, <1>5, <1>6, GrowsOn
<1>8. /\ Good(done.ops, welcomed.graph) /\ Agree(done.graph, welcomed.graph)
      /\ Agree(welcomed.graph, welcomed.graph)
      /\ \A h \in Held : Agree(welcomed.graph, h)
  <2>1. Agree(welcomed.graph, welcomed.graph)
    BY DEF Agree
  <2> QED
    BY <1>1, <1>5, <1>6, <2>1 DEF Grows, Sane
<1>9. \A v \in W : v.to = q /\ v.history = welcomed.graph
  OBVIOUS
<1> HIDE DEF W, w
<1>10. \A v \in W : /\ v.to \in Peers /\ Good(done.ops, v.history)
                    /\ Agree(done.graph, v.history)
                    /\ \A h \in Held : Agree(v.history, h)
                    /\ \A u \in W : Agree(v.history, u.history)
  BY <1>8, <1>9
<1>11. \A h \in Held : Agree(here.graph, h)
  BY <1>1
<1>12. Core' /\ 1..Len(ops) \subseteq 1..Len(ops')
  BY <1>1, <1>2, <1>7, <1>10, <1>11, CommitCore, Zenon
<1>13. done.ops \in Seq(Operation) /\ ops' = done.ops /\ sent' = sent \cup out
  BY <1>2, <1>7 DEF Grows, Commit
<1>14. sent' \subseteq 1..Len(ops')
  <2>1. out \subseteq 1..Len(ops')
    BY <1>1, <1>13, NewSent
  <2> QED
    BY <1>1, <1>12, <1>13, <2>1, Zenon DEF Traffic
<1>15. Traffic'
  BY <1>1, <1>2, <1>12, <1>14, TrafficKept DEF Traffic
<1> QED
  BY <1>12, <1>15 DEF IInv

\* What a participant signs last has the last identifier.
LEMMA SignedLast ==
    ASSUME NEW s, s.ops \in Seq(Operation), NEW q \in Peers
    PROVE  {Len(SignData(s, q, 1).ops)} \subseteq 1..Len(SignData(s, q, 1).ops)
<1> DEFINE op == [author |-> q, kind |-> "Data", who |-> q, deps |-> Heads(s.graph)]
<1>1. SignData(s, q, 1).ops = Append(s.ops, op)
  BY DEF SignData, Sign, Extend
<1> HIDE DEF op
<1>2. Len(Append(s.ops, op)) = Len(s.ops) + 1 /\ Len(s.ops) \in Nat
  OBVIOUS
<1> QED
  BY <1>1, <1>2

\* accept keeps the invariant: the newcomer starts from the welcome's graph.
LEMMA AcceptInv ==
    ASSUME IInv, NEW q \in Peers, NEW rotates \in BOOLEAN, Accept(q, rotates)
    PROVE  IInv'
<1>1. Core /\ Traffic
  BY Zenon DEF IInv
<1>2. PICK w \in welcomes :
        LET there == [ops |-> ops, graph |-> w.history] IN
        \E s \in IF rotates THEN {Extend(there, op) : op \in Rotations(q, w.history)} ELSE {there} :
           LET done == SignData(s, q, 1) IN Commit(q, done, {Len(done.ops)})
  BY Zenon DEF Accept
<1> DEFINE there == [ops |-> ops, graph |-> w.history]
<1>3. PICK s \in IF rotates THEN {Extend(there, op) : op \in Rotations(q, w.history)} ELSE {there} :
        Commit(q, SignData(s, q, 1), {Len(SignData(s, q, 1).ops)})
  BY <1>2, Zenon
<1> DEFINE done == SignData(s, q, 1)
<1>4. /\ Sane(there) /\ there.ops = ops /\ there.graph = w.history
      /\ \A h \in Held : Agree(there.graph, h)
  BY <1>1 DEF Core, Held, Sane
<1>5. Grows(there, s)
  <2>1. CASE s = there
    BY <1>4, <2>1, GrowsSelf, Zenon
  <2>2. ASSUME NEW op \in Rotations(q, w.history) PROVE Grows(there, Extend(there, op))
    <3>1. PICK part \in SUBSET DOMAIN w.history :
            op = [author |-> q, kind |-> "Data", who |-> q, deps |-> Heads([o \in part |-> w.history[o]])]
      BY <2>2 DEF Rotations
    <3>2. Heads([o \in part |-> w.history[o]]) \subseteq part
      BY DEF Heads
    <3>3. DOMAIN w.history \subseteq Nat
      <4>1. Good(ops, w.history)
        BY <1>4 DEF Sane
      <4> QED
        BY <4>1 DEF Good
    <3>4. op \in Operation /\ op.deps \subseteq DOMAIN there.graph /\ ~Founding(op)
      BY <1>4, <3>1, <3>2, <3>3, Zenon DEF Operation, Kinds, Founding
    <3> HIDE DEF there
    <3> QED
      BY <1>4, <3>4, ExtendGrows
  <2> QED
    BY <1>3, <2>1, <2>2
<1> HIDE DEF there
<1>6. Grows(s, done) /\ Grows(there, done)
  BY <1>4, <1>5, GrowsSane, SignDataGrows, GrowsOn, SMTT(30), Zenon
<1>7. s.ops \in Seq(Operation)
  BY <1>5, Zenon DEF Grows
<1>8. {Len(done.ops)} \subseteq 1..Len(done.ops) /\ done.ops \in Seq(Operation)
  <2>1. {Len(done.ops)} \subseteq 1..Len(done.ops)
    BY <1>7, SignedLast, Zenon
  <2> HIDE DEF done
  <2> QED
    BY <1>6, <2>1 DEF Grows
<1>9. Commit(q, done, {Len(done.ops)}) /\ joined' = joined \cup {q} /\ UNCHANGED <<pending, mail, syncs, welcomes>>
  BY <1>3 DEF Accept
<1> HIDE DEF done
<1> DEFINE W == {}
<1>10. welcomes' = welcomes \cup W /\ \A v \in W : FALSE
  BY <1>9, Zenon
<1> HIDE DEF W
<1>11. Core' /\ 1..Len(ops) \subseteq 1..Len(ops')
  BY <1>1, <1>4, <1>6, <1>9, <1>10, CommitCore, Zenon
<1>12. sent' \subseteq 1..Len(ops')
  BY <1>1, <1>8, <1>9, <1>11, Zenon DEF Commit, Traffic
<1>13. Traffic'
  BY <1>1, <1>9, <1>11, <1>12, TrafficKept DEF Traffic
<1> QED
  BY <1>11, <1>13 DEF IInv

\* Ingesting an operation whose dependencies are there, with or without a prekey
\* rotation in answer, keeps the graphs good.
LEMMA ApplyCore ==
    ASSUME Core, Traffic, NEW p \in Peers, NEW o \in 1..Len(ops), NEW answers \in 0..1,
           ops[o].deps \subseteq Dag(p), Apply(p, o, answers), welcomes' = welcomes
    PROVE  /\ Core' /\ 1..Len(ops) \subseteq 1..Len(ops')
           /\ sent' \subseteq 1..Len(ops')
<1>1. CASE UNCHANGED <<ops, graph, sent>>
  BY <1>1, QuietCore DEF Traffic
<1>2. CASE ~UNCHANGED <<ops, graph, sent>>
  <2> DEFINE g == graph[p]
             added == [ops |-> ops, graph |-> Add(g, o, ops[o].deps)]
             done == SignData(added, p, answers)
  <2>1. Commit(p, done, New(done))
    BY <1>2 DEF Apply
  <2>2. Good(ops, g) /\ Ordered(ops) /\ Len(ops) \in Nat /\ ops[o].deps \subseteq DOMAIN g
    BY DEF Core, Held, Dag
  <2>3. /\ Good(ops, Add(g, o, ops[o].deps))
        /\ DOMAIN Add(g, o, ops[o].deps) = DOMAIN g \cup {o}
        /\ \A h : Good(ops, h) /\ Agree(g, h) => Agree(Add(g, o, ops[o].deps), h)
    <3> HIDE DEF g
    <3> QED
      BY <2>2, AddGood, Zenon
  <2>4. Grows(Here(p), added)
    <3>1. Here(p).ops = ops /\ Here(p).graph = g /\ ops \in Seq(Operation)
      BY DEF Here, Core
    <3>2. added.ops = ops /\ added.graph = Add(g, o, ops[o].deps)
      OBVIOUS
    <3> HIDE DEF added, g
    <3>3. Sane(Here(p))
      BY HereSane
    <3> QED
      BY <2>3, <3>1, <3>2, <3>3, GrowsGraph
  <2> HIDE DEF added
  <2>5. Grows(Here(p), done)
    BY <2>4, HereSane, GrowsSane, SignDataGrows, GrowsOn
  <2> HIDE DEF done
  <2>6. Core' /\ 1..Len(ops) \subseteq 1..Len(ops')
    BY <2>1, <2>5, LocalCore, Zenon
  <2>7. done.ops \in Seq(Operation) /\ ops' = done.ops /\ sent' = sent \cup New(done)
    BY <2>1, <2>5 DEF Grows, Commit
  <2> QED
    BY <2>6, <2>7, NewSent, Zenon DEF Traffic
<1> QED
  BY <1>1, <1>2

\* Parked operations are finite; taking one out leaves no more of them.
LEMMA ParkLess ==
    ASSUME Core, Traffic, NEW p \in Peers, NEW o
    PROVE  IsFiniteSet(pending[p]) /\ Cardinality(pending[p] \ {o}) <= MaxPending
<1>1. IsFiniteSet(pending[p])
  <2>1. IsFiniteSet(1..Len(ops)) /\ pending[p] \subseteq 1..Len(ops)
    BY FS_Interval DEF Core, Traffic
  <2> QED
    BY <2>1, FS_Subset
<1>2. Cardinality(pending[p] \ {o}) <= Cardinality(pending[p]) /\ Cardinality(pending[p]) \in Nat
      /\ Cardinality(pending[p] \ {o}) \in Nat
  <2>1. pending[p] \ {o} \subseteq pending[p]
    OBVIOUS
  <2> QED
    BY <1>1, <2>1, FS_Subset, FS_CardinalityType
<1> QED
  BY <1>1, <1>2, ReplicaAssumption DEF Traffic

\* A buffer that is not full takes one more.
LEMMA ParkOne ==
    ASSUME Core, Traffic, NEW p \in Peers, NEW o, Cardinality(pending[p]) < MaxPending
    PROVE  Cardinality(pending[p] \cup {o}) <= MaxPending
<1>1. IsFiniteSet(pending[p])
  BY ParkLess
<1>2. Cardinality(pending[p]) \in Nat /\ Cardinality(pending[p] \cup {o}) \in {Cardinality(pending[p]), Cardinality(pending[p]) + 1}
  BY <1>1, FS_AddElement, FS_CardinalityType
<1> QED
  BY <1>2, ReplicaAssumption

\* Inbound operations keep the invariant.
LEMMA InboundInv ==
    ASSUME IInv, NEW p \in Peers, NEW o \in 1..Len(ops), NEW answers \in 0..1,
           \/ Receive(p, o, answers) \/ ReceiveDelivered(p, o, answers) \/ Drain(p, o, answers)
    PROVE  IInv'
<1>1. Core /\ Traffic
  BY DEF IInv
<1>2. joined' = joined /\ syncs' = syncs /\ welcomes' = welcomes
  BY DEF Receive, ReceiveDelivered, Drain
<1>3. mail' \in [Peers -> SUBSET (1..Len(ops))]
  BY <1>1 DEF Receive, ReceiveDelivered, Drain, Traffic
<1>4. /\ Core' /\ 1..Len(ops) \subseteq 1..Len(ops')
      /\ sent' \subseteq 1..Len(ops') /\ pending' \in [Peers -> SUBSET (1..Len(ops))]
  <2>1. CASE Apply(p, o, answers) /\ DepsSatisfied(graph[p], ops[o].deps)
             /\ pending' \in [Peers -> SUBSET (1..Len(ops))]
    BY <1>1, <1>2, <2>1, ApplyCore DEF DepsSatisfied, Dag
  <2>2. CASE Ingest(p, o, answers)
    <3>1. CASE o \in Dag(p) \/ DepsSatisfied(graph[p], ops[o].deps)
      <4>1. ops[o].deps \subseteq Dag(p)
        BY <1>1, <3>1 DEF Core, Held, Good, Dag, DepsSatisfied
      <4> QED
        BY <1>1, <2>1, <2>2, <3>1, <4>1 DEF Ingest, Traffic, Dag, DepsSatisfied
    <3>2. CASE ~(o \in Dag(p) \/ DepsSatisfied(graph[p], ops[o].deps))
      <4>1. UNCHANGED <<ops, graph, sent>> /\ pending' \in [Peers -> SUBSET (1..Len(ops))]
        BY <1>1, <2>2, <3>2 DEF Ingest, Traffic
      <4> QED
        BY <1>1, <1>2, <4>1, QuietCore DEF Traffic
    <3> QED
      BY <3>1, <3>2
  <2>3. CASE Drain(p, o, answers)
    <3>1. Apply(p, o, answers) /\ DepsSatisfied(graph[p], ops[o].deps)
      BY <2>3 DEF Drain, Ready
    <3>2. pending' \in [Peers -> SUBSET (1..Len(ops))]
      BY <1>1, <2>3 DEF Drain, Traffic
    <3> QED
      BY <2>1, <3>1, <3>2
  <2> QED
    BY <2>2, <2>3 DEF Receive, ReceiveDelivered
<1>5. \A q \in Peers : Cardinality(pending'[q]) <= MaxPending
  <2> SUFFICES ASSUME NEW q \in Peers PROVE Cardinality(pending'[q]) <= MaxPending
    OBVIOUS
  <2>1. CASE pending'[q] = pending[q]
    BY <1>1, <2>1 DEF Traffic
  <2>2. CASE q = p /\ pending' = [pending EXCEPT ![p] = @ \ {o}]
    <3>1. pending'[q] = pending[p] \ {o}
      BY <1>1, <2>2 DEF Traffic
    <3> QED
      BY <1>1, <3>1, ParkLess
  <2>3. CASE q = p /\ Cardinality(pending[p]) < MaxPending /\ pending' = [pending EXCEPT ![p] = @ \cup {o}]
    <3>1. pending'[q] = pending[p] \cup {o}
      BY <1>1, <2>3 DEF Traffic
    <3> QED
      BY <1>1, <2>3, <3>1, ParkOne
  <2> QED
    BY <1>1, <2>1, <2>2, <2>3 DEF Receive, ReceiveDelivered, Drain, Ingest, Traffic
<1>6. Traffic'
  BY <1>1, <1>2, <1>3, <1>4, <1>5, TrafficKept DEF Traffic
<1> QED
  BY <1>4, <1>6 DEF IInv

\* Anti-entropy requests and answers keep the invariant.
LEMMA SyncInv ==
    ASSUME IInv, NEW p \in Peers, SendSync(p) \/ \E m \in syncs : AnswerSync(p, m)
    PROVE  IInv'
<1> DEFINE Request == [from : Peers, to : Peers, heads : SUBSET (1..Len(ops))]
<1>1. Core /\ Traffic
  BY DEF IInv
<1>2. UNCHANGED <<ops, graph, welcomes, joined, pending, sent>>
  BY Zenon DEF SendSync, AnswerSync
<1>3. Core' /\ 1..Len(ops) \subseteq 1..Len(ops')
  BY <1>1, <1>2, QuietCore
<1>4. Dag(p) \subseteq 1..Len(ops) /\ Heads(graph[p]) \subseteq Dag(p)
  BY <1>1 DEF Core, Held, Good, Dag, Heads
<1>5. \A Q : Q \subseteq Peers => \A m \in Ask(p, Q) : m \in Request
  BY <1>4 DEF Ask
<1>6. \A m \in syncs : m \in Request
  BY <1>1 DEF Traffic
<1>7. mail' \in [Peers -> SUBSET (1..Len(ops))] /\ \A m \in syncs' : m \in Request
  <2>1. CASE SendSync(p)
    <3>1. mail' = mail /\ syncs' = {m \in syncs : m.from # p} \cup Ask(p, Peers \ {p})
      BY <2>1 DEF SendSync
    <3> QED
      BY <1>1, <1>5, <1>6, <3>1 DEF Traffic
  <2>2. ASSUME NEW m \in syncs, AnswerSync(p, m)
        PROVE  mail' \in [Peers -> SUBSET (1..Len(ops))] /\ \A x \in syncs' : x \in Request
    <3>1. m.from \in Peers
      BY <1>6
    <3>2. mail' \in [Peers -> SUBSET (1..Len(ops))]
      BY <1>1, <1>4, <2>2, Zenon DEF AnswerSync, Lacks, Traffic
    <3>3. syncs' \subseteq syncs \cup Ask(p, {m.from})
      BY <2>2 DEF AnswerSync
    <3> QED
      BY <1>5, <1>6, <3>1, <3>2, <3>3
  <2> QED
    BY <2>1, <2>2
<1>8. Traffic'
  BY <1>1, <1>2, <1>3, <1>7, TrafficKept DEF Traffic
<1> QED
  BY <1>3, <1>8 DEF IInv

\* Every step keeps the invariant.
LEMMA StepInv ==
    IInv /\ [Next]_vars => IInv'
<1> SUFFICES ASSUME IInv, [Next]_vars PROVE IInv'
  OBVIOUS
<1>1. CASE UNCHANGED vars
  <2>1. UNCHANGED <<ops, graph, welcomes>>
    BY <1>1 DEF vars
  <2>2. Core' /\ 1..Len(ops) \subseteq 1..Len(ops')
    BY <2>1, QuietCore DEF IInv
  <2>3. Traffic'
    BY <1>1 DEF vars, IInv, Traffic
  <2> QED
    BY <2>2, <2>3 DEF IInv
<1>2. ASSUME NEW p \in Peers, NEW q \in Peers, NEW rotates \in 0..1, NEW fails \in BOOLEAN,
             Invite(p, q, rotates, fails)
      PROVE  IInv'
  BY <1>2, InviteInv
<1>3. ASSUME NEW p \in Peers,
             Leave(p) \/ Publish(p) \/ \E q \in Peers, fails \in BOOLEAN : Remove(p, q, fails)
      PROVE  IInv'
  BY <1>3, LocalInv
<1>4. ASSUME NEW q \in Peers, NEW rotates \in BOOLEAN, Accept(q, rotates) PROVE IInv'
  BY <1>4, AcceptInv
<1>5. ASSUME NEW p \in Peers, NEW o \in 1..Len(ops), NEW answers \in 0..1,
             \/ Receive(p, o, answers) \/ ReceiveDelivered(p, o, answers) \/ Drain(p, o, answers)
      PROVE  IInv'
  BY <1>5, InboundInv
<1>6. ASSUME NEW p \in Peers, SendSync(p) \/ \E m \in syncs : AnswerSync(p, m) PROVE IInv'
  BY <1>6, SyncInv
<1> QED
  BY <1>1, <1>2, <1>3, <1>4, <1>5, <1>6 DEF Next

\* The invariant always holds.
LEMMA InvHolds ==
    Spec => []IInv
  BY InitInv, StepInv, PTL DEF Spec

\* The rosters in the past of an operation are the same in graphs that agree.
LEMMA SameRoster ==
    ASSUME NEW O, NEW g, NEW h, Good(O, g), Good(O, h), Agree(g, h),
           NEW op, op.deps \subseteq DOMAIN g, op.deps \subseteq DOMAIN h
    PROVE  MembersBefore(O, g, op) = MembersBefore(O, h, op)
<1> DEFINE K == Closure(g, op.deps)
<1>1. K = Closure(h, op.deps) /\ K \subseteq DOMAIN g /\ K \subseteq DOMAIN h
  BY SameClosure, ClosureInside
<1>2. \A a \in K : \A r : Precedes(g, r, a) <=> Precedes(h, r, a)
  BY <1>1 DEF Precedes, Agree
<1> HIDE DEF K
<1>3. MembersIn(O, g, K) = MembersIn(O, h, K)
  BY <1>2 DEF MembersIn
<1> QED
  BY <1>1, <1>3 DEF MembersBefore, K

-----------------------------------------------------------------------------
\* The state of every participant is well-typed.
THEOREM TypeCorrect == Spec => []TypeOK
  BY InvHolds, InvTypes, PTL

\* A participant that holds an operation holds its whole signed past: the
\* assumption on which a Sync that names only heads rests.
THEOREM AlwaysClosed == Spec => []CausallyClosed
<1>1. IInv => CausallyClosed
  <2> SUFFICES ASSUME IInv, NEW p \in Peers, NEW o \in Dag(p)
               PROVE  ops[o].deps \subseteq graph[p][o] /\ graph[p][o] \subseteq Dag(p)
    BY DEF CausallyClosed
  <2>1. Good(ops, graph[p])
    BY DEF IInv, Core, Held
  <2>2. ops[o].deps \subseteq DOMAIN graph[p] /\ graph[p][o] = Closure(graph[p], ops[o].deps)
    BY <2>1 DEF Good, Dag
  <2> QED
    BY <2>1, <2>2, ClosureInside DEF Dag
<1> QED
  BY <1>1, InvHolds, PTL

\* Two participants never disagree about the past of an operation both hold.
THEOREM PastIsShared == Spec => []SamePast
<1>1. IInv => SamePast
  BY SMTT(30), Zenon DEF IInv, Core, Held, Agree, SamePast, Dag
<1> QED
  BY <1>1, InvHolds, PTL

\* Two participants that can judge an operation judge it alike, in whatever
\* order they received what they hold.
THEOREM VerdictIsShared == Spec => []SameVerdict
<1>1. IInv => SameVerdict
  <2> SUFFICES ASSUME IInv, NEW o \in 1..Len(ops), NEW p \in joined, NEW q \in joined,
                      DepsSatisfied(graph[p], ops[o].deps), DepsSatisfied(graph[q], ops[o].deps)
               PROVE  Authorised(ops, graph[p], ops[o]) <=> Authorised(ops, graph[q], ops[o])
    BY DEF SameVerdict
  <2>1. p \in Peers /\ q \in Peers
    BY DEF IInv, Traffic
  <2>2. Good(ops, graph[p]) /\ Good(ops, graph[q]) /\ Agree(graph[p], graph[q])
    BY <2>1 DEF IInv, Core, Held
  <2>3. MembersBefore(ops, graph[p], ops[o]) = MembersBefore(ops, graph[q], ops[o])
    BY <2>2, SameRoster, Zenon DEF DepsSatisfied
  <2>4. ASSUME NEW r \in {p, q}, Founding(ops[o])
        PROVE  \A x \in DOMAIN graph[r] : Founding(ops[x]) => ops[x].author = ops[o].author
    BY <2>2, <2>4, Zenon DEF IInv, Core, Good
  <2> QED
    BY <2>3, <2>4 DEF Authorised
<1> QED
  BY <1>1, InvHolds, PTL
===============================================================================
