-------------------------- MODULE KeyAgreementProofs --------------------------
(* KeyAgreement: the two ends of a channel never disagree about the position, *)
(* and what a participant holds is always something import_persistence_state  *)
(* accepts.  For every set of members and every value of the bounds.          *)
EXTENDS KeyAgreementLemmas, FiniteSetTheorems

-----------------------------------------------------------------------------
\* Every set of numbers that is not empty has a least element.
LEMMA Smallest == LeastNumber
<1> SUFFICES ASSUME NEW S \in SUBSET Nat, S # {} PROVE \E x \in S : \A y \in S : x <= y
  BY DEF LeastNumber
<1>1. PICK x \in S : \A y \in S : ~(<<y, x>> \in OpToRel(<, Nat))
  BY NatLessThanWellFounded, WFMin, Zenon
<1>2. ASSUME NEW y \in S PROVE x <= y
  <2>1. x \in Nat /\ y \in Nat
    OBVIOUS
  <2>2. ~(y < x)
    BY <1>1, <2>1, Zenon DEF OpToRel
  <2> QED
    BY <2>1, <2>2
<1> QED
  BY <1>2

\* The steps by which a buffer fills.
LEMMA Filling == FiniteSteps
  BY FS_EmptySet, FS_CardinalityType, FS_AddElement, Zenon DEF FiniteSteps

-----------------------------------------------------------------------------
(* Each action keeps the invariant.                                           *)

\* p ends a handler with the thread t.
LEMMA OnwardInv ==
    ASSUME IInv, NEW p \in Peers, NEW t, Onward(ops, p, me[p], t), Set(p, t)
    PROVE  IInv'
  BY SetInv, Zenon DEF Onward, Set

\* A handler starts from what the participant holds.
LEMMA HereStarts ==
    ASSUME IInv, NEW p \in Peers
    PROVE  /\ Here(p) \in Threads /\ Here(p).ops = ops /\ Here(p).s = me[p]
           /\ Wired(ops) /\ Local(ops, p, me[p]) /\ me[p] \in State /\ Onward(ops, p, me[p], Here(p))
<1>1. ops \in Seq(Operation) /\ me[p] \in State /\ Wired(ops) /\ Local(ops, p, me[p])
  BY DEF IInv, Wired
<1>2. Here(p) \in Threads /\ Here(p).ops = ops /\ Here(p).s = me[p]
  BY <1>1 DEF Here, Threads
<1>3. Onward(ops, p, me[p], Here(p))
  BY <1>1, <1>2, GrownNot DEF Onward
<1> QED
  BY <1>1, <1>2, <1>3, SMTT(30), Zenon

\* contribute keeps the invariant.
LEMMA ContributeInv == ASSUME IInv, NEW p \in Peers, Contribute(p) PROVE IInv'
<1>1. PICK t : t = Here(p)
  OBVIOUS
<1>2. t \in Threads /\ t.ops = ops /\ t.s = me[p] /\ Wired(t.ops) /\ Local(t.ops, p, t.s)
  BY <1>1, HereStarts
<1>3. Onward(t.ops, p, t.s, ContributeTo(t, p))
  BY <1>2, Contributed, Smallest
<1>4. Set(p, ContributeTo(t, p))
  BY <1>1 DEF Contribute
<1> QED
  BY <1>2, <1>3, <1>4, OnwardInv

\* heal keeps the invariant.
LEMMA HealInv == ASSUME IInv, NEW p \in Peers, Heal(p) PROVE IInv'
<1>1. PICK t, u : t = Here(p) /\ u = RotatePrekeys(t, p)
  OBVIOUS
<1>2. t \in Threads /\ t.ops = ops /\ t.s = me[p] /\ Wired(t.ops) /\ Local(t.ops, p, t.s)
  BY <1>1, HereStarts
<1>3. Onward(ops, p, me[p], u)
  BY <1>1, <1>2, Rotated, Smallest
<1>4. u \in Threads /\ Wired(u.ops) /\ Local(u.ops, p, u.s)
  BY <1>3 DEF Onward
<1>5. Onward(u.ops, p, u.s, ContributeTo(u, p))
  BY <1>4, Contributed, Smallest
<1>6. Onward(ops, p, me[p], ContributeTo(u, p))
  BY <1>2, <1>3, <1>5, OnwardOn, Zenon
<1>7. Set(p, IF MayContribute(u) THEN ContributeTo(u, p) ELSE u)
  BY <1>1 DEF Heal
<1>8. Set(p, ContributeTo(u, p)) \/ Set(p, u)
  BY <1>7
<1> QED
  BY <1>3, <1>6, <1>8, OnwardInv

\* tick keeps the invariant.
LEMMA TickInv == ASSUME IInv, NEW p \in Peers, Tick(p) PROVE IInv'
<1>1. PICK s, d, b : /\ s = me[p] /\ b = (s.pool.sealed \/ s.pool.age + 1 >= SEAL_AFTER)
                     /\ d = [s.pool EXCEPT !.age = @ + 1, !.sealed = b]
  BY Zenon
<1>2. s \in State /\ s.pool \in Pools /\ Local(ops, p, s) /\ ops \in Seq(Operation) /\ Wired(ops)
  BY <1>1, HereStarts DEF State, Wired
<1>3. d \in Pools /\ d.served = s.pool.served /\ d.sealed = b /\ d.age = s.pool.age + 1
  <2>1. b \in BOOLEAN /\ s.pool.age \in Nat /\ s.pool.sealed \in BOOLEAN
    BY <1>1, <1>2 DEF Pools
  <2>2. s.pool.age + 1 \in Nat
    BY <2>1
  <2> QED
    BY <1>1, <1>2, <2>1, <2>2, Zenon DEF Pools
<1>4. Pooled(p, d)
  <2>1. s.pool.served \subseteq Others(p)
    BY <1>2 DEF Local, Pooled
  <2>2. s.pool.age + 1 \in Nat /\ SEAL_AFTER \in Nat
    BY <1>2, AgreementAssumption DEF Pools
  <2>3. ~b => s.pool.age + 1 < SEAL_AFTER
    <3>1. ~b => ~(s.pool.age + 1 >= SEAL_AFTER)
      BY <1>1, Zenon
    <3> QED
      BY <2>2, <3>1
  <2> QED
    BY <1>3, <2>1, <2>3, Zenon DEF Pooled
<1>5. PICK u : u = [s EXCEPT !.pool = d]
  BY Zenon
<1>6. /\ u \in State /\ u.graph = s.graph /\ u.pool = d /\ u.prekeys = s.prekeys /\ u.send = s.send
      /\ u.recv = s.recv /\ u.keys = s.keys /\ u.absorbed = s.absorbed /\ u.missing = s.missing
  BY <1>2, <1>3, <1>5, NewPool
<1>7. Local(ops, p, u)
  BY <1>2, <1>4, <1>6 DEF Local, Nodes, Linked
<1>8. me' = [me EXCEPT ![p] = u] /\ ops' = ops
  <2>1. me \in [Peers -> State]
    BY DEF IInv
  <2>2. me' = [me EXCEPT ![p] = [me[p] EXCEPT !.pool = [me[p].pool EXCEPT !.age = @ + 1, !.sealed = @ \/ me[p].pool.age + 1 >= SEAL_AFTER]]]
    BY <2>1, Zenon DEF Tick
  <2>3. [me[p].pool EXCEPT !.age = @ + 1, !.sealed = @ \/ me[p].pool.age + 1 >= SEAL_AFTER] = d
    BY <1>1, <1>2 DEF Pools
  <2> QED
    BY <1>1, <1>5, <2>2, <2>3, Zenon DEF Tick
<1>9. Grown(ops, me[p].graph, ops, u.graph, p)
  BY <1>1, <1>2, <1>6, GrownNot
<1> QED
  BY <1>2, <1>7, <1>8, <1>9, SetInv, Zenon

\* resync asks for missing nodes and changes nothing the invariant speaks of.
LEMMA RepairRequestInv == ASSUME IInv, NEW p \in Peers, RepairRequest(p) PROVE IInv'
<1>1. PICK t : t = Here(p)
  OBVIOUS
<1>2. /\ t \in Threads /\ t.ops = ops /\ t.s = me[p] /\ Wired(t.ops) /\ Local(t.ops, p, t.s)
      /\ Onward(ops, p, me[p], t)
  BY <1>1, HereStarts
<1>3. Onward(ops, p, me[p], RotatePrekeys(t, p))
  BY <1>2, Rotated, Smallest
<1>4. Set(p, IF me[p].pool.sealed THEN RotatePrekeys(t, p) ELSE t)
  BY <1>1 DEF RepairRequest
<1>5. Set(p, RotatePrekeys(t, p)) \/ Set(p, t)
  BY <1>4
<1> QED
  BY <1>2, <1>3, <1>5, OnwardInv, Zenon

\* The invariant speaks of operations and participants only.
LEMMA UnchangedInv == ASSUME IInv, UNCHANGED <<ops, me>> PROVE IInv'
  BY Zenon DEF IInv

\* Participant::absorb_node_keys.
LEMMA AbsorbNodeKeysInv ==
    ASSUME IInv, NEW p \in Peers, NEW q \in Peers, AbsorbNodeKeys(p, q)
    PROVE  IInv'
<1>1. PICK s, K : s = me[p] /\ K = resps[p][q].entries \cap FrontierOf(ops, me[p])
  BY Zenon
<1>2. s \in State /\ Local(ops, p, s) /\ ops \in Seq(Operation) /\ Wired(ops)
  BY <1>1, HereStarts DEF Wired
<1>3. CASE UNCHANGED me
  BY <1>3, UnchangedInv, Zenon DEF AbsorbNodeKeys
<1>4. CASE \E order \in Bijection(1..Cardinality(K), K) :
             me' = [me EXCEPT ![p].keys = InsertAll(@, order),
                              ![p].absorbed = @ \cup K, ![p].missing = @ \ K]
  <2>1. PICK f \in Bijection(1..Cardinality(K), K) :
             me' = [me EXCEPT ![p].keys = InsertAll(@, f),
                              ![p].absorbed = @ \cup K, ![p].missing = @ \ K]
    BY <1>4, Zenon
  <2>2. K \subseteq Contribs(ops) \cap DOMAIN s.graph /\ K \in SUBSET Nat /\ IsFiniteSet(K)
    <3>1. K \subseteq Contribs(ops) \cap DOMAIN s.graph
      BY <1>1 DEF FrontierOf, Frontier
    <3>2. Contribs(ops) \subseteq 1..Len(ops) /\ Len(ops) \in Nat
      BY <1>2 DEF Contribs
    <3>3. K \subseteq 1..Len(ops) /\ IsFiniteSet(1..Len(ops))
      BY <3>1, <3>2, FS_Interval
    <3> QED
      <4>1. IsFiniteSet(K)
        BY <3>3, FS_Subset, Zenon
      <4>2. K \subseteq Nat
        BY <3>3
      <4> QED
        BY <3>1, <4>1, <4>2
  <2>3. f \in Seq(Nat) /\ Range(f) \subseteq K
    <3>1. Cardinality(K) \in Nat
      BY <2>2, FS_CardinalityType
    <3>2. f \in [1..Cardinality(K) -> K]
      BY <2>1 DEF Bijection, Injection, Surjection
    <3>3. f \in [1..Cardinality(K) -> Nat]
      BY <2>2, <3>2, Zenon
    <3>4. f \in Seq(Nat)
      BY <3>1, <3>3
    <3> QED
      BY <3>2, <3>4 DEF Range
  <2>4. KeyList(s.keys) /\ Nodes(ops, s)
    BY <1>2 DEF Local
  <2>5. PICK k : k = InsertAll(s.keys, f)
    OBVIOUS
  <2>6. KeyList(k) /\ Range(k) \subseteq Range(s.keys) \cup K
    <3>1. KeyList(InsertAll(s.keys, f)) /\ Range(InsertAll(s.keys, f)) \subseteq Range(s.keys) \cup Range(f)
      BY <2>3, <2>4, InsertedAll, Smallest
    <3> QED
      BY <2>3, <2>5, <3>1, Zenon
  <2>7. PICK u : u = [s EXCEPT !.keys = k, !.absorbed = @ \cup K, !.missing = @ \ K]
    BY Zenon
  <2>8. Holding(ops, s, u)
    BY <1>2, <2>2, <2>4, <2>6, <2>7, NewKeys, Zenon
  <2>9. Local(ops, p, u) /\ u.graph = s.graph
    BY <1>2, <2>8, HoldingLocal DEF Holding
  <2>10. me' = [me EXCEPT ![p] = u]
    <3>1. me \in [Peers -> State]
      BY DEF IInv
    <3>2. me' = [me EXCEPT ![p] = [me[p] EXCEPT !.keys = InsertAll(@, f), !.absorbed = @ \cup K, !.missing = @ \ K]]
      BY <2>1, <3>1, ZenonT(30)
    <3>3. [me[p] EXCEPT !.keys = InsertAll(@, f), !.absorbed = @ \cup K, !.missing = @ \ K] = u
      BY <1>1, <1>2, <2>5, <2>7 DEF State
    <3> QED
      BY <3>2, <3>3, Zenon
  <2>11. Grown(ops, me[p].graph, ops, u.graph, p) /\ ops' = ops
    BY <1>1, <1>2, <2>9, GrownNot, Zenon DEF AbsorbNodeKeys
  <2> QED
    BY <1>2, <2>9, <2>10, <2>11, SetInv, Zenon
<1> QED
  BY <1>1, <1>3, <1>4, Zenon DEF AbsorbNodeKeys

\* An operation joins the graph of p, before it is handled.
LEMMA Joined ==
    ASSUME IInv, NEW p \in Peers, NEW o \in DOMAIN ops \ DOMAIN me[p].graph,
           DepsSatisfied(me[p].graph, ops[o].deps), NEW h, h = Add(me[p].graph, o, ops[o].deps),
           NEW u, u = [me[p] EXCEPT !.graph = h]
    PROVE  /\ Almost(ops, p, u, ops[o].author) /\ u.graph = h /\ DOMAIN h = DOMAIN me[p].graph \cup {o}
           /\ u.absorbed = me[p].absorbed /\ u.recv = me[p].recv /\ h \in Pasts
           /\ Grown(ops, me[p].graph, ops, h, p)
<1>1. PICK s, g : s = me[p] /\ g = me[p].graph
  OBVIOUS
<1>2. /\ s \in State /\ Local(ops, p, s) /\ ops \in Seq(Operation) /\ Wired(ops) /\ Ordered(ops)
      /\ Len(ops) \in Nat /\ DOMAIN ops = 1..Len(ops) /\ s.graph = g
  BY <1>1, HereStarts DEF Wired
<1>3. Good(ops, g) /\ Own(ops, p, g) /\ {1, 2} \subseteq DOMAIN g
  BY <1>2 DEF Local, Rooted
<1>4. o \in 1..Len(ops) /\ o \notin DOMAIN g /\ ops[o].deps \subseteq DOMAIN g /\ h = Add(g, o, ops[o].deps)
  BY <1>1, <1>2 DEF DepsSatisfied
<1>5. /\ Good(ops, h) /\ DOMAIN h = DOMAIN g \cup {o}
      /\ \A x : Good(ops, x) /\ Agree(g, x) => Agree(h, x)
  <2>1. /\ Good(ops, Add(g, o, ops[o].deps)) /\ DOMAIN Add(g, o, ops[o].deps) = DOMAIN g \cup {o}
        /\ \A x : Good(ops, x) /\ Agree(g, x) => Agree(Add(g, o, ops[o].deps), x)
    BY <1>2, <1>3, <1>4, AddGood, Zenon
  <2> QED
    BY <1>4, <2>1, Zenon
<1>6. h \in Pasts
  BY <1>2, <1>5, GoodPasts
<1>7. Grown(ops, g, ops, h, p)
  BY <1>2, <1>5 DEF Grown
<1>8. /\ u \in State /\ u.graph = h /\ u.pool = s.pool /\ u.prekeys = s.prekeys /\ u.send = s.send
      /\ u.recv = s.recv /\ u.keys = s.keys /\ u.absorbed = s.absorbed /\ u.missing = s.missing
  BY <1>1, <1>2, <1>6, NewGraph, SMTT(30), Zenon
<1>9. Rooted(ops, p, u.graph)
  <2>1. \A x \in DOMAIN g : h[x] = g[x]
    BY <1>4 DEF Add
  <2>2. Own(ops, p, h)
    BY <1>3, <1>5, <2>1, Zenon DEF Own
  <2> QED
    BY <1>3, <1>5, <1>8, <2>2, Zenon DEF Rooted
<1>10. Nodes(ops, u)
  <2>1. Nodes(ops, s)
    BY <1>2 DEF Local
  <2> QED
    BY <1>2, <1>5, <1>8, <2>1, Zenon DEF Nodes
<1>11. ASSUME NEW q \in Others(p), q # ops[o].author PROVE Receives(ops, q, p, u.graph, u.recv[q])
  <2>1. Receives(ops, q, p, g, s.recv[q])
    BY <1>2 DEF Local, Linked
  <2>2. Mail(ops, q, p) \cap DOMAIN h = Mail(ops, q, p) \cap DOMAIN g
    BY <1>5, <1>11 DEF Mail
  <2> QED
    BY <1>8, <2>1, <2>2, ReceivesKept
<1>12. Linked(ops, p, s) /\ Pooled(p, s.pool) /\ KeyList(s.keys)
  BY <1>2 DEF Local
<1>13. Almost(ops, p, u, ops[o].author)
  BY <1>8, <1>9, <1>10, <1>11, <1>12 DEF Almost, Linked
<1> QED
  BY <1>1, <1>5, <1>6, <1>7, <1>8, <1>13, SMTT(30), Zenon

\* Participant::ingest of a Prekeys operation.
LEMMA PrekeysHandled ==
    ASSUME NEW t \in Threads, Wired(t.ops), NEW p \in Peers, NEW o \in 1..Len(t.ops),
           t.ops[o].author # p, t.ops[o].kind = "Prekeys", Local(t.ops, p, t.s)
    PROVE  Onward(t.ops, p, t.s, ReceivePrekeys(t, o))
<1>1. PICK O, s, a, n, r : /\ O = t.ops /\ s = t.s /\ a = t.ops[o].author /\ n = t.ops[o].gen
                           /\ r = ReceivePrekeys(t, o)
  OBVIOUS
<1>2. /\ O \in Seq(Operation) /\ Wired(O) /\ s \in State /\ Local(O, p, s) /\ s.prekeys \in [Peers -> Nat]
      /\ s.send \in [Peers -> Chans]
  BY <1>1, Zenon DEF Threads, State
<1>3. a \in Peers /\ a # p /\ n \in Int /\ s.prekeys[a] \in Nat
  <2>1. O[o] \in Operation
    BY <1>1, <1>2, SeqElement, Zenon
  <2>2. a \in Peers /\ n \in Int
    BY <1>1, <2>1 DEF Operation
  <2> QED
    BY <1>1, <1>2, <2>2, Zenon
<1>4. CASE ~(n > s.prekeys[a])
  <2>1. r = t
    BY <1>1, <1>4 DEF ReceivePrekeys
  <2>2. Onward(t.ops, p, t.s, t)
    BY <1>1, <1>2, GrownNot DEF Onward
  <2> QED
    BY <1>1, <2>1, <2>2
<1>5. CASE n > s.prekeys[a]
  <2>1. n \in Nat
    BY <1>3, <1>5
  <2>2. PICK u : u = [s EXCEPT !.prekeys = [s.prekeys EXCEPT ![a] = n], !.send = [s.send EXCEPT ![a] = NoChan]]
    OBVIOUS
  <2>3. PICK k, c : k = [s.prekeys EXCEPT ![a] = n] /\ c = [s.send EXCEPT ![a] = NoChan]
    BY Zenon
  <2>4. /\ k \in [Peers -> Nat] /\ c \in [Peers -> Chans] /\ c[a] = NoChan
        /\ \A q \in Peers : q # a => k[q] = s.prekeys[q] /\ c[q] = s.send[q]
    <3>1. NoChan \in Chans
      BY DEF NoChan, Chans
    <3> QED
      BY <1>2, <1>3, <2>1, <2>3, <3>1, SMTT(30), Zenon
  <2>5. /\ u \in State /\ u.graph = s.graph /\ u.pool = s.pool /\ u.prekeys = k /\ u.send = c
        /\ u.recv = s.recv /\ u.keys = s.keys /\ u.absorbed = s.absorbed /\ u.missing = s.missing
    <3>1. u = [s EXCEPT !.prekeys = k, !.send = c]
      BY <2>2, <2>3
    <3> QED
      BY <1>2, <2>4, <3>1, ZenonT(30) DEF State
  <2>6. Linked(O, p, u)
    <3>1. Linked(O, p, s)
      BY <1>2 DEF Local
    <3>2. \A q \in Others(p) : Sends(O, p, q, c[q])
      <4>1. Sends(O, p, a, NoChan)
        BY DEF Sends, NoChan
      <4>2. \A q \in Others(p) : q # a => Sends(O, p, q, c[q])
        BY <2>4, <3>1, Zenon DEF Linked, Others
      <4> QED
        BY <2>4, <4>1, <4>2
    <3> QED
      BY <1>3, <2>4, <2>5, <3>1, <3>2, SMTT(30), Zenon DEF Linked
  <2>7. Local(O, p, u)
    BY <1>2, <2>5, <2>6 DEF Local, Nodes
  <2>8. Handled(O, p, s, u)
    BY <2>5, <2>7 DEF Handled
  <2>9. r = [t EXCEPT !.s = u]
    <3>1. r = [t EXCEPT !.s.prekeys[a] = n, !.s.send[a] = NoChan]
      BY <1>1, <1>5 DEF ReceivePrekeys
    <3>2. [t EXCEPT !.s.prekeys[a] = n, !.s.send[a] = NoChan] = [t EXCEPT !.s = u]
      BY <1>1, <1>2, <2>2, Zenon DEF Threads, State
    <3> QED
      BY <3>1, <3>2
  <2>10. Onward(t.ops, p, t.s, [t EXCEPT !.s = u])
    BY <1>1, <2>8, HandledOnward, Zenon
  <2> QED
    BY <1>1, <2>9, <2>10, Zenon
<1> QED
  BY <1>4, <1>5, Zenon

\* ingest of an operation whose dependencies are present keeps the invariant.
LEMMA IngestInv ==
    ASSUME IInv, NEW p \in Peers, NEW o \in DOMAIN ops, Ingest(p, o)
    PROVE  IInv'
<1>1. PICK s, g, a, h, u : /\ s = me[p] /\ g = me[p].graph /\ a = ops[o].author
                           /\ h = Add(me[p].graph, o, ops[o].deps) /\ u = [me[p] EXCEPT !.graph = h]
  BY Zenon
<1>2. /\ s \in State /\ Local(ops, p, s) /\ ops \in Seq(Operation) /\ Wired(ops) /\ s.graph = g
      /\ Here(p) \in Threads /\ Here(p).ops = ops /\ Here(p).s = s /\ Len(ops) \in Nat
  BY <1>1, HereStarts DEF Wired
<1>3. o \in DOMAIN ops \ DOMAIN me[p].graph /\ DepsSatisfied(me[p].graph, ops[o].deps)
  BY DEF Ingest
<1>4. /\ Almost(ops, p, u, a) /\ u.graph = h /\ DOMAIN h = DOMAIN g \cup {o}
      /\ u.absorbed = s.absorbed /\ u.recv = s.recv /\ h \in Pasts /\ Grown(ops, g, ops, h, p)
  BY <1>1, <1>3, Joined
<1>5. /\ a \in Peers /\ a # p
      /\ \A y \in 1..Len(ops) : ops[y].author = a => (y \in DOMAIN g <=> y < o)
  BY <1>1, <1>3, InOrder
<1>6. PICK t : t = [Here(p) EXCEPT !.s.graph = Add(@, o, ops[o].deps)]
  BY Zenon
<1>7. t \in Threads /\ t.ops = ops /\ t.s = u
  <2>1. u \in State
    BY <1>4 DEF Almost
  <2>2. t = [Here(p) EXCEPT !.s = u]
    BY <1>1, <1>2, <1>6 DEF Threads, State
  <2> QED
    BY <1>2, <2>1, <2>2, NewState, SMTT(30), Zenon
<1>8. /\ ops[o] \in Operation /\ o \in 1..Len(ops)
      /\ ops[o].kind = "Prekeys" \/ ops[o].kind = "Contrib"
  <2>1. ops[o] \in Operation /\ o \in 1..Len(ops)
    BY <1>2, <1>3, SeqElement
  <2> QED
    BY <2>1 DEF Operation
<1>9. ASSUME NEW r, Onward(ops, p, u, r), Set(p, r) PROVE IInv'
  <2>1. Grown(ops, u.graph, r.ops, r.s.graph, p) /\ Wired(r.ops)
    BY <1>9 DEF Onward
  <2>2. Grown(ops, me[p].graph, r.ops, r.s.graph, p)
    BY <1>1, <1>2, <1>4, <2>1, GrownOn
  <2>3. Onward(ops, p, me[p], r)
    BY <1>9, <2>2, Zenon DEF Onward
  <2> QED
    BY <1>9, <2>3, OnwardInv
<1>10. Receives(ops, a, p, g, s.recv[a])
  BY <1>2, <1>5 DEF Local, Linked, Others
<1>11. CASE ops[o].kind = "Prekeys"
  <2>1. Mail(ops, a, p) \cap DOMAIN h = Mail(ops, a, p) \cap DOMAIN g
    BY <1>4, <1>11, Zenon DEF Mail
  <2>2. Receives(ops, a, p, u.graph, u.recv[a])
    BY <1>4, <1>10, <2>1, ReceivesKept, SMTT(30), Zenon
  <2>3. Local(ops, p, u)
    BY <1>4, <2>2, AlmostLocal
  <2>4. Onward(ops, p, u, ReceivePrekeys(t, o))
    BY <1>1, <1>2, <1>5, <1>7, <1>8, <1>11, <2>3, PrekeysHandled
  <2>5. Set(p, ReceivePrekeys(t, o))
    BY <1>6, <1>11 DEF Ingest
  <2> QED
    BY <1>9, <2>4, <2>5, Zenon
<1>12. CASE ops[o].kind = "Contrib"
  <2>1. o \in Mail(ops, a, p)
    <3>1. {1, 2} \subseteq DOMAIN g
      BY <1>2 DEF Local, Rooted
    <3>2. o \in 2..Len(ops)
      BY <1>1, <1>2, <1>3, <1>8, <3>1, SMTT(30), Zenon
    <3>3. DOMAIN ops[o].slices = Others(a)
      BY <1>1, <1>2, <1>12, <3>2 DEF Wired
    <3> QED
      BY <1>1, <1>5, <1>8, <1>12, <3>3, SMTT(30), Zenon DEF Mail, Others
  <2>2. o \notin u.absorbed
    BY <1>1, <1>2, <1>3, <1>4, Zenon DEF Local, Nodes
  <2>3. \A y \in Mail(ops, a, p) : y \in DOMAIN g <=> y < o
    BY <1>5, Zenon DEF Mail
  <2>4. Arrives(ops, p, u, a, g, o)
    BY <1>4, <1>10, <2>1, <2>2, <2>3 DEF Arrives
  <2>5. Onward(ops, p, u, ReceiveContribution(t, p, o))
    BY <1>2, <1>5, <1>7, <2>4, Received, Smallest, Filling, ZenonT(30)
  <2>6. Set(p, ReceiveContribution(t, p, o))
    BY <1>6, <1>12 DEF Ingest
  <2> QED
    BY <1>9, <2>5, <2>6, Zenon
<1> QED
  BY <1>8, <1>11, <1>12

-----------------------------------------------------------------------------
(* The conference as it is created.                                           *)

\* Without a channel there is nothing to agree about.
LEMMA NothingReceived ==
    ASSUME NEW O, NEW p, NEW q, NEW g
    PROVE  Receives(O, p, q, g, NoRecv) /\ Sends(O, p, q, NoChan) /\ NoRecv \in Recvs /\ NoChan \in Chans
<1>1. NoRecv.eph = 0 /\ NoRecv.buffer = {} /\ NoChan.eph = 0
  BY DEF NoRecv, NoChan
<1>2. IsFiniteSet({}) /\ Cardinality({}) <= MAX_BUFFERED
  BY FS_EmptySet, AgreementAssumption, SMTT(30), Zenon
<1>3. NoRecv \in Recvs /\ NoChan \in Chans
  BY DEF NoRecv, NoChan, Recvs, Chans
<1> QED
  BY <1>1, <1>2, <1>3, Zenon DEF Receives, Sends

\* The founder's first contribution, and the one the members it invited have
\* opened.
LEMMA FoundingOp ==
    LET f == [author |-> Founder, kind |-> "Contrib", deps |-> {}, gen |-> NoGen,
              cparents |-> {}, slices |-> <<>>]
    IN  /\ f \in Operation /\ f.kind = "Contrib" /\ f.author = Founder /\ f.deps = {} /\ f.slices = <<>>
<1>1. NoGen \in Int /\ Founder \in Peers
  BY AgreementAssumption DEF NoGen
<1> QED
  BY <1>1, NoSlices DEF Operation

\* The founder's contribution follows the creation.
LEMMA SecondOp ==
    ASSUME NEW f \in Operation, NEW sl \in UNION {[D -> Slices] : D \in SUBSET Peers}
    PROVE  LET c == [f EXCEPT !.deps = {1}, !.cparents = {1}, !.slices = sl] IN
           c \in Operation /\ c.kind = f.kind /\ c.author = f.author /\ c.deps = {1} /\ c.slices = sl
<1> DEFINE X == UNION {[D -> Slices] : D \in SUBSET Peers}
<1>1. Operation = [author : Peers, kind : {"Contrib", "Prekeys"}, deps : SUBSET Nat, gen : Int,
                   cparents : SUBSET Nat, slices : X]
  BY DEF Operation
<1>2. sl \in X
  OBVIOUS
<1> HIDE DEF X
<1>3. {1} \in SUBSET Nat
  OBVIOUS
<1> QED
  BY <1>1, <1>2, <1>3, Zenon

\* Its slices establish a channel with every other member.
LEMMA FirstSlices ==
    LET sl == [q \in Others(Founder) |-> [eph |-> 2, gen |-> 0, seq |-> 0]] IN
    /\ sl \in UNION {[D -> Slices] : D \in SUBSET Peers} /\ DOMAIN sl = Others(Founder)
    /\ \A q \in Others(Founder) : sl[q].eph = 2 /\ sl[q].gen = 0 /\ sl[q].seq = 0
<1> DEFINE z == [eph |-> 2, gen |-> 0, seq |-> 0]
           sl == [q \in Others(Founder) |-> z]
<1>1. z \in Slices /\ z.eph = 2 /\ z.gen = 0 /\ z.seq = 0
  BY DEF Slices
<1>2. DOMAIN sl = Others(Founder) /\ \A q \in Others(Founder) : sl[q] = z
  OBVIOUS
<1> HIDE DEF z
<1>3. sl \in [Others(Founder) -> Slices] /\ Others(Founder) \in SUBSET Peers
  BY <1>1 DEF Others
<1>4. sl \in UNION {[D -> Slices] : D \in SUBSET Peers}
  BY <1>3
<1>5. \A q \in Others(Founder) : sl[q].eph = 2 /\ sl[q].gen = 0 /\ sl[q].seq = 0
  BY <1>1, <1>2, Zenon
<1> QED
  BY <1>2, <1>4, <1>5, Zenon DEF z

\* The operations of Init.
LEMMA FirstOps ==
    ASSUME NEW f \in Operation, f.kind = "Contrib", f.author = Founder, f.deps = {}, f.slices = <<>>,
           NEW c \in Operation, c.kind = "Contrib", c.author = Founder, c.deps = {1},
           DOMAIN c.slices = Others(Founder),
           \A q \in Others(Founder) : /\ c.slices[q].eph = 2 /\ c.slices[q].gen = 0
                                      /\ c.slices[q].seq = 0,
           NEW O, O = <<f, c>>
    PROVE  /\ Wired(O) /\ Len(O) = 2 /\ Contribs(O) = {1, 2} /\ O[1].deps = {} /\ O[2].deps = {1}
           /\ O[1].author = Founder /\ O[2].author = Founder
           /\ \A q \in Others(Founder) : /\ Mail(O, Founder, q) = {2} /\ EphOf(O, 2, q) = 2
                                         /\ PosOf(O, 2, q) = 0
<1>1. O \in Seq(Operation) /\ Len(O) = 2 /\ DOMAIN O = 1..2 /\ O[1] = f /\ O[2] = c
  OBVIOUS
<1>2. 1..2 = {1, 2} /\ 2..2 = {2}
  OBVIOUS
<1>3. Ordered(O)
  BY <1>1, <1>2, SMTT(30), Zenon DEF Ordered
<1>4. \A o \in 2..Len(O) : O[o].kind = "Contrib" => DOMAIN O[o].slices = Others(O[o].author)
  BY <1>1, <1>2, Zenon
<1>5. ASSUME NEW q \in Others(Founder)
      PROVE  Mail(O, Founder, q) = {2} /\ EphOf(O, 2, q) = 2 /\ PosOf(O, 2, q) = 0 /\ O[2].slices[q].gen = 0
  <2>1. q \in DOMAIN O[2].slices /\ q \notin DOMAIN O[1].slices
    BY <1>1
  <2> QED
    BY <1>1, <1>2, <2>1, Zenon DEF Mail, EphOf, PosOf
<1>6. ASSUME NEW p \in Peers, NEW q \in Peers, p # q PROVE Threaded(O, p, q)
  <2>1. CASE p = Founder
    <3>1. Mail(O, p, q) = {2} /\ EphOf(O, 2, q) = 2 /\ PosOf(O, 2, q) = 0 /\ O[2].slices[q].gen = 0
      BY <1>5, <1>6, <2>1, SMTT(30), Zenon DEF Others
    <3>2. Continues(O, {2}, 2, q)
      BY <3>1, SMTT(30), Zenon DEF Continues, NoGen
    <3>3. \A o \in {2} : EphOf(O, o, q) \in 1..o /\ Continues(O, {2}, o, q)
      BY <3>1, <3>2, SMTT(30), Zenon
    <3>4. \A x, y \in {2} : ~(x < y)
      OBVIOUS
    <3> QED
      BY <3>1, <3>3, <3>4, Zenon DEF Threaded
  <2>2. CASE p # Founder
    <3>1. Mail(O, p, q) = {}
      BY <1>1, <1>2, <2>2, SMTT(30), Zenon DEF Mail
    <3> QED
      BY <3>1 DEF Threaded
  <2> QED
    BY <2>1, <2>2
<1>7. Wired(O)
  BY <1>1, <1>3, <1>4, <1>6, SMTT(30), Zenon DEF Wired
<1>8. Contribs(O) = {1, 2}
  BY <1>1, <1>2 DEF Contribs
<1> QED
  BY <1>1, <1>5, <1>7, <1>8, SMTT(30), Zenon

\* Everyone's graph at the start.
LEMMA FirstGraph ==
    ASSUME NEW O, Len(O) = 2, O[1].deps = {}, O[2].deps = {1}, O[1].author = Founder, O[2].author = Founder,
           NEW g, g = [o \in {1, 2} |-> IF o = 1 THEN {} ELSE {1}], NEW p
    PROVE  g \in Pasts /\ DOMAIN g = {1, 2} /\ Rooted(O, p, g)
<1>1. DOMAIN g = {1, 2} /\ g[1] = {} /\ g[2] = {1} /\ 1..2 = {1, 2}
  OBVIOUS
<1>2. g \in [{1, 2} -> SUBSET {1, 2}]
  OBVIOUS
<1>3. Closure(g, {}) = {} /\ Closure(g, {1}) = {1}
  BY <1>1 DEF Closure
<1>4. \A o \in {1, 2} : \A x \in g[o] : x < o
  BY <1>1
<1> HIDE DEF Closure
<1>5. \A o \in {1, 2} : O[o].deps \subseteq {1, 2} /\ g[o] = Closure(g, O[o].deps)
  BY <1>1, <1>3, Zenon
<1>6. Good(O, g)
  BY <1>1, <1>2, <1>4, <1>5 DEF Good
<1>7. Own(O, p, g)
  <2> SUFFICES ASSUME NEW o \in 1..2, NEW x \in 1..(o - 1) PROVE o \in DOMAIN g /\ x \in g[o]
    BY <1>1 DEF Own
  <2>1. o = 2 /\ x = 1
    OBVIOUS
  <2> QED
    BY <1>1, <2>1
<1>8. g \in Pasts
  BY <1>6, GoodPasts
<1> QED
  BY <1>1, <1>6, <1>7, <1>8 DEF Rooted

\* NodeKeys after the first two contributions.
LEMMA FirstKeys ==
    LET k == InsertAll(<<>>, <<1, 2>>) IN KeyList(k) /\ k \in Seq(Nat) /\ Range(k) \subseteq {1, 2}
<1>1. PICK k, e, b : k = InsertAll(e, b) /\ e = <<>> /\ b = <<1, 2>>
  BY Zenon
<1>2. KeyList(e) /\ Range(e) = {}
  BY <1>1, AgreementAssumption DEF KeyList, IsInjective, Range
<1>3. b \in Seq(Nat) /\ Range(b) \subseteq {1, 2}
  BY <1>1 DEF Range
<1>4. KeyList(InsertAll(e, b)) /\ Range(InsertAll(e, b)) \subseteq Range(e) \cup Range(b)
  BY <1>2, <1>3, InsertedAll, Smallest
<1>5. KeyList(k) /\ Range(k) \subseteq {1, 2}
  BY <1>1, <1>2, <1>3, <1>4, Zenon
<1> QED
  BY <1>1, <1>5 DEF KeyList

\* A member's state at the start, given its channels and its prekeys.
LEMMA FirstLocal ==
    ASSUME NEW O, O \in Seq(Operation), Contribs(O) = {1, 2}, NEW p \in Peers,
           NEW s \in State, Rooted(O, p, s.graph), DOMAIN s.graph = {1, 2},
           Pooled(p, s.pool), s.prekeys = [q \in Peers |-> 0],
           KeyList(s.keys), Range(s.keys) \subseteq {1, 2}, s.absorbed = {1, 2}, s.missing = {},
           s.send[p] = NoChan, s.recv[p] = NoRecv,
           \A q \in Others(p) : Sends(O, p, q, s.send[q]) /\ Receives(O, q, p, s.graph, s.recv[q])
    PROVE  Local(O, p, s)
<1>1. Nodes(O, s)
  BY Zenon DEF Nodes
<1>2. Linked(O, p, s)
  BY DEF Linked
<1> QED
  BY <1>1, <1>2, Zenon DEF Local

\* The invariant holds once everyone has joined.
LEMMA InitInv == Init => IInv
<1> SUFFICES ASSUME Init PROVE IInv
  BY Zenon
<1> DEFINE first == [author |-> Founder, kind |-> "Contrib", deps |-> {}, gen |-> NoGen,
                     cparents |-> {}, slices |-> <<>>]
           sl == [q \in Others(Founder) |-> [eph |-> 2, gen |-> 0, seq |-> 0]]
           second == [first EXCEPT !.deps = {1}, !.cparents = {1}, !.slices = sl]
           g == [o \in {1, 2} |-> IF o = 1 THEN {} ELSE {1}]
           k == InsertAll(<<>>, <<1, 2>>)
           base == [graph |-> g, pool |-> Pool(0), prekeys |-> [q \in Peers |-> 0],
                    send |-> [q \in Peers |-> NoChan], recv |-> [q \in Peers |-> NoRecv],
                    keys |-> k, absorbed |-> {1, 2}, missing |-> {}]
           out(p) == [q \in Peers |-> IF q = p THEN NoChan ELSE [eph |-> 2, next |-> 1]]
           in == [eph |-> 2, next |-> 1, buffer |-> {}]
           mine(p) == IF p = Founder THEN [base EXCEPT !.send = out(p)]
                      ELSE [base EXCEPT !.pool = AgreeFor(Pool(0), p, Founder), !.recv[Founder] = in]
<1>1. ops = <<first, second>> /\ me = [p \in Peers |-> mine(p)]
  BY ZenonT(30) DEF Init
<1>2. /\ first \in Operation /\ first.kind = "Contrib" /\ first.author = Founder /\ first.deps = {}
      /\ first.slices = <<>>
  BY FoundingOp, Zenon
<1>3. /\ sl \in UNION {[D -> Slices] : D \in SUBSET Peers} /\ DOMAIN sl = Others(Founder)
      /\ \A q \in Others(Founder) : sl[q].eph = 2 /\ sl[q].gen = 0 /\ sl[q].seq = 0
  BY FirstSlices, Zenon
<1> HIDE DEF first, sl
<1>4. /\ second \in Operation /\ second.kind = first.kind /\ second.author = first.author
      /\ second.deps = {1} /\ second.slices = sl
  BY <1>2, <1>3, SecondOp, ZenonT(30)
<1> HIDE DEF second
<1>5. /\ Wired(ops) /\ Len(ops) = 2 /\ Contribs(ops) = {1, 2} /\ ops[1].deps = {} /\ ops[2].deps = {1}
      /\ ops[1].author = Founder /\ ops[2].author = Founder
      /\ \A q \in Others(Founder) : /\ Mail(ops, Founder, q) = {2} /\ EphOf(ops, 2, q) = 2
                                    /\ PosOf(ops, 2, q) = 0
  <2>1. /\ second.kind = "Contrib" /\ second.author = Founder /\ DOMAIN second.slices = Others(Founder)
        /\ \A q \in Others(Founder) : /\ second.slices[q].eph = 2 /\ second.slices[q].gen = 0
                                      /\ second.slices[q].seq = 0
    BY <1>2, <1>3, <1>4
  <2>2. PICK f, c : f = first /\ c = second
    BY Zenon
  <2>3. ops = <<f, c>>
    BY <1>1, <2>2, Zenon
  <2>4. /\ f \in Operation /\ f.kind = "Contrib" /\ f.author = Founder /\ f.deps = {} /\ f.slices = <<>>
        /\ c \in Operation /\ c.kind = "Contrib" /\ c.author = Founder /\ c.deps = {1}
        /\ DOMAIN c.slices = Others(Founder)
        /\ \A q \in Others(Founder) : /\ c.slices[q].eph = 2 /\ c.slices[q].gen = 0
                                      /\ c.slices[q].seq = 0
    BY <1>2, <1>4, <2>1, <2>2, Zenon
  <2> QED
    BY <2>3, <2>4, FirstOps, SMTT(30), Zenon
<1>6. \A p : g \in Pasts /\ DOMAIN g = {1, 2} /\ Rooted(ops, p, g)
  BY <1>5, FirstGraph
<1>7. KeyList(k) /\ k \in Seq(Nat) /\ Range(k) \subseteq {1, 2}
  BY FirstKeys, Zenon
<1> HIDE DEF g, k
<1>8. base \in State /\ base.graph = g /\ base.pool = Pool(0) /\ base.prekeys = [q \in Peers |-> 0]
      /\ base.send = [q \in Peers |-> NoChan] /\ base.recv = [q \in Peers |-> NoRecv]
      /\ base.keys = k /\ base.absorbed = {1, 2} /\ base.missing = {}
  <2>1. Pool(0) \in Pools /\ g \in Pasts
    BY <1>6, FreshPool
  <2>2. [q \in Peers |-> 0] \in [Peers -> Nat]
    OBVIOUS
  <2>3. [q \in Peers |-> NoChan] \in [Peers -> Chans] /\ [q \in Peers |-> NoRecv] \in [Peers -> Recvs]
    BY NothingReceived
  <2>4. {1, 2} \in SUBSET Nat /\ {} \in SUBSET Nat
    OBVIOUS
  <2>5. \A a, b, c : a \in [Peers -> Nat] /\ b \in [Peers -> Chans] /\ c \in [Peers -> Recvs] =>
          [graph |-> g, pool |-> Pool(0), prekeys |-> a, send |-> b, recv |-> c,
           keys |-> k, absorbed |-> {1, 2}, missing |-> {}] \in State
    BY <1>7, <2>1, <2>4, Zenon DEF State
  <2>6. base \in State
    BY <2>2, <2>3, <2>5, Zenon
  <2> QED
    BY <2>6, Zenon
<1> HIDE DEF base
<1>9. ASSUME NEW p \in Peers PROVE mine(p) \in State /\ Local(ops, p, mine(p)) /\ mine(p).graph = g
  <2>1. CASE p = Founder
    <3>1. out(p) \in [Peers -> Chans] /\ out(p)[p] = NoChan
          /\ \A q \in Others(p) : out(p)[q] = [eph |-> 2, next |-> 1]
      <4>1. [eph |-> 2, next |-> 1] \in Chans
        BY DEF Chans
      <4> QED
        BY <4>1, NothingReceived DEF Others
    <3>2. PICK s, c : s = mine(p) /\ c = out(p)
      BY Zenon
    <3>3. s = [base EXCEPT !.send = c]
      BY <2>1, <3>2
    <3> HIDE DEF mine, out
    <3>4. /\ s \in State /\ s.graph = g /\ s.pool = Pool(0) /\ s.prekeys = [q \in Peers |-> 0]
          /\ s.send = c /\ s.recv = [q \in Peers |-> NoRecv]
          /\ s.keys = k /\ s.absorbed = {1, 2} /\ s.missing = {}
      BY <1>8, <3>1, <3>2, <3>3, NewSend
    <3>5. ASSUME NEW q \in Others(p)
          PROVE  Sends(ops, p, q, s.send[q]) /\ Receives(ops, q, p, s.graph, s.recv[q])
      <4>1. s.send[q].eph = 2 /\ s.send[q].next = 1
        BY <3>1, <3>2, <3>4, SMTT(30), Zenon
      <4>2. Mail(ops, p, q) = {2} /\ EphOf(ops, 2, q) = 2 /\ PosOf(ops, 2, q) = 0
        BY <1>5, <2>1, Zenon
      <4>3. Sends(ops, p, q, s.send[q])
        BY <4>1, <4>2, SMTT(30), Zenon DEF Sends
      <4>4. s.recv[q] = NoRecv
        BY <3>4, Zenon DEF Others
      <4> QED
        BY <4>3, <4>4, NothingReceived, Zenon
    <3>6. Pooled(p, s.pool) /\ s.send[p] = NoChan /\ s.recv[p] = NoRecv
      BY <3>1, <3>2, <3>4, FreshPool, SMTT(30), Zenon
    <3>7. Local(ops, p, s)
      BY <1>5, <1>6, <1>7, <3>4, <3>5, <3>6, FirstLocal, Zenon DEF Wired
    <3> QED
      BY <3>2, <3>4, <3>7, Zenon
  <2>2. CASE p # Founder
    <3>1. PICK s, d : s = mine(p) /\ d = AgreeFor(Pool(0), p, Founder)
      BY Zenon
    <3>2. d \in Pools /\ Pooled(p, d)
      <4>1. Pool(0) \in Pools /\ Pooled(p, Pool(0)) /\ ~Pool(0).sealed /\ Founder \in Peers
        BY FreshPool, AgreementAssumption, Zenon DEF Pool
      <4> QED
        BY <2>2, <3>1, <4>1, Served
    <3>3. in \in Recvs /\ in.eph = 2 /\ in.next = 1 /\ in.buffer = {}
      BY DEF Recvs
    <3>4. s = [base EXCEPT !.pool = d, !.recv[Founder] = in]
      BY <2>2, <3>1
    <3> HIDE DEF mine, in
    <3>5. Rewired(base, s, Founder, in, d)
      <4>1. Rewired(base, [base EXCEPT !.pool = d, !.recv[Founder] = in], Founder, in, d)
        BY <1>8, <3>2, <3>3, NewRecv, AgreementAssumption, Zenon
      <4> QED
        BY <3>4, <4>1, Zenon
    <3>6. /\ s \in State /\ s.graph = g /\ s.pool = d /\ s.prekeys = [q \in Peers |-> 0]
          /\ s.send = [q \in Peers |-> NoChan] /\ s.recv[Founder] = in
          /\ (\A q \in Peers : q # Founder => s.recv[q] = NoRecv)
          /\ s.keys = k /\ s.absorbed = {1, 2} /\ s.missing = {}
      BY <1>8, <3>5, Zenon DEF Rewired
    <3>7. \A q \in Peers : s.send[q] = NoChan
      BY <3>6, Zenon
    <3>8. Receives(ops, Founder, p, g, in)
      <4>1. Mail(ops, Founder, p) = {2} /\ EphOf(ops, 2, p) = 2 /\ PosOf(ops, 2, p) = 0
        BY <1>5, <2>2 DEF Others
      <4>2. Mail(ops, Founder, p) \cap DOMAIN g = {2}
        BY <1>6, <4>1
      <4>3. IsFiniteSet({}) /\ Cardinality({}) <= MAX_BUFFERED
        BY FS_EmptySet, AgreementAssumption
      <4> QED
        BY <3>3, <4>1, <4>2, <4>3, SMTT(30), Zenon DEF Receives
    <3>9. ASSUME NEW q \in Others(p)
          PROVE  Sends(ops, p, q, s.send[q]) /\ Receives(ops, q, p, s.graph, s.recv[q])
      <4>1. Sends(ops, p, q, s.send[q])
        BY <3>7, NothingReceived, Zenon DEF Others
      <4>2. CASE q = Founder
        BY <3>6, <3>8, <4>1, <4>2, Zenon
      <4>3. CASE q # Founder
        BY <3>6, <4>1, <4>3, NothingReceived, SMTT(30), Zenon DEF Others
      <4> QED
        BY <4>2, <4>3
    <3>10. Local(ops, p, s)
      BY <1>5, <1>6, <1>7, <2>2, <3>2, <3>6, <3>7, <3>9, FirstLocal, Zenon DEF Wired
    <3> QED
      BY <3>1, <3>6, <3>10, Zenon
  <2> QED
    BY <2>1, <2>2, Zenon
<1> HIDE DEF mine
<1>10. \A p \in Peers : me[p] = mine(p)
  BY <1>1
<1>11. me \in [Peers -> State]
  BY <1>1, <1>9, Zenon
<1>12. \A p, q \in Peers : Agree(me[p].graph, me[q].graph)
  BY <1>9, <1>10, Zenon DEF Agree
<1> QED
  BY <1>5, <1>9, <1>10, <1>11, <1>12 DEF IInv

-----------------------------------------------------------------------------
(* The theorems.                                                              *)

\* Every step keeps the invariant.
LEMMA StepInv == ASSUME IInv, [Next]_vars PROVE IInv'
<1>1. CASE UNCHANGED vars
  BY <1>1, UnchangedInv DEF vars
<1>2. CASE Next
  <2>1. PICK p \in Peers :
             \/ Contribute(p) \/ Heal(p) \/ Tick(p) \/ RepairRequest(p)
             \/ \E o \in DOMAIN ops : Ingest(p, o)
             \/ \E q \in Peers : AnswerNodeKeys(p, q) \/ AbsorbNodeKeys(p, q)
    BY <1>2, Zenon DEF Next
  <2>2. CASE Contribute(p)
    BY <2>2, ContributeInv
  <2>3. CASE Heal(p)
    BY <2>3, HealInv, SMTT(30), Zenon
  <2>4. CASE Tick(p)
    BY <2>4, TickInv
  <2>5. CASE RepairRequest(p)
    BY <2>5, RepairRequestInv
  <2>6. ASSUME NEW o \in DOMAIN ops, Ingest(p, o) PROVE IInv'
    BY <2>6, IngestInv
  <2>7. ASSUME NEW q \in Peers, AnswerNodeKeys(p, q) PROVE IInv'
    BY <2>7, UnchangedInv DEF AnswerNodeKeys
  <2>8. ASSUME NEW q \in Peers, AbsorbNodeKeys(p, q) PROVE IInv'
    BY <2>8, AbsorbNodeKeysInv
  <2> QED
    BY <2>1, <2>2, <2>3, <2>4, <2>5, <2>6, <2>7, <2>8, Zenon
<1> QED
  BY <1>1, <1>2

\* Whatever members sign, ingest, rotate and repair, and in whatever order: the
\* slices of a member form channels whose positions rise by one, every sending
\* channel continues the last slice sent, and every receiving channel has opened
\* all it could of what has been ingested.
THEOREM Invariance == Spec => []IInv
<1>1. Init => IInv
  BY InitInv
<1>2. IInv /\ [Next]_vars => IInv'
  BY StepInv, Zenon
<1> QED
  BY <1>1, <1>2, PTL DEF Spec

\* A channel is named by the contribution that opened it.
LEMMA ChannelNamed ==
    ASSUME NEW O, NEW p, NEW q, O \in Seq(Operation), Threaded(O, p, q), NEW x \in Mail(O, p, q)
    PROVE  EphOf(O, x, q) \in Contribs(O)
<1>1. PICK M, e : M = Mail(O, p, q) /\ e = EphOf(O, x, q)
  BY Zenon
<1>2. \A o \in M : o \in Nat /\ o \in DOMAIN O /\ O[o].kind = "Contrib"
  <2>1. DOMAIN O = 1..Len(O) /\ 1..Len(O) \subseteq Nat
    OBVIOUS
  <2> QED
    BY <1>1, <2>1 DEF Mail
<1>3. PICK y \in {o \in M : EphOf(O, o, q) = e} : \A z \in {o \in M : EphOf(O, o, q) = e} : y <= z
  <2>1. {o \in M : EphOf(O, o, q) = e} \subseteq Nat /\ x \in {o \in M : EphOf(O, o, q) = e}
    BY <1>1, <1>2
  <2> QED
    BY <2>1, Smallest, Zenon DEF LeastNumber
<1>4. y \in M /\ EphOf(O, y, q) = e /\ y \in Nat
  BY <1>2, <1>3
<1>5. Continues(O, M, y, q)
  BY <1>1, <1>4 DEF Threaded
<1>6. EphOf(O, y, q) = y
  <2> SUFFICES ASSUME EphOf(O, y, q) # y PROVE FALSE
    OBVIOUS
  <2>1. PICK z \in M : z < y /\ EphOf(O, z, q) = EphOf(O, y, q)
    BY <1>5, Zenon DEF Continues
  <2>2. y <= z /\ z \in Nat
    BY <1>2, <1>3, <1>4, <2>1, SMTT(30), Zenon
  <2> QED
    BY <1>4, <2>1, <2>2, SMTT(30), Zenon
<1> QED
  BY <1>1, <1>2, <1>4, <1>6, SMTT(30), Zenon DEF Contribs

\* Every state is well formed: operations depend on earlier ones, a prekey pool
\* serves other members only, a channel is named by a contribution, and NodeKeys
\* keeps at most OVERLAP keys, each in one place.
THEOREM TypeCorrect == Spec => []TypeOK
<1>1. ASSUME IInv PROVE TypeOK
  <2>1. Wired(ops) /\ ops \in Seq(Operation) /\ Ordered(ops) /\ DOMAIN ops = 1..Len(ops)
    BY <1>1 DEF IInv, Wired
  <2>2. ASSUME NEW o \in DOMAIN ops PROVE ops[o].author \in Peers /\ ops[o].deps \subseteq 1..(o - 1)
    <3>1. ops[o] \in Operation
      BY <2>1, SeqElement
    <3>2. ops[o].author \in Peers
      BY <3>1, Zenon DEF Operation
    <3> QED
      BY <2>1, <3>2 DEF Ordered
  <2>3. ASSUME NEW p \in Peers
        PROVE  /\ DOMAIN me[p].graph \subseteq DOMAIN ops
               /\ me[p].pool.gen \in Nat /\ me[p].pool.served \subseteq Others(p)
               /\ \A q \in Peers : me[p].prekeys[q] \in Nat /\ me[p].send[q].eph \in {0} \cup Contribs(ops)
               /\ IsInjective(me[p].keys) /\ Len(me[p].keys) <= OVERLAP
    <3>1. PICK s : s = me[p]
      BY Zenon
    <3>2. Local(ops, p, s) /\ s \in State
      BY <1>1, <3>1, Zenon DEF IInv
    <3>3. DOMAIN s.graph \subseteq DOMAIN ops
      BY <2>1, <3>2, Zenon DEF Local, Rooted, Good
    <3>4. s.pool \in Pools /\ s.prekeys \in [Peers -> Nat] /\ s.send \in [Peers -> Chans]
      BY <3>2, Zenon DEF State
    <3>5. s.pool.gen \in Nat /\ s.pool.served \subseteq Others(p)
      BY <3>2, <3>4, Zenon DEF Pools, Local, Pooled
    <3>6. ASSUME NEW q \in Peers PROVE s.prekeys[q] \in Nat /\ s.send[q].eph \in {0} \cup Contribs(ops)
      <4>1. CASE s.send[q].eph = 0
        BY <3>4, <4>1
      <4>2. CASE s.send[q].eph # 0
        <5>1. q # p
          BY <3>2, <4>2, SMTT(30), Zenon DEF Local, Linked, NoChan
        <5>2. Sends(ops, p, q, s.send[q])
          BY <3>2, <5>1, Zenon DEF Local, Linked, Others
        <5>3. PICK x \in Mail(ops, p, q) : EphOf(ops, x, q) = s.send[q].eph
          BY <4>2, <5>2, Zenon DEF Sends
        <5>4. Threaded(ops, p, q)
          BY <2>1, <5>1, Zenon DEF Wired
        <5>5. EphOf(ops, x, q) \in Contribs(ops)
          BY <2>1, <5>4, ChannelNamed, Zenon
        <5> QED
          BY <3>4, <5>3, <5>5, Zenon
      <4> QED
        BY <4>1, <4>2
    <3>7. IsInjective(s.keys) /\ Len(s.keys) <= OVERLAP
      BY <3>2 DEF Local, KeyList
    <3> QED
      BY <3>1, <3>3, <3>5, <3>6, <3>7, Zenon
  <2> QED
    BY <2>2, <2>3, Zenon DEF TypeOK
<1> QED
  BY <1>1, Invariance, PTL

\* What a participant stores it can load again: import_persistence_state accepts
\* every state the handlers reach, whatever the number of members and operations
\* and the capacity of the buffers.
THEOREM AlwaysImportable == Spec => []Importable
<1>1. ASSUME IInv PROVE Importable
  <2> SUFFICES ASSUME NEW p \in Peers PROVE Imports(p)
    BY DEF Importable
  <2>1. PICK s : s = me[p]
    BY Zenon
  <2>2. Local(ops, p, s)
    BY <1>1, <2>1 DEF IInv
  <2>3. ImportsPrekeys(s.pool) /\ ImportsNodeKeys(s.keys) /\ ValidContributions(s)
    BY <2>2, ZenonT(30) DEF Local, Pooled, KeyList, Nodes, ImportsPrekeys, ImportsNodeKeys, ValidContributions
  <2>4. s.prekeys[p] = 0 /\ s.send[p] = NoChan /\ s.recv[p] = NoRecv
    BY <2>2 DEF Local, Linked
  <2>5. ASSUME NEW q \in Others(p) PROVE ImportsRecvChan(p, s.recv[q])
    <3>1. Receives(ops, q, p, s.graph, s.recv[q])
      BY <2>2 DEF Local, Linked
    <3> QED
      BY <3>1, ZenonT(30) DEF Receives, ImportsRecvChan, PosOf
  <2>6. ImportsChannels(p)
    BY <2>1, <2>4, <2>5 DEF ImportsChannels
  <2> QED
    BY <2>1, <2>3, <2>6, Zenon DEF Imports
<1> QED
  BY <1>1, Invariance, PTL

\* A member that has ingested all another one signed, and has the channel the
\* other sends on, awaits the position the other seals at next: Chan::step and
\* RecvChan::commit never drift apart, through lost slices, buffered ones and
\* channels retired by newer prekeys.
THEOREM EndsAgree == Spec => []ChannelsAgree
<1>1. ASSUME IInv PROVE ChannelsAgree
  <2> SUFFICES ASSUME NEW p \in Peers, NEW q \in Peers, p # q, me[p].send[q].eph # 0,
                      me[p].send[q].eph = me[q].recv[p].eph,
                      \A o \in DOMAIN ops : ops[o].author = p => o \in DOMAIN me[q].graph
               PROVE  me[p].send[q].next = me[q].recv[p].next
    BY DEF ChannelsAgree
  <2>1. PICK out, in, g, M : /\ out = me[p].send[q] /\ in = me[q].recv[p] /\ g = me[q].graph
                             /\ M = Mail(ops, p, q)
    BY ZenonT(30)
  <2>2. Sends(ops, p, q, out) /\ Receives(ops, p, q, g, in)
    BY <1>1, <2>1, ZenonT(30) DEF IInv, Local, Linked, Others
  <2>3. M \subseteq Nat /\ M \subseteq DOMAIN g
    <3>1. DOMAIN ops = 1..Len(ops) /\ 1..Len(ops) \subseteq Nat
      BY <1>1, SMTT(30), Zenon DEF IInv, Wired
    <3> QED
      BY <2>1, <3>1, Zenon DEF Mail
  <2>4. PICK x \in M : (\A y \in M : y <= x) /\ EphOf(ops, x, q) = out.eph /\ PosOf(ops, x, q) + 1 = out.next
    BY <2>1, <2>2, Zenon DEF Sends
  <2>5. PICK z \in M : /\ EphOf(ops, z, q) = in.eph /\ PosOf(ops, z, q) + 1 = in.next
                       /\ \A y \in M : EphOf(ops, y, q) = in.eph => y <= z
    <3>1. M \cap DOMAIN g = M /\ in.eph # 0
      BY <2>1, <2>3, Zenon
    <3> QED
      BY <2>1, <2>2, <3>1, Zenon DEF Receives
  <2>6. x <= z /\ z <= x /\ x \in Nat /\ z \in Nat
    BY <2>1, <2>3, <2>4, <2>5, SMTT(30), Zenon
  <2>7. x = z
    BY <2>6
  <2> QED
    BY <2>1, <2>4, <2>5, <2>7, Zenon
<1> QED
  BY <1>1, Invariance, PTL
===============================================================================
