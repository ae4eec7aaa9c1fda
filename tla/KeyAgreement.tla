----------------------------- MODULE KeyAgreement -----------------------------
(* How the members of a conference come to hold the same node keys:           *)
(* contributions, pairwise channels, prekey generations, the node-key store   *)
(* and node-key repair (crates/cfr-core/src: member.rs, keys.rs, channel.rs,  *)
(* prekey.rs).  The roster is fixed; Replica models how it changes and how    *)
(* operations spread, here an operation may reach a member at any time after  *)
(* its dependencies.  Members are honest.                                     *)
(*                                                                            *)
(* Secrets are symbolic.  A node key is named by its contribution.  A channel *)
(* is named by the contribution that established it (its ephemeral key), and  *)
(* a slice opens under exactly the channel and position it was sealed at.     *)
EXTENDS CausalGraph, Integers, Sequences, Functions

CONSTANTS Peers,        \* the members
          Founder,      \* whose contribution everybody has opened at the start
          OVERLAP,      \* keys.rs: node keys retained
          MAX_BUFFERED, \* channel.rs: slices buffered per channel
          SEAL_AFTER,   \* prekey.rs: ticks before a generation is sealed
          MaxContribs,  \* bound on contributions
          MaxHeals,     \* bound on the generation a member heals from
          MaxTicks      \* bound on ticks, per member

ASSUME AgreementAssumption ==
    /\ Founder \in Peers
    /\ OVERLAP \in Nat \ {0} /\ MAX_BUFFERED \in Nat /\ SEAL_AFTER \in Nat \ {0}

VARIABLES ops,    \* every operation signed; identifiers are positions
          me,     \* the Participant of each member
          reqs,   \* reqs[q][p]: nodes of p's NodeKeyRequest on its way to q
          resps,  \* resps[p][q]: q's NodeKeyResponse on its way to p
          ticks   \* ticks so far

vars == <<ops, me, reqs, resps, ticks>>

NoGen == -1
NoChan == [eph |-> 0, next |-> 0]
NoRecv == [eph |-> 0, next |-> 0, buffer |-> {}]
NoReply == [gen |-> NoGen, entries |-> {}]

Pool(g) == [gen |-> g, sealed |-> FALSE, age |-> 0, served |-> {}]
Others(p) == Peers \ {p}
Contribs(os) == {o \in DOMAIN os : os[o].kind = "Contrib"}
FrontierOf(os, s) == Frontier(s.graph, Contribs(os))
CanDerive(os, s) == FrontierOf(os, s) \subseteq Range(s.keys)

-----------------------------------------------------------------------------
(* NodeKeys: a key inserted again moves to the back, the oldest is evicted.   *)

\* Fault: a key inserted again keeps its old place too.
InsertTwice(keys, o) ==
    LET all == Append(keys, o) IN
    SubSeq(all, IF Len(all) > OVERLAP THEN Len(all) - OVERLAP + 1 ELSE 1, Len(all))

\* The key is taken out of its position, where it has one.
Without(keys, o) ==
    IF o \notin Range(keys) THEN keys
    ELSE LET i == CHOOSE i \in DOMAIN keys : keys[i] = o
         IN SubSeq(keys, 1, i - 1) \o SubSeq(keys, i + 1, Len(keys))

\* Fault: the oldest key goes as soon as the store is full.
InsertEvictsEarly(keys, o) ==
    LET all == Append(Without(keys, o), o) IN
    SubSeq(all, IF Len(all) >= OVERLAP THEN Len(all) - OVERLAP + 2 ELSE 1, Len(all))

Insert(keys, o) ==
    LET all == Append(Without(keys, o), o) IN
    SubSeq(all, IF Len(all) > OVERLAP THEN Len(all) - OVERLAP + 1 ELSE 1, Len(all))

InsertAll(keys, os) ==
    LET upTo[n \in 0..Len(os)] == IF n = 0 THEN keys ELSE Insert(upTo[n - 1], os[n])
    IN upTo[Len(os)]

\* Participant::absorb.  Without the keys of its parents the contribution's
\* secret is lost and the node is marked missing.
Absorb(os, s, o) ==
    IF o \in s.absorbed THEN s
    ELSE IF ~(os[o].cparents \subseteq Range(s.keys))
    THEN [s EXCEPT !.missing = @ \cup {o}]
    ELSE [s EXCEPT !.keys = Insert(@, o), !.absorbed = @ \cup {o}, !.missing = @ \ {o}]

-----------------------------------------------------------------------------
(* Signing.  t is [ops, s]: every operation and the signer's state.           *)

SignOp(t, p, op) ==
    LET o == Len(t.ops) + 1 IN
    [ops |-> Append(t.ops, op), s |-> [t.s EXCEPT !.graph = Add(@, o, op.deps)]]

\* rotate_prekeys: the old private half is destroyed, the new generation published.
RotatePrekeys(t, p) ==
    LET g == t.s.pool.gen + 1 IN
    SignOp([t EXCEPT !.s.pool = Pool(g)], p,
           [author |-> p, kind |-> "Prekeys", deps |-> Heads(t.s.graph), gen |-> g,
            cparents |-> {}, slices |-> <<>>])

\* contribute: the author must hold the keys of the whole frontier it builds on
\* (every author of a frontier node is a member here).
MayContribute(t) == CanDerive(t.ops, t.s)

\* contribute_excluding: a slice to every other member, on the channel to it or
\* on one established with its latest prekey.
Slice(t, q) ==
    LET c == t.s.send[q] IN
    IF c.eph = 0 THEN [eph |-> Len(t.ops) + 1, gen |-> t.s.prekeys[q], seq |-> 0]
    ELSE [eph |-> c.eph, gen |-> NoGen, seq |-> c.next]

ContributeTo(t, p) ==
    LET o == Len(t.ops) + 1
        slices == [q \in Others(p) |-> Slice(t, q)]
        u == SignOp(t, p, [author |-> p, kind |-> "Contrib", deps |-> Heads(t.s.graph),
                           gen |-> NoGen, cparents |-> FrontierOf(t.ops, t.s),
                           slices |-> slices])
        send == [q \in Peers |->
                   IF q = p THEN NoChan
                   ELSE [eph |-> slices[q].eph, next |-> slices[q].seq + 1]]
    IN [u EXCEPT !.s = Absorb(u.ops, [@ EXCEPT !.send = send], o)]

-----------------------------------------------------------------------------
(* Receiving a contribution.                                                  *)

\* open_slice at the awaited position of the channel from a: a slice sealed on
\* another channel does not authenticate and is marked missing.
Opens(s, a, sl) == s.recv[a].eph = sl.eph

\* Fault: the position is kept when the secret could not be absorbed.
OpenSliceAbsorbed(os, s, p, a, o) ==
    IF Opens(s, a, os[o].slices[p]) /\ o \in Absorb(os, s, o).absorbed
    THEN [Absorb(os, s, o) EXCEPT !.recv[a].next = @ + 1]
    ELSE [s EXCEPT !.missing = @ \cup {o}]

OpenSlice(os, s, p, a, o) ==
    IF Opens(s, a, os[o].slices[p])
    THEN [Absorb(os, s, o) EXCEPT !.recv[a].next = @ + 1]
    ELSE [s EXCEPT !.missing = @ \cup {o}]

\* RecvChan::take_next and open_slice of what it gives, unless the loop has
\* stopped.  r is [s, stop].
TakeNext(os, r, p, a) ==
    LET at == {o \in r.s.recv[a].buffer : os[o].slices[p].seq = r.s.recv[a].next} IN
    IF r.stop \/ at = {} THEN [s |-> r.s, stop |-> TRUE]
    ELSE LET o == CHOOSE o \in at : TRUE
             taken == [r.s EXCEPT !.recv[a].buffer = @ \ {o}]
         IN [s |-> OpenSlice(os, taken, p, a, o), stop |-> ~Opens(taken, a, os[o].slices[p])]

\* The loop over take_next: buffered slices that have become contiguous.
Drain(os, s, p, a) ==
    LET after[n \in 0..MAX_BUFFERED] ==
          IF n = 0 THEN [s |-> s, stop |-> FALSE] ELSE TakeNext(os, after[n - 1], p, a)
    IN after[MAX_BUFFERED].s

\* RecvChan::offer, open_slice, commit and the drain, once the channel is known.
Offer(os, s, p, o) ==
    LET a == os[o].author
        sl == os[o].slices[p]
        c == s.recv[a]
    IN IF c.eph = 0 \/ sl.seq < c.next THEN s
       ELSE IF sl.seq > c.next
       THEN IF /\ Cardinality(c.buffer) < MAX_BUFFERED
               /\ \A b \in c.buffer : os[b].slices[p].seq # sl.seq
            THEN [s EXCEPT !.recv[a].buffer = @ \cup {o}] ELSE s
       ELSE IF Opens(s, a, sl) THEN Drain(os, OpenSlice(os, s, p, a, o), p, a)
       ELSE OpenSlice(os, s, p, a, o)

\* PrekeyPool::agree_for: sealed once every other member was served.
AgreeFor(pool, p, a) ==
    LET served == pool.served \cup {a} IN
    [pool EXCEPT !.served = served, !.sealed = Others(p) \subseteq served]

\* receive_contribution.
ReceiveContribution(t, p, o) ==
    LET a == t.ops[o].author
        sl == t.ops[o].slices[p]
        pool == t.s.pool
        lost == [t EXCEPT !.s.missing = @ \cup {o}]
    IN IF sl.gen = NoGen \/ t.s.recv[a].eph = sl.eph
       THEN [t EXCEPT !.s = Offer(t.ops, @, p, o)]
       ELSE IF sl.gen # pool.gen THEN lost
       ELSE IF pool.sealed THEN RotatePrekeys(lost, p)
       ELSE [t EXCEPT !.s = Offer(t.ops,
               [@ EXCEPT !.pool = AgreeFor(pool, p, a),
                         !.recv[a] = [eph |-> sl.eph, next |-> 0, buffer |-> {}]], p, o)]

\* ingest of a Prekeys operation: a newer generation retires the channel.
ReceivePrekeys(t, o) ==
    LET a == t.ops[o].author IN
    IF t.ops[o].gen > t.s.prekeys[a]
    THEN [t EXCEPT !.s.prekeys[a] = t.ops[o].gen, !.s.send[a] = NoChan] ELSE t

-----------------------------------------------------------------------------
\* The founder created the conference (its first contribution has no recipient),
\* invited the others and contributed again; they accepted and opened the slice.
\* Their first prekeys are known to everyone.
Init ==
    LET first == [author |-> Founder, kind |-> "Contrib", deps |-> {}, gen |-> NoGen,
                  cparents |-> {}, slices |-> <<>>]
        second == [first EXCEPT !.deps = {1}, !.cparents = {1},
                     !.slices = [q \in Others(Founder) |-> [eph |-> 2, gen |-> 0, seq |-> 0]]]
        base == [graph |-> [o \in {1, 2} |-> IF o = 1 THEN {} ELSE {1}],
                 pool |-> Pool(0), prekeys |-> [q \in Peers |-> 0],
                 send |-> [q \in Peers |-> NoChan], recv |-> [q \in Peers |-> NoRecv],
                 keys |-> InsertAll(<<>>, <<1, 2>>), absorbed |-> {1, 2}, missing |-> {}]
    IN /\ ops = <<first, second>>
       /\ me = [p \in Peers |->
                  IF p = Founder
                  THEN [base EXCEPT !.send = [q \in Peers |->
                          IF q = p THEN NoChan ELSE [eph |-> 2, next |-> 1]]]
                  ELSE [base EXCEPT !.pool = AgreeFor(Pool(0), p, Founder),
                          !.recv[Founder] = [eph |-> 2, next |-> 1, buffer |-> {}]]]
       /\ reqs = [p \in Peers |-> [q \in Peers |-> {}]]
       /\ resps = [p \in Peers |-> [q \in Peers |-> NoReply]]
       /\ ticks = [p \in Peers |-> 0]

Here(p) == [ops |-> ops, s |-> me[p]]
Set(p, t) == ops' = t.ops /\ me' = [me EXCEPT ![p] = t.s]
MoreContribs == Cardinality(Contribs(ops)) < MaxContribs

\* Conference::rekey.
Contribute(p) ==
    /\ MoreContribs
    /\ MayContribute(Here(p))
    /\ Set(p, ContributeTo(Here(p), p))
    /\ UNCHANGED <<reqs, resps, ticks>>

\* Conference::heal: a rotation, then a rekey that may fail.
Heal(p) ==
    /\ MoreContribs /\ me[p].pool.gen < MaxHeals
    /\ LET t == RotatePrekeys(Here(p), p) IN
       Set(p, IF MayContribute(t) THEN ContributeTo(t, p) ELSE t)
    /\ UNCHANGED <<reqs, resps, ticks>>

\* Conference::tick.
Tick(p) ==
    /\ ticks[p] < MaxTicks
    /\ ticks' = [ticks EXCEPT ![p] = @ + 1]
    /\ me' = [me EXCEPT ![p].pool.age = @ + 1,
                        ![p].pool.sealed = @ \/ me[p].pool.age + 1 >= SEAL_AFTER]
    /\ UNCHANGED <<ops, reqs, resps>>

\* ingest of an operation whose dependencies are there.
Ingest(p, o) ==
    /\ o \in DOMAIN ops \ DOMAIN me[p].graph
    /\ DepsSatisfied(me[p].graph, ops[o].deps)
    /\ LET t == [Here(p) EXCEPT !.s.graph = Add(@, o, ops[o].deps)] IN
       Set(p, IF ops[o].kind = "Prekeys" THEN ReceivePrekeys(t, o)
              ELSE ReceiveContribution(t, p, o))
    /\ UNCHANGED <<reqs, resps, ticks>>

\* Fault: the answer is asked for under a generation that is sealed.
RepairRequestSealed(p) ==
    LET nodes == FrontierOf(ops, me[p]) \ Range(me[p].keys) IN
    /\ nodes # {}
    /\ reqs' = [q \in Peers |-> IF q = p THEN reqs[q] ELSE [reqs[q] EXCEPT ![p] = nodes]]
    /\ UNCHANGED <<ops, me, resps, ticks>>

\* repair_request: a sealed generation is replaced first.  A newer request
\* replaces one that is still under way.
RepairRequest(p) ==
    LET nodes == FrontierOf(ops, me[p]) \ Range(me[p].keys) IN
    /\ nodes # {}
    /\ Set(p, IF me[p].pool.sealed THEN RotatePrekeys(Here(p), p) ELSE Here(p))
    /\ reqs' = [q \in Peers |-> IF q = p THEN reqs[q] ELSE [reqs[q] EXCEPT ![p] = nodes]]
    /\ UNCHANGED <<resps, ticks>>

\* answer_node_keys_for: only nodes of the responder's own frontier, sealed to
\* the latest prekey it knows.
AnswerNodeKeys(q, p) ==
    LET entries == reqs[q][p] \cap FrontierOf(ops, me[q]) \cap Range(me[q].keys) IN
    /\ reqs[q][p] # {}
    /\ reqs' = [reqs EXCEPT ![q][p] = {}]
    /\ resps' = IF entries = {} THEN resps
                ELSE [resps EXCEPT ![p][q] = [gen |-> me[q].prekeys[p], entries |-> entries]]
    /\ UNCHANGED <<ops, me, ticks>>

\* Fault: a node that was repaired stays marked missing.
AbsorbNodeKeysOnly(p, q) ==
    LET r == resps[p][q]
        kept == r.entries \cap FrontierOf(ops, me[p])
    IN /\ r # NoReply /\ r.gen = me[p].pool.gen /\ ~me[p].pool.sealed
       /\ resps' = [resps EXCEPT ![p][q] = NoReply]
       /\ \E order \in Bijection(1..Cardinality(kept), kept) :
            me' = [me EXCEPT ![p].keys = InsertAll(@, order), ![p].absorbed = @ \cup kept]
       /\ UNCHANGED <<ops, reqs, ticks>>

\* absorb_node_keys: refused unless the current generation can open it; only
\* nodes of the current frontier are kept.  Entries come in identifier order.
AbsorbNodeKeys(p, q) ==
    LET r == resps[p][q]
        kept == r.entries \cap FrontierOf(ops, me[p])
    IN /\ r # NoReply
       /\ resps' = [resps EXCEPT ![p][q] = NoReply]
       /\ IF r.gen = me[p].pool.gen /\ ~me[p].pool.sealed
          THEN \E order \in Bijection(1..Cardinality(kept), kept) :
                 me' = [me EXCEPT ![p].keys = InsertAll(@, order),
                                  ![p].absorbed = @ \cup kept, ![p].missing = @ \ kept]
          ELSE UNCHANGED me
       /\ UNCHANGED <<ops, reqs, ticks>>

Next ==
    \E p \in Peers :
      \/ Contribute(p) \/ Heal(p) \/ Tick(p) \/ RepairRequest(p)
      \/ \E o \in DOMAIN ops : Ingest(p, o)
      \/ \E q \in Peers : AnswerNodeKeys(p, q) \/ AbsorbNodeKeys(p, q)

Spec == Init /\ [][Next]_vars

\* Operations spread (Replica, Convergence), members that cannot derive the key
\* keep calling resync, and what they send is handled.
Fairness ==
    \A p \in Peers :
      /\ WF_vars(\E o \in DOMAIN ops : Ingest(p, o))
      /\ WF_vars(RepairRequest(p))
      /\ \A q \in Peers : WF_vars(AnswerNodeKeys(p, q)) /\ WF_vars(AbsorbNodeKeys(p, q))

FairSpec == Spec /\ Fairness

-----------------------------------------------------------------------------
(* What Participant::import_persistence_state accepts.                        *)

\* read_prekeys.
ImportsPrekeys(pool) == ~pool.sealed => pool.age < SEAL_AFTER

\* read_recv_chan: what is buffered lies beyond the awaited position, each at a
\* position of its own.
ImportsRecvChan(p, c) ==
    LET seq(o) == ops[o].slices[p].seq IN
    /\ Cardinality(c.buffer) <= MAX_BUFFERED
    /\ \A o \in c.buffer : seq(o) > c.next
    /\ \A o, b \in c.buffer : seq(o) = seq(b) => o = b

\* read_peer_prekeys, read_send_channels and read_recv_channels: no entry for
\* oneself, every receiving channel acceptable.
ImportsChannels(p) ==
    /\ me[p].prekeys[p] = 0 /\ me[p].send[p] = NoChan /\ me[p].recv[p] = NoRecv
    /\ \A q \in Others(p) : ImportsRecvChan(p, me[p].recv[q])

\* read_nodekeys.
ImportsNodeKeys(keys) == Len(keys) <= OVERLAP /\ IsInjective(keys)

\* validate_contribution_state: each node is a contribution that was ingested.
ValidContributions(s) ==
    /\ s.absorbed \cap s.missing = {}
    /\ s.absorbed \cup s.missing \cup Range(s.keys) \subseteq Contribs(ops) \cap DOMAIN s.graph

\* The fields modelled here; VersionWindow has read_versions, and the graph,
\* the operations waiting for it and the guilty set are Replica's.
Imports(p) ==
    /\ ImportsPrekeys(me[p].pool) /\ ImportsChannels(p)
    /\ ImportsNodeKeys(me[p].keys) /\ ValidContributions(me[p])

-----------------------------------------------------------------------------
\* Every participant's state is well formed: operations refer to earlier ones,
\* a channel is named by a contribution, retained keys have one place each.
TypeOK ==
    /\ \A o \in DOMAIN ops : ops[o].author \in Peers /\ ops[o].deps \subseteq 1..(o - 1)
    /\ \A p \in Peers :
         /\ DOMAIN me[p].graph \subseteq DOMAIN ops
         /\ me[p].pool.gen \in Nat /\ me[p].pool.served \subseteq Others(p)
         /\ \A q \in Peers : me[p].prekeys[q] \in Nat /\ me[p].send[q].eph \in {0} \cup Contribs(ops)
         /\ IsInjective(me[p].keys) /\ Len(me[p].keys) <= OVERLAP

\* What is stored can be loaded: import_persistence_state accepts every state the
\* handlers reach, with no node both absorbed and missing, no expired prekey
\* secret kept and no slice buffered that the channel has already passed.
Importable == \A p \in Peers : Imports(p)

\* The two ends of a channel agree: a member that has ingested everything the
\* other signed, and has the channel the other sends on, awaits exactly the
\* position the other will use next (Chan::step, offer, commit and the
\* retirement of channels by newer prekeys).
ChannelsAgree ==
    \A p, q \in Peers :
      LET out == me[p].send[q]
          in == me[q].recv[p]
      IN /\ p # q /\ out.eph # 0 /\ out.eph = in.eph
         /\ \A o \in DOMAIN ops : ops[o].author = p => o \in DOMAIN me[q].graph
         => out.next = in.next

\* Contributions that may have pushed the key of o out of a member's NodeKeys:
\* the ones that are not in its past.
Since(o) == Contribs(ops) \ Closure(me[ops[o].author].graph, {o})

\* As long as fewer than OVERLAP others were made beside it, the key of a
\* contribution at the tip of a member's graph is held by someone it can be asked
\* from: NodeKeys::insert evicts what has been built on, never what is current.
SomeoneHolds ==
    \A p \in Peers : \A o \in FrontierOf(ops, me[p]) :
        Cardinality(Since(o)) < OVERLAP => \E q \in Peers : o \in Range(me[q].keys)

\* A member that cannot derive the current key can derive it again in the end,
\* through rotations, retired prekeys, lost slices, evictions and refused
\* responses, unless OVERLAP contributions were made beside one of its tips.
Recovers ==
    \A p \in Peers :
        []<>(\/ CanDerive(ops, me[p])
            \/ \E o \in FrontierOf(ops, me[p]) : Cardinality(Since(o)) >= OVERLAP)
===============================================================================
