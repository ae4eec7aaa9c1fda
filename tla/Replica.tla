------------------------------- MODULE Replica --------------------------------
(* Replication of the operation graph among conference participants:          *)
(* crates/cfr-core/src/member.rs, without the key material (Prekeys, Contrib  *)
(* and PrekeyRequest operations are all "Data": they only extend the graph).  *)
(*                                                                            *)
(* Data operations that a handler signs in a row are one.                     *)
(*                                                                            *)
(* Identifiers are positions in `ops`, the sequence of every operation ever   *)
(* signed; their hash order is Membership's Rank.  The network may lose,      *)
(* repeat, delay and reorder: what was broadcast can be received at any later *)
(* time, any number of times, or never.                                       *)
EXTENDS Membership, Sequences

CONSTANTS Peers,       \* identities
          Founder,     \* the participant that creates the conference
          MaxOps,      \* bound on signed operations
          MaxPending   \* member.rs MAX_PENDING

ASSUME ReplicaAssumption ==
    /\ Founder \in Peers /\ MaxOps \in Nat \ {0, 1} /\ MaxPending \in Nat
    /\ Admins \subseteq Peers /\ Quorum \in Nat \ {0}
    /\ Rank \in [1..MaxOps -> Nat]

VARIABLES ops,       \* every operation signed so far
          joined,    \* participants: identities past create or accept
          graph,     \* per identity, its Dag
          pending,   \* per identity, operations waiting for a dependency
          sent,      \* operations broadcast
          mail,      \* per identity, operations on their way to it in a Deliver
          syncs,     \* Sync messages under way, [from, to, heads]
          welcomes   \* Welcome messages [to, history]

vars == <<ops, joined, graph, pending, sent, mail, syncs, welcomes>>

Oids == 1..MaxOps
Kinds == {"Add", "Remove", "Data"}
Operation == [author : Peers, kind : Kinds, who : Peers, deps : SUBSET Nat]

Dag(p) == DOMAIN graph[p]
MembersOf(p) == Members(ops, graph[p])

\* drain_pending has nothing left to do for p.
Ready(p) == {o \in pending[p] : DepsSatisfied(graph[p], ops[o].deps)}
Idle(p) == p \in joined /\ Ready(p) = {}

-----------------------------------------------------------------------------
(* Signing.  A handler may sign several operations in a row, each on top of   *)
(* the heads of the graph that holds the previous ones.                       *)

Extend(s, op) == [ops |-> Append(s.ops, op), graph |-> Add(s.graph, Len(s.ops) + 1, op.deps)]

Sign(s, p, kind, who) ==
    Extend(s, [author |-> p, kind |-> kind, who |-> who, deps |-> Heads(s.graph)])

SignData(s, p, n) == IF n = 0 THEN s ELSE Sign(s, p, "Data", p)

\* p ends a handler with operations and graph s, having broadcast `out`.
Commit(p, s, out) ==
    /\ Len(s.ops) <= MaxOps
    /\ ops' = s.ops
    /\ graph' = [graph EXCEPT ![p] = s.graph]
    /\ sent' = sent \cup out

Here(p) == [ops |-> ops, graph |-> graph[p]]

\* The operations a handler has signed and broadcasts.
New(s) == (Len(ops) + 1)..Len(s.ops)

Init ==
    LET empty == [ops |-> <<>>, graph |-> EmptyGraph]
        s == SignData(Sign(empty, Founder, "Add", Founder), Founder, 1)
    IN  /\ ops = s.ops
        /\ graph = [p \in Peers |-> IF p = Founder THEN s.graph ELSE EmptyGraph]
        /\ joined = {Founder}
        /\ sent = {1, 2}
        /\ pending = [p \in Peers |-> {}]
        /\ mail = [p \in Peers |-> {}]
        /\ syncs = {} /\ welcomes = {}

(* Local operations.  `rotates` leaves open whether the key layer signs an    *)
(* operation of its own, and `fails` whether it returns an error after the    *)
(* graph has changed, which drops the outgoing messages.                      *)

\* Participant::invite: admission, rotation of a sealed prekey, welcome, rekey.
Invite(p, q, rotates, fails) ==
    /\ Idle(p) /\ p \in MembersOf(p)
    /\ LET welcomed == SignData(Sign(Here(p), p, "Add", q), p, rotates)
           done == IF fails THEN welcomed ELSE SignData(welcomed, p, 1)
       IN  /\ Commit(p, done, IF fails THEN {} ELSE New(done))
           /\ welcomes' = IF fails THEN welcomes
                          ELSE welcomes \cup {[to |-> q, history |-> welcomed.graph]}
    /\ UNCHANGED <<joined, pending, mail, syncs>>

\* Participant::remove: eviction, then a rekey that only a member can make.
Remove(p, q, fails) ==
    /\ Idle(p) /\ Len(ops) < MaxOps
    /\ LET removed == Sign(Here(p), p, "Remove", q)
           refused == fails \/ p \notin Members(removed.ops, removed.graph)
           done == IF refused THEN removed ELSE SignData(removed, p, 1)
       IN  Commit(p, done, IF refused THEN {} ELSE New(done))
    /\ UNCHANGED <<joined, pending, mail, syncs, welcomes>>

\* Participant::leave.
Leave(p) ==
    /\ Idle(p)
    /\ LET done == Sign(Here(p), p, "Remove", p) IN Commit(p, done, New(done))
    /\ UNCHANGED <<joined, pending, mail, syncs, welcomes>>

\* Participant::contribute by a member, or rotate_prekeys by anyone.
Publish(p) ==
    /\ Idle(p)
    /\ LET done == SignData(Here(p), p, 1) IN Commit(p, done, New(done))
    /\ UNCHANGED <<joined, pending, mail, syncs, welcomes>>

\* The history of a welcome is ingested one operation at a time, so a data
\* operation that names q may make it sign a prekey rotation on top of the part
\* ingested so far.  PendingJoin::accept discards what ingest asks to send.
Rotations(q, g) ==
    LET prefixes == {s \in SUBSET DOMAIN g : \A o \in s : g[o] \subseteq s}
        names(o) == /\ ops[o].kind = "Data" /\ ops[o].author # q
                    /\ q \in MembersBefore(ops, g, ops[o])
    IN  {[author |-> q, kind |-> "Data", who |-> q, deps |-> Heads([o \in s |-> g[o]])] :
            s \in {s \in prefixes : \E o \in s : names(o)}}

\* PendingJoin::accept: the history is validated like any delivery and rebuilds
\* the graph it was taken from; then q publishes its prekey.
Accept(q, rotates) ==
    /\ q \notin joined
    /\ \E w \in welcomes :
         LET there == [ops |-> ops, graph |-> w.history] IN
         /\ w.to = q
         /\ \A o \in DOMAIN w.history : Authorised(ops, w.history, ops[o])
         /\ q \in Members(ops, w.history)
         /\ \E s \in IF rotates THEN {Extend(there, op) : op \in Rotations(q, w.history)} ELSE {there} :
              LET done == SignData(s, q, 1) IN Commit(q, done, {Len(done.ops)})
    /\ joined' = joined \cup {q}
    /\ UNCHANGED <<pending, mail, syncs, welcomes>>

(* Inbound operations.                                                        *)

\* Participant::ingest of an operation whose dependencies are there.  The key
\* layer may answer an admission or a data operation with a fresh prekey.
Apply(p, o, answers) ==
    LET g == graph[p]
        added == [ops |-> ops, graph |-> Add(g, o, ops[o].deps)]
        done == SignData(added, p, answers)
    IN  /\ answers = 1 => ops[o].kind # "Remove"
        /\ IF o \notin DOMAIN g /\ Authorised(ops, g, ops[o])
           THEN Commit(p, done, New(done))
           ELSE answers = 0 /\ UNCHANGED <<ops, graph, sent>>

\* An operation is applied, or parked until its dependencies arrive; a full
\* buffer drops it.
Ingest(p, o, answers) ==
    IF o \in Dag(p) \/ DepsSatisfied(graph[p], ops[o].deps)
    THEN Apply(p, o, answers) /\ UNCHANGED pending
    ELSE /\ answers = 0
         /\ pending' = IF Cardinality(pending[p]) < MaxPending
                       THEN [pending EXCEPT ![p] = @ \cup {o}] ELSE pending
         /\ UNCHANGED <<ops, graph, sent>>

\* handle(Op).
Receive(p, o, answers) ==
    /\ Idle(p) /\ o \in sent
    /\ Ingest(p, o, answers)
    /\ UNCHANGED <<joined, mail, syncs, welcomes>>

\* handle(Deliver): one operation of the batch, which is in topological order
\* and drains the parked operations after its last one.
ReceiveDelivered(p, o, answers) ==
    /\ p \in joined /\ o \in mail[p] /\ ops[o].deps \cap mail[p] = {}
    /\ mail' = [mail EXCEPT ![p] = @ \ {o}]
    /\ Ingest(p, o, answers)
    /\ UNCHANGED <<joined, syncs, welcomes>>

\* drain_pending, one parked operation at a time; a refused one is dropped.
Drain(p, o, answers) ==
    /\ p \in joined /\ o \in Ready(p)
    /\ pending' = [pending EXCEPT ![p] = @ \ {o}]
    /\ Apply(p, o, answers)
    /\ UNCHANGED <<joined, mail, syncs, welcomes>>

(* Anti-entropy.                                                              *)

Ask(p, qs) == {[from |-> p, to |-> q, heads |-> Heads(graph[p])] : q \in qs}

\* Participant::sync_request, a broadcast.  A newer request supersedes the older.
SendSync(p) ==
    /\ Idle(p)
    /\ syncs' = {m \in syncs : m.from # p} \cup Ask(p, Peers \ {p})
    /\ UNCHANGED <<ops, joined, graph, pending, sent, mail, welcomes>>

\* Fault: a requester with a head we do not know is sent nothing.
LacksIfKnown(p, heads) ==
    IF heads \subseteq Dag(p) THEN Dag(p) \ Closure(graph[p], heads) ELSE {}

\* What a participant with these heads lacks of p's graph.
Lacks(p, heads) == Dag(p) \ Closure(graph[p], heads)

\* handle(Sync): a member is sent what it lacks, and asked for what we lack.
\* The answers to a participant reach it one at a time.
AnswerSync(p, m) ==
    /\ Idle(p) /\ m \in syncs /\ m.to = p /\ mail[m.from] = {}
    /\ LET others == syncs \ {m}
           served == m.from \in MembersOf(p)
       IN  /\ mail' = IF served THEN [mail EXCEPT ![m.from] = Lacks(p, m.heads)] ELSE mail
           /\ syncs' = IF served /\ ~(m.heads \subseteq Dag(p))
                       THEN {x \in others : <<x.from, x.to>> # <<p, m.from>>} \cup Ask(p, {m.from})
                       ELSE others
    /\ UNCHANGED <<ops, joined, graph, pending, sent, welcomes>>

Next ==
    \/ \E p, q \in Peers, rotates \in 0..1, fails \in BOOLEAN : Invite(p, q, rotates, fails)
    \/ \E p, q \in Peers, fails \in BOOLEAN : Remove(p, q, fails)
    \/ \E p \in Peers : Leave(p) \/ Publish(p) \/ SendSync(p)
    \/ \E q \in Peers, rotates \in BOOLEAN : Accept(q, rotates)
    \/ \E p \in Peers, o \in 1..Len(ops), answers \in 0..1 :
         Receive(p, o, answers) \/ ReceiveDelivered(p, o, answers) \/ Drain(p, o, answers)
    \/ \E p \in Peers, m \in syncs : AnswerSync(p, m)

Spec == Init /\ [][Next]_vars

\* Applications call resync now and then, and what is sent in answer arrives.
Fairness ==
    \A p \in Peers : /\ WF_vars(SendSync(p))
                     /\ \A q \in Peers : SF_vars(\E m \in syncs : m.from = q /\ AnswerSync(p, m))
                     /\ WF_vars(\E o \in 1..Len(ops) : ReceiveDelivered(p, o, 0))
                     /\ WF_vars(\E o \in 1..Len(ops) : Drain(p, o, 0))

FairSpec == Spec /\ Fairness

-----------------------------------------------------------------------------
IsGraph(g) == DOMAIN g \subseteq 1..Len(ops) /\ \A o \in DOMAIN g : g[o] \subseteq 1..(o - 1)

\* The variables have the types of the fields they stand for: graphs without
\* cycles, in which an operation comes after what was signed before it
\* (Dag::add), and at most MAX_PENDING operations parked.
TypeOK ==
    /\ ops \in Seq(Operation) /\ Len(ops) <= MaxOps
    /\ joined \subseteq Peers
    /\ graph = [p \in Peers |-> graph[p]] /\ \A p \in Peers : IsGraph(graph[p])
    /\ pending \in [Peers -> SUBSET (1..Len(ops))]
    /\ \A p \in Peers : Cardinality(pending[p]) <= MaxPending
    /\ mail \in [Peers -> SUBSET (1..Len(ops))]
    /\ sent \subseteq 1..Len(ops)
    /\ \A m \in syncs : m \in [from : Peers, to : Peers, heads : SUBSET (1..Len(ops))]
    /\ \A w \in welcomes : w.to \in Peers /\ IsGraph(w.history)

\* A participant that holds an operation holds its complete signed past, as
\* Dag::causal_closure assumes of the heads of a peer: neither reordering, loss
\* nor a full pending buffer makes Dag::add drop an edge.
CausallyClosed ==
    \A p \in Peers : \A o \in Dag(p) :
        ops[o].deps \subseteq graph[p][o] /\ graph[p][o] \subseteq Dag(p)

\* Any two participants that hold an operation agree on what came before it.
SamePast ==
    \A p, q \in Peers : \A o \in Dag(p) \cap Dag(q) : graph[p][o] = graph[q][o]

\* Every participant that can judge an operation reaches the same verdict.
SameVerdict ==
    \A o \in 1..Len(ops) : \A p, q \in joined :
        DepsSatisfied(graph[p], ops[o].deps) /\ DepsSatisfied(graph[q], ops[o].deps)
        => (Authorised(ops, graph[p], ops[o]) <=> Authorised(ops, graph[q], ops[o]))

Mutual(p, q) == {p, q} \subseteq joined /\ p \in MembersOf(q) /\ q \in MembersOf(p)

\* Nobody holds an operation of its own that the others must refuse.
Welcome(p) == \A o \in Dag(p) : Authorised(ops, graph[p], ops[o])

\* Synchronisation brings two participants that count each other as members to
\* one graph, whatever was lost, reordered, or dropped from a full buffer.
Convergence == <>[](\A p, q \in joined : Mutual(p, q) /\ Welcome(p) /\ Welcome(q) => graph[p] = graph[q])

\* Two members never hold graphs that synchronisation cannot reconcile: no
\* operation of one is refused by the other once its dependencies are there.
Reconcilable ==
    \A p, q \in joined : Mutual(p, q) =>
        \A o \in Dag(p) \ Dag(q) : DepsSatisfied(graph[q], ops[o].deps) => Authorised(ops, graph[q], ops[o])

\* docs/protocol.md: "An admission survives only if every *counted* eviction of that
\* identity strictly precedes it", and one counts when it comes "from a quorum of
\* distinct authors".  Whoever a quorum has voted against since each of its
\* admissions is no member.
QuorumEvicts ==
    \A p \in joined, t \in Peers :
        (\A o \in Dag(p) : ops[o].kind = "Add" /\ ops[o].who = t =>
            Cardinality({ops[v].author : v \in {v \in Votes(ops, Dag(p), t) : ~Precedes(graph[p], v, o)}}) >= Quorum)
        => t \notin MembersOf(p)
===============================================================================
