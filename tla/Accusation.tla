------------------------------ MODULE Accusation ------------------------------
(* Equivocation and its punishment (crates/cfr-core/src/member.rs and         *)
(* membership.rs).  One faulty member may deliver, in the slices of a         *)
(* contribution, a secret other than the one it committed to.  A recipient    *)
(* that finds out signs an Accuse operation; whoever checks the accusation    *)
(* holds the author guilty, which counts as an eviction.  The accusation is   *)
(* not broadcast: it reaches the others with what they synchronise.  The      *)
(* faulty member may also sign accusations that prove nothing.                *)
(*                                                                            *)
(* Here everybody is a member at the start, slices open as their operations   *)
(* are ingested (KeyAgreement has the channels) and only the faulty member is *)
(* admitted again (Replica has evictions and admissions in general).          *)
EXTENDS CausalGraph, Sequences, Functions

CONSTANTS Peers, Founder,
          Faulty,   \* the member that may equivocate and accuse falsely
          MaxMoves, \* bound on contributions and admissions, not on accusations
          MaxFalse  \* bound: false ones are among the first this many operations

ASSUME AccusationAssumption ==
    {Founder, Faulty} \subseteq Peers /\ IsFiniteSet(Peers) /\ {MaxMoves, MaxFalse} \subseteq Nat

VARIABLES ops,       \* every operation signed; identifiers are positions
          graph,     \* per participant, its Dag
          guilty,    \* per participant, whom it holds guilty
          derived,   \* per participant, the cached view of its graph
          sent       \* operations broadcast

vars == <<ops, graph, guilty, derived, sent>>

Kinds == {"Add", "Contrib", "Accuse"}
NoOp == 0

\* `to` are the recipients of a contribution and `bad` those whose slice
\* contradicts the commitment; `of` is the contribution an accusation is about.
Op(p, kind, who, g) ==
    [author |-> p, kind |-> kind, who |-> who, deps |-> Heads(g), to |-> {}, bad |-> {}, of |-> NoOp]

\* Contributions and invitations since the start.
Moves == Cardinality({o \in DOMAIN ops : ops[o].kind = "Contrib"}) - 2

Contribs(os) == {o \in DOMAIN os : os[o].kind = "Contrib"}
Dag(p) == DOMAIN graph[p]

-----------------------------------------------------------------------------
(* Membership with verified equivocation.                                     *)

\* counted_removes_in, of which there are no evictions by vote here.
Accusations(os, keep, t, culprits) ==
    {o \in keep : os[o].kind = "Accuse" /\ os[o].who = t /\ t \in culprits}

\* members_in: some admission comes after every counted eviction.
MembersAmong(os, g, keep, culprits) ==
    {os[a].who : a \in {a \in keep : /\ os[a].kind = "Add"
                                    /\ \A r \in Accusations(os, keep, os[a].who, culprits) : Precedes(g, r, a)}}

\* Fault: the current view decides.
JudgeNow(os, g, culprits, op) == op.author \in MembersAmong(os, g, DOMAIN g, culprits)

\* Participant::authorised: membership in the operation's own past.
Judge(os, g, culprits, op) == op.author \in MembersAmong(os, g, Closure(g, op.deps), culprits)

-----------------------------------------------------------------------------
(* The view of a graph, and its cache.                                        *)

View(os, g, culprits) ==
    [members |-> MembersAmong(os, g, DOMAIN g, culprits), frontier |-> Frontier(g, Contribs(os))]

\* Dag::epoch counts additions.
Epoch(g) == Cardinality(DOMAIN g)

\* Fault: the cache survives a change of the graph.
StaleGuilt(d, g, culprits) == d.guilty # Cardinality(culprits)

Stale(d, g, culprits) == d.epoch # Epoch(g) \/ d.guilty # Cardinality(culprits)

\* Participant::derived.
Derived(d, os, g, culprits) ==
    IF Stale(d, g, culprits)
    THEN [epoch |-> Epoch(g), guilty |-> Cardinality(culprits), view |-> View(os, g, culprits)]
    ELSE d

\* Participant::members, frontier, version: the view a participant acts on.
ViewOf(p) == Derived(derived[p], ops, graph[p], guilty[p]).view

-----------------------------------------------------------------------------
\* p ends a handler with operations os, graph g and guilty set c.
Set(p, os, g, c, out) ==
    /\ ops' = os
    /\ graph' = [graph EXCEPT ![p] = g]
    /\ guilty' = [guilty EXCEPT ![p] = c]
    /\ derived' = [derived EXCEPT ![p] = Derived(@, ops', graph'[p], guilty'[p])]
    /\ sent' = sent \cup out

\* The founder has admitted everyone and contributed, and all hold its history;
\* then the faulty member has contributed, honestly or not.
Init ==
    LET others == Peers \ {Founder}
        roster == <<Founder>> \o (CHOOSE f \in Bijection(1..Cardinality(others), others) : TRUE)
        n == Len(roster)
        first == Op(Founder, "Add", Founder, EmptyGraph)
        add(o) == [first EXCEPT !.who = roster[o], !.deps = 1..(o - 1) \ 1..(o - 2)]
        contrib(p, o) == [first EXCEPT !.author = p, !.kind = "Contrib", !.who = p,
                                       !.deps = {o - 1}, !.to = Peers \ {p}]
        g == [o \in 1..(n + 1) |-> 1..(o - 1)]
    IN  \E bad \in SUBSET (Peers \ {Faulty}) :
          /\ ops = [o \in 1..n |-> add(o)] \o
                   <<contrib(Founder, n + 1), [contrib(Faulty, n + 2) EXCEPT !.bad = bad]>>
          /\ sent = {n + 2}
          /\ graph = [p \in Peers |-> IF p = Faulty THEN Add(g, n + 2, {n + 1}) ELSE g]
          /\ guilty = [p \in Peers |-> {}]
          /\ derived = [p \in Peers |-> [epoch |-> Epoch(graph[p]), guilty |-> 0,
                                         view |-> View(ops, graph[p], {})]]

\* Fault: everyone ever admitted is addressed.
ContributionToAll(os, g, p, members, bad) ==
    [Op(p, "Contrib", p, g) EXCEPT !.to = {os[o].who : o \in DOMAIN os} \ {p}, !.bad = bad]

\* contribute_excluding: fresh entropy to every other member; the faulty member
\* may give some of them another secret than the one it committed to.
Contribution(os, g, p, members, bad) ==
    [Op(p, "Contrib", p, g) EXCEPT !.to = members \ {p}, !.bad = bad]

Contribute(p, bad) ==
    LET members == ViewOf(p).members
        o == Len(ops) + 1
        op == Contribution(ops, graph[p], p, members, bad)
    IN  /\ Moves < MaxMoves
        /\ p \in members /\ bad \subseteq op.to
        /\ Set(p, Append(ops, op), Add(graph[p], o, op.deps), guilty[p], {o})

\* Participant::invite of the faulty member: its admission, then a contribution
\* to everyone including it.
Invite(p) ==
    LET o == Len(ops) + 1
        add == Op(p, "Add", Faulty, graph[p])
        g == Add(graph[p], o, add.deps)
        os == Append(ops, add)
        op == Contribution(os, g, p, View(os, g, guilty[p]).members, {})
    IN  /\ Moves < MaxMoves
        /\ p # Faulty /\ p \in ViewOf(p).members
        /\ Set(p, Append(os, op), Add(g, o + 1, op.deps), guilty[p], {o, o + 1})

\* check_accusation: the revealed key opens the accuser's slice of that
\* contribution, and what it holds is not what the author committed to.
CheckAccusation(os, g, acc) ==
    /\ acc.of \in DOMAIN g /\ os[acc.of].kind = "Contrib" /\ os[acc.of].author = acc.who
    /\ acc.author \in os[acc.of].bad

Convict(os, g, acc, culprits) ==
    IF CheckAccusation(os, g, acc) THEN culprits \cup {acc.who} ELSE culprits

\* Fault: the evidence is recorded, its author is not.
OpenSliceRecords(p, o, g) ==
    LET acc == [Op(p, "Accuse", ops[o].author, g) EXCEPT !.of = o] IN
    Set(p, Append(ops, acc), Add(g, Len(ops) + 1, acc.deps), guilty[p], {})

\* Fault: its author is held guilty, the evidence is dropped.
OpenSliceSilent(p, o, g) == Set(p, ops, g, guilty[p] \cup {ops[o].author}, {})

\* open_slice of a slice that contradicts the commitment: the recipient signs an
\* accusation on top of its heads and keeps it.
OpenSlice(p, o, g) ==
    LET acc == [Op(p, "Accuse", ops[o].author, g) EXCEPT !.of = o] IN
    Set(p, Append(ops, acc), Add(g, Len(ops) + 1, acc.deps), Convict(ops, g, acc, guilty[p]), {})

\* An accusation with nothing behind it: the faulty member signs that some
\* contribution cheated it and broadcasts that.  No honest handler does this; the
\* others ingest it as they do any accusation, and check_accusation fails.
AccuseFalsely(p, of) ==
    LET o == Len(ops) + 1
        acc == [Op(p, "Accuse", ops[of].author, graph[p]) EXCEPT !.of = of]
    IN  /\ Len(ops) < Cardinality(Peers) + 2 + MaxFalse
        /\ p = Faulty /\ of \in Contribs(ops) \cap Dag(p)
        /\ Set(p, Append(ops, acc), Add(graph[p], o, acc.deps), guilty[p], {o})

\* Broadcast, or part of what a participant that counts p as a member sends it.
Reaches(p, o) == o \in sent \/ \E q \in Peers \ {p} : o \in Dag(q) /\ p \in ViewOf(q).members

\* ingest of an operation whose dependencies are there.
Ingest(p, o) ==
    LET op == ops[o]
        g == Add(graph[p], o, op.deps)
    IN  /\ o \notin Dag(p) /\ Reaches(p, o) /\ DepsSatisfied(graph[p], op.deps)
        /\ Judge(ops, graph[p], guilty[p], op)
        /\ CASE op.kind = "Contrib" /\ p \in op.bad -> OpenSlice(p, o, g)
             [] op.kind = "Accuse" -> Set(p, ops, g, Convict(ops, g, op, guilty[p]), {})
             [] OTHER -> Set(p, ops, g, guilty[p], {})

Next ==
    \E p \in Peers :
      \/ Contribute(p, {}) \/ Invite(p)
      \/ \E bad \in SUBSET (Peers \ {Faulty}) \ {{}} : p = Faulty /\ Contribute(p, bad)
      \/ \E o \in DOMAIN ops : AccuseFalsely(p, o) \/ Ingest(p, o)

Spec == Init /\ [][Next]_vars

-----------------------------------------------------------------------------
\* removal_complete: some tip was made after an eviction of `who`, neither by it
\* nor for it.
RemovalComplete(os, g, culprits, who) ==
    LET evictions == Accusations(os, DOMAIN g, who, culprits) IN
    \E f \in Frontier(g, Contribs(os)) :
        /\ who \notin os[f].to /\ os[f].author # who
        /\ \E r \in evictions : Precedes(g, r, f)

Evidence(p) == {o \in Dag(p) : ops[o].kind = "Accuse" /\ CheckAccusation(ops, graph[p], ops[o])}

\* Operations refer to earlier ones and every participant holds a causally
\* closed part of them.
TypeOK ==
    /\ \A o \in DOMAIN ops : /\ ops[o].kind \in Kinds /\ ops[o].deps \subseteq 1..(o - 1)
                             /\ ops[o].bad \subseteq ops[o].to /\ ops[o].to \subseteq Peers
    /\ \A p \in Peers : /\ Dag(p) \subseteq DOMAIN ops /\ guilty[p] \subseteq Peers
                        /\ \A o \in Dag(p) : ops[o].deps \subseteq graph[p][o]
    /\ sent \subseteq DOMAIN ops

\* A participant holds guilty exactly those its own graph proves guilty, however
\* many accusations that prove nothing it holds as well.  validate_participant
\* asks that nobody else is in a stored guilty set; that nobody is missing makes
\* the membership a function of the graph although it reads that set.
GuiltProven == \A p \in Peers : guilty[p] = {ops[o].who : o \in Evidence(p)}

\* The roster and frontier a participant acts on, read through the cache, are
\* those of its present graph and guilty set.
ViewCurrent == \A p \in Peers : ViewOf(p) = View(ops, graph[p], guilty[p])

\* Accusations of the author in the past of operation o that fail p's check.
Unproven(p, o) ==
    {x \in Closure(graph[p], ops[o].deps) :
        ops[x].kind = "Accuse" /\ ops[x].who = ops[o].author /\ ~CheckAccusation(ops, graph[p], ops[x])}

\* Every participant that can judge an operation reaches the same verdict, no
\* matter what it has learned since about the operation's author, unless the
\* operation was made after an accusation of its author that proves nothing:
\* authorised counts such an accusation from the moment the judge has other
\* evidence against the author, which is not part of the operation's past.
SameVerdict ==
    \A o \in DOMAIN ops : \E verdict \in BOOLEAN :
        \A p \in {p \in Peers : DepsSatisfied(graph[p], ops[o].deps)} :
            Judge(ops, graph[p], guilty[p], ops[o]) = verdict \/ Unproven(p, o) # {}

\* The accusation of one recipient reaches everyone else, though its author
\* never broadcasts it.
GuiltSpreads ==
    (\E p \in Peers : Faulty \in guilty[p]) ~> (\A p \in Peers \ {Faulty} : Faulty \in guilty[p])

\* Once a member that counts the faulty one out has contributed, its removal is
\* complete in that member's view: the new tip was made after the accusation
\* and is not addressed to the evicted party.
RekeyCompletes ==
    [][\A p \in Peers : Faulty \in guilty[p] \ ViewOf(p).members /\ Contribute(p, {})
        => RemovalComplete(ops', graph'[p], guilty'[p], Faulty)]_vars
===============================================================================
