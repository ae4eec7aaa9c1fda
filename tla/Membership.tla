------------------------------ MODULE Membership ------------------------------
(* Causal membership, crates/cfr-core/src/membership.rs: who is a member, and *)
(* whether an operation is authorised, as functions of an operation graph.    *)
(*                                                                            *)
(* `ops` maps an identifier to its operation [author, kind, who, deps] and    *)
(* `g` is a CausalGraph graph over those identifiers.  `keep` is a causally   *)
(* closed part of g.  No participant is known to have equivocated.            *)
EXTENDS CausalGraph

CONSTANTS Admins,   \* policy.admins
          Quorum,   \* policy.quorum
          Rank      \* the order of the identifiers (hashes) in a BTreeMap

\* Evictions of t that count on their own: by itself or by an administrator.
Proven(ops, keep, t) ==
    {o \in keep : /\ ops[o].kind = "Remove" /\ ops[o].who = t
                  /\ ops[o].author = t \/ ops[o].author \in Admins}

Votes(ops, keep, t) ==
    {o \in keep : /\ ops[o].kind = "Remove" /\ ops[o].who = t
                  /\ ops[o].author # t /\ ops[o].author \notin Admins}

\* One vote per author: the first in identifier order.
FirstVotes(ops, keep, t) ==
    LET votes == Votes(ops, keep, t) IN
    {o \in votes : \A v \in votes : ops[v].author = ops[o].author => Rank[o] <= Rank[v]}

\* counted_removes_in.
CountedRemoves(ops, keep, t) ==
    LET first == FirstVotes(ops, keep, t) IN
    Proven(ops, keep, t) \cup (IF Cardinality(first) >= Quorum THEN first ELSE {})

\* members_in: some admission comes after every counted eviction.
MembersIn(ops, g, keep) ==
    LET admissions == {o \in keep : ops[o].kind = "Add"} IN
    {ops[a].who : a \in {a \in admissions :
        \A r \in CountedRemoves(ops, keep, ops[a].who) : Precedes(g, r, a)}}

Members(ops, g) == MembersIn(ops, g, DOMAIN g)

\* Fault: the current view decides.
MembersNow(ops, g, op) == Members(ops, g)

\* members_before: the membership in the causal past of an operation.
MembersBefore(ops, g, op) == MembersIn(ops, g, Closure(g, op.deps))

\* A dependency-free admission of its own author.
Founding(op) == op.kind = "Add" /\ op.who = op.author /\ op.deps = {}

\* Participant::authorised and decide.
Authorised(ops, g, op) ==
    \/ op.author \in MembersBefore(ops, g, op)
    \/ Founding(op) /\ \A o \in DOMAIN g : Founding(ops[o]) => ops[o].author = op.author
    \/ op.kind = "Remove" /\ op.who = op.author
===============================================================================
