----------------------------- MODULE CausalGraph -----------------------------
(* The causal operation graph of crates/cfr-core/src/dag.rs.                  *)
(*                                                                            *)
(* A graph is a function from the identifiers it stores to their causal past, *)
(* the transitive closure of the recorded parents.  Dag::add never changes    *)
(* the parents of a stored operation, so the past fixed when an operation is  *)
(* added is what Dag::ancestors computes from then on.                        *)
EXTENDS Naturals, FiniteSets

EmptyGraph == [o \in {} |-> {}]

\* The identifiers of `deps` that g stores, with everything before them.
Closure(g, deps) ==
    LET known == deps \cap DOMAIN g IN known \cup UNION {g[d] : d \in known}

\* Dag::heads: operations no other operation depends on.
Heads(g) == {o \in DOMAIN g : \A x \in DOMAIN g : o \notin g[x]}

\* Fault: the operation is recorded on top of whatever the graph ends in.
AddOnHeads(g, o, deps) ==
    IF o \in DOMAIN g THEN g
    ELSE [x \in DOMAIN g \cup {o} |-> IF x = o THEN Closure(g, Heads(g)) ELSE g[x]]

\* Dag::add of operation o: unknown dependencies are dropped, a stored
\* identifier is left alone.
Add(g, o, deps) ==
    IF o \in DOMAIN g THEN g
    ELSE [x \in DOMAIN g \cup {o} |-> IF x = o THEN Closure(g, deps) ELSE g[x]]

\* Faults: the dependencies are not looked at, or one of them is enough.
DepsIgnored(g, deps) == TRUE
DepsAny(g, deps) == deps = {} \/ deps \cap DOMAIN g # {}

\* Dag::deps_satisfied, Participant::deps_available.
DepsSatisfied(g, deps) == deps \subseteq DOMAIN g

\* Dag::precedes.
Precedes(g, a, b) == a # b /\ b \in DOMAIN g /\ a \in g[b]

\* keys::frontier: the contributions no other contribution depends on.
Frontier(g, contribs) ==
    LET nodes == contribs \cap DOMAIN g IN {n \in nodes : \A c \in nodes : n \notin g[c]}
===============================================================================
