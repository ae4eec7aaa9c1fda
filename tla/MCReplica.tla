------------------------------ MODULE MCReplica -------------------------------
(* Small instances of Replica.                                                *)
EXTENDS Replica
CONSTANTS a, b, c

\* Later operations hash before earlier ones.
MCRank == [o \in 1..MaxOps |-> MaxOps - o]

\* Earlier operations hash first.
EarlyRank == [o \in 1..MaxOps |-> o]

Signed(p, kind, who, deps) == [author |-> p, kind |-> kind, who |-> who, deps |-> deps]

\* The founder a has invited b, b has accepted, each has received everything and
\* nothing is under way.
Pair == << Signed(a, "Add", a, {}), Signed(a, "Data", a, {1}), Signed(a, "Add", b, {2}),
           Signed(a, "Data", a, {3}), Signed(b, "Data", b, {3}) >>

\* a and b hold exactly this history, and nothing is under way.
AllHold(history) ==
    LET past[n \in 0..Len(history)] == IF n = 0 THEN EmptyGraph ELSE Add(past[n - 1], n, history[n].deps) IN
    /\ ops = history
    /\ joined = {a, b}
    /\ graph = [p \in Peers |-> IF p \in {a, b} THEN past[Len(history)] ELSE EmptyGraph]
    /\ sent = {} /\ syncs = {} /\ welcomes = {}
    /\ pending = [p \in Peers |-> {}]
    /\ mail = [p \in Peers |-> {}]

PairSpec == AllHold(Pair) /\ [][Next]_vars

\* a has invited c as well, a and b have voted c out, and b has let c in again.
Readmission == Pair \o
    << Signed(a, "Add", c, {4, 5}), Signed(a, "Data", a, {6}), Signed(a, "Remove", c, {7}),
       Signed(a, "Data", a, {8}), Signed(b, "Remove", c, {9}), Signed(b, "Data", b, {10}),
       Signed(b, "Add", c, {11}), Signed(b, "Data", b, {12}) >>

VotesSpec == AllHold(Readmission) /\ [][Next]_vars
===============================================================================
