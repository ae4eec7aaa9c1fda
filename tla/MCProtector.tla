----------------------------- MODULE MCProtector ------------------------------
(* Small instances of Protector.                                              *)
EXTENDS Protector, TLC
CONSTANTS a, b

\* Both are members of every version; a sends more than it receives.
MCPeers == {a, b}
MCRoster == [v \in Versions |-> MCPeers]
MCFrames == (a :> 5) @@ (b :> 0)

\* Versions are interchangeable.
Symmetry == Permutations(Versions)
===============================================================================
