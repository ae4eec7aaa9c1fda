---------------------------- MODULE VersionWindow ----------------------------
(* The version labels a participant remembers for checking beacons            *)
(* (Participant::note_version, check_beacon), and what import asks of them.   *)
(* A label is a hash: the next one may lie anywhere in the order of the map.  *)
EXTENDS Integers, FiniteSets

CONSTANTS Labels,   \* version labels, numbered in the order of their byte strings
          OVERLAP   \* keys.rs

VARIABLES seen_versions, last_version

vars == <<seen_versions, last_version>>

\* The first labels leave the map until it is small enough.
Trim(m) == {v \in m : Cardinality({w \in m : w > v}) < OVERLAP}

Init == \E v \in Labels : seen_versions = {v} /\ last_version = v

\* note_version, at the end of every handler that changed the version: a label
\* never seen before, or one that was current earlier.
NoteVersion(v) ==
    /\ seen_versions' = Trim(seen_versions \cup {v})
    /\ last_version' = v

Next == \E v \in Labels \ {last_version} : NoteVersion(v)

Spec == Init /\ [][Next]_vars

\* read_versions: a state is accepted when the window has its size and holds
\* the last version.
Imports ==
    /\ Cardinality(seen_versions) \in 1..OVERLAP
    /\ last_version \in seen_versions

-----------------------------------------------------------------------------
\* Every state the handlers reach can be imported again: read_versions refuses
\* one whose last version is not retained.
ImportsBack == Imports
===============================================================================
