--------------------------- MODULE DurableRegister ---------------------------
(* What cfr_protocol::persistence promises its caller: a register of          *)
(* versioned states.  `exposed` is the state the application last saw (the    *)
(* live state of a PersistentConference, or the one it held when the process  *)
(* stopped) and `stored` is the state a restart would load.  A transaction    *)
(* may reach the disk before the caller learns of it; a restart may show that *)
(* transaction or not, and never anything older than what was exposed.  On a  *)
(* medium that decays everything may be lost, and never a part of it.         *)
EXTENDS Integers

CONSTANTS Records,  \* versioned states: [seq : 1.., val : ...]
          Nothing,  \* the state of an empty register, with sequence 0
          Decays    \* the medium may lose what it stores

VARIABLES up,       \* a process holds the store
          exposed,  \* the last state handed to the application
          stored    \* the state a restart would load

vars == <<up, exposed, stored>>

Init == up = FALSE /\ exposed = Nothing /\ stored = Nothing

\* A process takes hold of an empty directory to create the first state.
Create == ~up /\ exposed = Nothing /\ stored = Nothing
          /\ up' = TRUE /\ UNCHANGED <<exposed, stored>>

\* The successor of the exposed state reaches the disk, unannounced.
Store == /\ up
         /\ stored = exposed
         /\ stored' \in {r \in Records : r.seq = exposed.seq + 1}
         /\ UNCHANGED <<up, exposed>>

\* The transaction is announced, or withdrawn after an I/O error.
Announce == up /\ exposed' = stored /\ UNCHANGED <<up, stored>>
Withdraw == up /\ stored' = exposed /\ UNCHANGED <<up, exposed>>

\* The process stops.  An unannounced transaction may or may not survive.
Stop == up /\ up' = FALSE /\ stored' \in {stored, exposed} /\ UNCHANGED exposed

\* A restart exposes what is stored.
Restart == ~up /\ stored # Nothing
           /\ up' = TRUE /\ exposed' = stored /\ UNCHANGED stored

\* What is stored is lost while no process runs.
Lose == Decays /\ ~up /\ stored' = Nothing /\ UNCHANGED <<up, exposed>>

Next == Create \/ Store \/ Announce \/ Withdraw \/ Stop \/ Restart \/ Lose

Spec == Init /\ [][Next]_vars
===============================================================================
