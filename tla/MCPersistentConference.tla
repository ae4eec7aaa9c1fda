----------------------- MODULE MCPersistentConference -----------------------
(* Two persistent conferences, p1 and p2, exchanging messages.                *)
EXTENDS PersistentConference

CONSTANTS p1, p2

MCPeers == {p1, p2}
===============================================================================
