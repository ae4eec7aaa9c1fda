--------------------------- MODULE MCKeyAgreement ---------------------------
(* Two members of a conference that was created by m1.                        *)
EXTENDS KeyAgreement

CONSTANTS m1, m2

MCPeers == {m1, m2}
===============================================================================
