-------------------------- MODULE MCPersistentStore --------------------------
EXTENDS PersistentStore
CONSTANTS v1, v2, v3

\* With Threshold = 2 and MaxWal = 3, v1 and v2 fit before or only after a
\* checkpoint, and v3 never fits.
MCSize == [v \in {v1, v2, v3} |-> CASE v = v1 -> 1 [] v = v2 -> 2 [] v = v3 -> 4]
===============================================================================
