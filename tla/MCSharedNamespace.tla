------------------------- MODULE MCSharedNamespace -------------------------
EXTENDS SharedNamespace
CONSTANTS u1, u2, t1, t2, t3, j1, j2
MCTurnUser == [t \in Turns |-> IF t = t2 THEN u2 ELSE u1]
MCJobUser == [j \in Jobs |-> IF j = j1 THEN u1 ELSE u2]
=============================================================================
