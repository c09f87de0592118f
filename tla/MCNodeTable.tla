----------------------------- MODULE MCNodeTable -----------------------------
(* An instance of NodeTable for TLC.                                       *)
EXTENDS NodeTable

\* three nodes: 1 and 2 are threads of process 1, 3 is process 2
Threads3 == 1 .. 3
Proc3 == [t \in Threads3 |-> IF t = 3 THEN 2 ELSE 1]

\* node 3 has a number of its own, or that of node 2
NumDistinct == [t \in Threads3 |-> t]
NumShared == [t \in Threads3 |-> IF t = 3 THEN 2 ELSE t]
=============================================================================
