--------------------------- MODULE MCMatchGlobal ---------------------------
(* Three PEs that are all neighbours. *)
EXTENDS MatchGlobal

MCVertex == 0..7
MCOwner  == [v \in MCVertex |-> IF v <= 3 THEN 0 ELSE IF v <= 5 THEN 1 ELSE 2]
\* 0 is an island of PE 0; 1 and 2 share the remote neighbour 4.
Edges    == {{1, 3}, {1, 4}, {2, 3}, {2, 4}, {3, 4}, {3, 5}, {3, 6}, {3, 7}, {4, 6}, {4, 7}, {5, 6}}
MCAdj    == [v \in MCVertex |-> {u \in MCVertex : {u, v} \in Edges}]
MCWeight == [u \in MCVertex |-> [v \in MCVertex |-> IF {u, v} = {3, 6} THEN 2 ELSE 1]]
MCHome   == [v \in MCVertex |-> IF v = 2 THEN 1 ELSE 0]
MCHeavy  == {{3, 5, 7}, {0, 5, 7}, {0, 4, 6}}
MCOrders == [p \in PE |-> IF p = 0 THEN {<<0, 1, 2, 3>>, <<2, 1, 3, 0>>, <<3, 2, 1, 0>>, <<1, 2, 3, 0>>}
                          ELSE {SetToSortSeq(Own(p), <)}]
=============================================================================
