---------------------------- MODULE MCMultilevel ----------------------------
(* Graphs of three, four and eight vertices, each of which has an edge to    *)
(* the next, on nine PEs.                                                    *)
EXTENDS Multilevel

MCEdge == [n \in {3, 4, 8} |-> {{v, v + 1} : v \in 0..(n - 2)}]
MCVWgt == [n \in {3, 4, 8} |-> CASE n = 3 -> [v \in 0..2 |-> v + 1]
                                 [] n = 4 -> [v \in 0..3 |-> IF v \in {0, 3} THEN 2 ELSE 1]
                                 [] n = 8 -> [v \in 0..7 |-> 1]]
MCHome == [n \in {3, 4, 8} |-> [v \in 0..(n - 1) |-> IF v = 0 THEN 1 ELSE 2]]
MCCoarserSizes == [n \in {3, 4, 8} |-> IF n = 8 THEN {4} ELSE 3..n]
=============================================================================
