------------------------------ MODULE MCKWayFM ------------------------------
(* Three PEs and three parts.  From these partitions moves are undone, a PE
   moves a vertex into a part that was too heavy after it moved others out of
   it, and a balanced part becomes too heavy by the moves of several PEs. *)
EXTENDS KWayFM

MCVertex == 0..6
MCOwner  == [v \in MCVertex |-> IF v <= 2 THEN 0 ELSE IF v <= 4 THEN 1 ELSE 2]
Edges    == {{0, 3}, {1, 4}, {0, 1}, {2, 5}, {1, 2}, {3, 6}, {5, 6}, {4, 5}, {2, 6}}
MCAdj    == [v \in MCVertex |-> {u \in MCVertex : {u, v} \in Edges}]
MCVWgt   == [v \in MCVertex |-> IF v = 0 THEN 2 ELSE 1]
MCAdjWgt == [u \in MCVertex |-> [v \in MCVertex |-> IF {u, v} \in {{1, 2}, {0, 3}} THEN 2 ELSE 1]]
MCTarget == [a \in {0, 1, 2} |-> IF a = 1 THEN 2 ELSE 3]
MCWheres == {f \in [MCVertex -> {0, 1, 2}] :
               /\ f[0] = 1 /\ f[1] = 0 /\ f[3] = 2 /\ f[5] # 0
               /\ f[4] \in {f[5], 2} /\ f[2] # f[5] /\ f[6] # f[5]}
MCStarts == {s \in [where : MCWheres, program : Programs] :
               s.where[2] = IF s.program = <<"KWayFM">> THEN 0 ELSE 2}
MCVSize  == [v \in MCVertex |-> IF v \in {2, 3} THEN 2 ELSE 1]
MCHome   == [v \in MCVertex |-> v % 3]
=============================================================================
