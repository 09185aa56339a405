---------------------------- MODULE MCMoveGraph ----------------------------
(* Every partition of a six-vertex graph on three PEs into three parts, also
   those that leave parts empty, and the distributions the sample sort makes of
   22 layouts in the plane.  No two moved vertices get the same result. *)
EXTENDS SampleSort

MCVertex == 0..5
MCOwner  == [v \in MCVertex |-> IF v <= 2 THEN 0 ELSE IF v <= 3 THEN 1 ELSE 2]
Edges    == {{0, 1}, {0, 3}, {1, 4}, {2, 5}, {3, 5}}
MCAdj    == [v \in MCVertex |-> {u \in MCVertex : {u, v} \in Edges}]
MCVWgt   == [v \in MCVertex |-> v]
MCAdjWgt == [u \in MCVertex |-> [v \in MCVertex |-> u + v]]
MCWheres == [MCVertex -> PE]
MCInfos  == {[l \in MCVertex |-> 10 + l]}
Points   == <<<<0, 0>>, <<2, 0>>, <<2, 1>>, <<0, 3>>, <<1, 1>>, <<1, 3>>>>
MCBins   == {[v \in MCVertex |-> <<(a * v + b) % 4, (c * v) % 4>>] : a \in 0..3, b \in 0..1, c \in 0..1}
            \cup {[v \in MCVertex |-> Points[((v + a) % 6) + 1]] : a \in 0..5}
=============================================================================
