---------------------------- MODULE MCCommSetup ----------------------------
(* Every undirected graph on five vertices that lacks the edge {0, 4}, with
   lists in descending order, distributed evenly and with a PE that has no
   vertex.  And meshes of five elements, each one of three, with the nodes
   4 to 7, so that the least node is not the first number. *)
EXTENDS Mesh

MCVertex == 0..4
Blocks(a, b) == [i \in 0..3 |-> IF i = 0 THEN 0 ELSE IF i = 1 THEN a ELSE IF i = 2 THEN b ELSE 5]
Edges    == {e \in SUBSET MCVertex : Cardinality(e) = 2 /\ e # {0, 4}}
MCLists(E) == [v \in MCVertex |-> SetToSortSeq({u \in MCVertex : {u, v} \in E}, >)]
MCInputs == [vtxdist : {Blocks(2, 4), Blocks(3, 3)}, adj : {MCLists(E) : E \in SUBSET Edges}]

MCElements == {<<4, 5>>, <<5, 4, 6>>, <<7, 6, 5>>}
Dist(numflag) == [i \in 0..3 |-> numflag + (IF i = 0 THEN 0 ELSE IF i = 1 THEN 2 ELSE IF i = 2 THEN 4 ELSE 5)]
MCMeshes == {[elmdist |-> Dist(f), numflag |-> f, ncommon |-> n,
              eind |-> [p \in 0..2 |-> [i \in 1..(IF p = 2 THEN 1 ELSE 2) |-> e[2 * p + i - 1]]]] :
               f \in {0, 1}, n \in {1, 2}, e \in [MCVertex -> MCElements]}
=============================================================================
