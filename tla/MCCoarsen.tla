----------------------------- MODULE MCCoarsen -----------------------------
(* Three PEs that are all neighbours, with every matching of a small graph. *)
EXTENDS Coarsen

MCVertex == 0..6
MCOwner  == [v \in MCVertex |-> IF v <= 2 THEN 0 ELSE IF v <= 4 THEN 1 ELSE 2]
Edges    == {{0, 1}, {0, 3}, {2, 3}, {3, 4}, {2, 5}, {4, 5}, {1, 6}}
MCAdj    == [v \in MCVertex |-> {u \in MCVertex : {u, v} \in Edges}]
MCVWgt   == [v \in MCVertex |-> 2^v]
MCAdjWgt == [u \in MCVertex |-> [v \in MCVertex |-> u + v]]

\* Disjoint pairs, local ones or edges, with a choice of the keeper of each.
Pairs    == {e \in SUBSET MCVertex : Cardinality(e) = 2 /\
               (e \in Edges \/ \A u, v \in e : MCOwner[u] = MCOwner[v])}
PairSets == {S \in SUBSET Pairs : \A a, b \in S : a # b => a \cap b = {}}
Smaller(e) == CHOOSE v \in e : \A u \in e : v <= u
MatchOf(S, K) == [v \in MCVertex |->
  IF \E e \in S : v \in e
  THEN LET e == CHOOSE x \in S : v \in x
           u == CHOOSE x \in e : x # v
       IN  u + (IF (v = Smaller(e)) = (e \notin K) THEN KeepBit ELSE 0)
  ELSE v + KeepBit]
MCMatchings == {m \in UNION {{MatchOf(S, K) : K \in SUBSET S} : S \in PairSets} : IsMatching(m)}
MCPartitions == [c \in 0..6 |-> IF c = 1 THEN {0, 1} ELSE {c % 2}]
MCNoises == {[c \in 0..6 |-> (c + k) % 2] : k \in {0, 1}}
=============================================================================
