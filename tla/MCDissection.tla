---------------------------- MODULE MCDissection ----------------------------
(* What nested dissection does, in two parts that behaviours take one of.    *)
(* NodeRefine: three PEs.  The vertices 0..7 are a pair of parts with a      *)
(* separator all of them have a share of, and vertices next to it that       *)
(* several PEs can pull in.  The others are a second pair, at PE 2, with a   *)
(* separator whose vertices are inside.                                      *)
(* Ordering: eight vertices on five PEs, of which four get a domain.         *)
EXTENDS NodeRefine

MCVertex == 0..11
MCOwner  == [v \in MCVertex |-> IF v <= 2 THEN 0 ELSE IF v <= 5 THEN 1 ELSE 2]
Edges    == {{0, 3}, {1, 3}, {2, 3}, {1, 4}, {2, 5}, {0, 6}, {1, 6}, {3, 7}, {4, 5}, {4, 7},
             {8, 9}, {8, 10}, {8, 11}, {9, 11}, {9, 10}}
MCAdj    == [v \in MCVertex |-> {u \in MCVertex : {u, v} \in Edges}]
MCVWgt   == [v \in MCVertex |-> IF v = 5 THEN 2 ELSE IF v = 11 THEN 4 ELSE 1]
Second   == (8 :> 6) @@ (9 :> 6) @@ (10 :> 2) @@ (11 :> 3)
MCStarts == {w @@ Second : w \in {f \in [0..7 -> {0, 1, 4}] : Separated(f, 0..7)
                /\ {v \in 0..7 : f[v] = 4} \in {{0, 1, 2}, {0, 1, 2, 7}, {0, 2, 3, 6}, {1, 2, 3, 7}}}}

-----------------------------------------------------------------------------
VARIABLES opc, onparts, oiter, operm, oadjncy, owhere, onewwhere, obestseps, olastnode,
          oorder, osizes, oleft, omperm, omorder

OEdge == {{0, 1}, {1, 2}, {2, 3}, {3, 4}, {4, 5}, {5, 6}, {6, 7}, {2, 5}}

O == INSTANCE Ordering WITH
  npes <- 5, gnvtxs <- 8, Edge <- OEdge, VWgt <- [v \in 0..7 |-> IF v = 3 THEN 2 ELSE 1],
  Block <- (0 :> <<0, 6>> @@ 1 :> <<2>> @@ 2 :> <<4, 1>> @@ 3 :> <<7, 3>> @@ 4 :> <<5>>),
  p_nseps <- 2, MaxSep <- 2, MaxDiff <- 1,
  pc <- opc, nparts <- onparts, iter <- oiter, perm <- operm, adjncy <- oadjncy, where <- owhere,
  newwhere <- onewwhere, bestseps <- obestseps, lastnode <- olastnode, order <- oorder,
  sizes <- osizes, left <- oleft, mperm <- omperm, morder <- omorder

ASSUME O!EdgeAssumption /\ O!BlockAssumption

-----------------------------------------------------------------------------
\* Which of them is called; the other stays at an initial state.
VARIABLE call

ovars == <<opc, onparts, oiter, operm, oadjncy, owhere, onewwhere, obestseps, olastnode,
           oorder, osizes, oleft, omperm, omorder>>

MCInit ==
  /\ call \in {"NodeRefine", "Ordering"}
  /\ Init /\ (call = "Ordering" => rtype = "GREEDY" /\ Current = CHOOSE w \in Starts : TRUE)
  /\ O!Init

MCNext ==
  \/ call = "NodeRefine" /\ Next /\ UNCHANGED <<call, ovars>>
  \/ call = "Ordering" /\ O!Next /\ UNCHANGED <<call, vars>>

MCSpec == MCInit /\ [][MCNext]_<<call, vars, ovars>>

-----------------------------------------------------------------------------
\* Every vertex gets a number of its own (module Ordering).
OrderIsPermutation == O!OrderIsPermutation
\* The sizes describe domains that no edge joins (module Ordering).
SizesDescribeOrder == O!SizesDescribeOrder
=============================================================================
