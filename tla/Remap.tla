------------------------------- MODULE Remap -------------------------------
(***************************************************************************)
(* ParallelReMapGraph and ParallelTotalVReMap of libparmetis/remap.c: the  *)
(* parts of a new partition are renamed so that much of the data stays     *)
(* where it is, part a going to PE map[a].  In each pass every PE offers   *)
(* its heaviest part that is not taken; the offers are gathered, and every *)
(* PE sorts them and builds the same map from them on its own.             *)
(*                                                                         *)
(* The map is used only with as many parts as PEs, so PE numbers and part  *)
(* numbers are the same set here.  MPI_Allgather and GlobalSESum are joint *)
(* steps that all PEs have to reach.                                       *)
(***************************************************************************)
EXTENDS Integers, Sequences, SequencesExt, FiniteSets

CONSTANTS
  nparts,    \* number of parts and of PEs
  ncon,      \* number of balance constraints
  tpwgts,    \* tpwgts[a][h]: target weight of part a
  Tolerance, \* SMALLFLOAT in the unit of tpwgts
  npasses,   \* NREMAP_PASSES
  Inputs     \* the weights lpwgts[p][a] of part a at PE p

PE == 0..(nparts - 1)

ASSUME NpartsAssumption == nparts \in Nat \ {0} /\ npasses \in Nat \ {0}
ASSUME InputsAssumption == Inputs \subseteq [PE -> [PE -> Nat]]

VARIABLES
  pc,        \* the phase a PE is in
  pass,      \* its pass, from 0
  lpwgts,    \* lpwgts[p][a]: what PE p holds of part a
  mylpwgts,  \* the same without the parts that are taken
  recv,      \* the offers p has still to look at, in its order
  map,       \* map[p][a]: the PE that gets part a, as p sees it, or -1
  rowmap,    \* rowmap[p][q]: the part that goes to PE q, or -1
  nmapped,   \* how many parts are mapped
  done,      \* done[p]: p has a part, and offers nothing any more
  next,      \* next[p]: the unmapped loop's j (part) and i (PE)
  where      \* where[p][a]: the new name of the vertices p has in part a

vars == <<pc, pass, lpwgts, mylpwgts, recv, map, rowmap, nmapped, done, next, where>>

SimilarTpwgts(a, b) == \A h \in 1..ncon : tpwgts[a][h] - tpwgts[b][h] \in -Tolerance..Tolerance

Init ==
  /\ lpwgts \in Inputs /\ mylpwgts = lpwgts
  /\ pc = [p \in PE |-> "offer"] /\ pass = [p \in PE |-> 0]
  /\ recv = [p \in PE |-> <<>>]
  /\ map = [p \in PE |-> [a \in PE |-> -1]] /\ rowmap = [p \in PE |-> [q \in PE |-> -1]]
  /\ nmapped = [p \in PE |-> 0] /\ done = [p \in PE |-> FALSE]
  /\ next = [p \in PE |-> [j |-> 0, i |-> 0]]
  /\ where = [p \in PE |-> [a \in PE |-> a]]

\* iargmax: the first of the heaviest.
Heaviest(w) == CHOOSE a \in PE : \A b \in PE : w[b] < w[a] \/ (w[b] = w[a] /\ a <= b)

\* A PE offers a part with its weight, or 0 when it has nothing to offer.
Offer(p) ==
  LET a == Heaviest(mylpwgts[p]) IN
  IF mylpwgts[p][a] > 0 /\ ~done[p] THEN [key |-> mylpwgts[p][a], pe |-> p, part |-> a]
  ELSE [key |-> 0, pe |-> p, part |-> -1]

Orders == {o \in SetToSeqs({Offer(p) : p \in PE}) :
             \A i, j \in DOMAIN o : i < j => o[i].key >= o[j].key}

GatherUnsynced ==
  /\ \A p \in PE : pc[p] = "offer"
  /\ recv' \in [PE -> Orders]
  /\ pc' = [p \in PE |-> IF recv'[p][1].key = 0 THEN "rest" ELSE "assign"]
  /\ UNCHANGED <<pass, lpwgts, mylpwgts, map, rowmap, nmapped, done, next, where>>

\* MPI_Allgather of the offers.  All PEs sort the same array with the same
\* code, so offers of the same weight come in the same order everywhere,
\* whichever it is.
Gather ==
  /\ \A p \in PE : pc[p] = "offer"
  /\ \E order \in Orders :
       /\ recv' = [p \in PE |-> order]
       /\ pc' = [p \in PE |-> IF order[1].key = 0 THEN "rest" ELSE "assign"]
  /\ UNCHANGED <<pass, lpwgts, mylpwgts, map, rowmap, nmapped, done, next, where>>

\* p gives part a to PE q.
Give(p, a, q) ==
  /\ map' = [map EXCEPT ![p][a] = q]
  /\ rowmap' = [rowmap EXCEPT ![p][q] = a]
  /\ nmapped' = [nmapped EXCEPT ![p] = @ + 1]

FreeAnyWeight(p, a, q) == map[p][a] = -1 /\ rowmap[p][q] = -1
Free(p, a, q)          == map[p][a] = -1 /\ rowmap[p][q] = -1 /\ SimilarTpwgts(a, q)

\* The next offer: it is accepted when neither the part nor the PE is taken.
Assign(p) ==
  /\ pc[p] = "assign" /\ recv[p] # <<>> /\ nmapped[p] < nparts
  /\ recv' = [recv EXCEPT ![p] = Tail(@)]
  /\ LET o == Head(recv[p]) IN
     IF o.part # -1 /\ Free(p, o.part, o.pe)
     THEN /\ Give(p, o.part, o.pe)
          /\ mylpwgts' = [mylpwgts EXCEPT ![p][o.part] = 0]
          /\ done' = [done EXCEPT ![p] = @ \/ o.pe = p]
     ELSE UNCHANGED <<map, rowmap, nmapped, mylpwgts, done>>
  /\ UNCHANGED <<pc, pass, lpwgts, next, where>>

\* No offers are left, or no parts: the next pass or the unmapped parts.
EndPass(p) ==
  /\ pc[p] = "assign" /\ (recv[p] = <<>> \/ nmapped[p] = nparts)
  /\ pass' = [pass EXCEPT ![p] = @ + 1]
  /\ recv' = [recv EXCEPT ![p] = <<>>]
  /\ pc' = [pc EXCEPT ![p] = IF nmapped[p] = nparts \/ pass[p] + 1 = npasses
                             THEN "rest" ELSE "offer"]
  /\ UNCHANGED <<lpwgts, mylpwgts, map, rowmap, nmapped, done, next, where>>

\* The loop over the unmapped parts: part j goes to the first PE from i on
\* that is free and similar.  i never goes back, also not over a PE that was
\* passed over for its weights only.
Rest(p) ==
  LET j == next[p].j
      Fit == {i \in next[p].i..(nparts - 1) : Free(p, j, i)}
      first == CHOOSE i \in Fit : \A k \in Fit : i <= k
  IN  /\ pc[p] = "rest" /\ j < nparts /\ nmapped[p] < nparts
      /\ IF Fit # {}
         THEN /\ Give(p, j, first)
              /\ next' = [next EXCEPT ![p] = [j |-> j + 1, i |-> first]]
         ELSE /\ next' = [next EXCEPT ![p] =
                   [j |-> j + 1, i |-> IF map[p][j] = -1 THEN nparts ELSE @.i]]
              /\ UNCHANGED <<map, rowmap, nmapped>>
      /\ UNCHANGED <<pc, pass, lpwgts, mylpwgts, recv, done, where>>

Identity == [a \in PE |-> a]

\* When some part found no PE the parts keep their names.
EndRest(p) ==
  /\ pc[p] = "rest" /\ (next[p].j = nparts \/ nmapped[p] = nparts)
  /\ IF nmapped[p] < nparts
     THEN /\ map' = [map EXCEPT ![p] = Identity]
          /\ pc' = [pc EXCEPT ![p] = "apply"]
     ELSE /\ pc' = [pc EXCEPT ![p] = "saving"]
          /\ UNCHANGED map
  /\ UNCHANGED <<pass, lpwgts, mylpwgts, recv, rowmap, nmapped, done, next, where>>

\* What PE p saves.
nsaved(p) == lpwgts[p][rowmap[p][p]] - lpwgts[p][p]

\* GlobalSESum of the savings: without any the parts keep their names.
Saving ==
  /\ \A p \in PE : pc[p] = "saving"
  /\ LET gnsaved == FoldSet(LAMBDA p, s : s + nsaved(p), 0, PE) IN
     map' = IF gnsaved <= 0 THEN [p \in PE |-> Identity] ELSE map
  /\ pc' = [p \in PE |-> "apply"]
  /\ UNCHANGED <<pass, lpwgts, mylpwgts, recv, rowmap, nmapped, done, next, where>>

\* ParallelReMapGraph renames the parts of p's vertices.
Apply(p) ==
  /\ pc[p] = "apply"
  /\ where' = [where EXCEPT ![p] = [a \in PE |-> map[p][a]]]
  /\ pc' = [pc EXCEPT ![p] = "done"]
  /\ UNCHANGED <<pass, lpwgts, mylpwgts, recv, map, rowmap, nmapped, done, next>>

Step(p) == Assign(p) \/ EndPass(p) \/ Rest(p) \/ EndRest(p) \/ Apply(p)

Terminated == \A p \in PE : pc[p] = "done"

Next == (\E p \in PE : Step(p)) \/ Gather \/ Saving \/ (Terminated /\ UNCHANGED vars)

Spec == Init /\ [][Next]_vars

-----------------------------------------------------------------------------
(* Properties *)

\* The arrays have their ranges, and no PE is out of the pass loop's bound.
TypeOK ==
  /\ pc \in [PE -> {"offer", "assign", "rest", "saving", "apply", "done"}]
  /\ pass \in [PE -> 0..npasses]
  /\ lpwgts \in [PE -> [PE -> Nat]] /\ mylpwgts \in [PE -> [PE -> Nat]]
  /\ map \in [PE -> [PE -> PE \cup {-1}]] /\ rowmap \in [PE -> [PE -> PE \cup {-1}]]
  /\ nmapped \in [PE -> 0..nparts]
  /\ next \in [PE -> [j : 0..nparts, i : 0..nparts]]
  /\ where \in [PE -> [PE -> PE]]

\* Renaming loses no part, in whatever pass or loop a part found its PE: no
\* two parts end under one name, and a part takes the name of one that may
\* weigh as much, so a balanced partition stays balanced.
NoPartLost == \A p \in PE :
  /\ \A a, b \in PE : where[p][a] = where[p][b] => a = b
  /\ \A a \in PE : where[p][a] = a \/ SimilarTpwgts(a, where[p][a])

\* Every PE builds the map for itself, yet the vertices of one part keep a
\* common name wherever they are.
SameNames == Terminated => \A p, q \in PE : where[p] = where[q]
=============================================================================
