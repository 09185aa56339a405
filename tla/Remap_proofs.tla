---------------------------- MODULE Remap_proofs ----------------------------
(***************************************************************************)
(* Proofs about Remap, for any number of parts, weights, targets and       *)
(* passes: the arrays keep their ranges and renaming loses no part.  As    *)
(* long as a PE builds its map, map and rowmap are inverse to each other   *)
(* and nmapped counts the parts that have a PE; so when all are counted    *)
(* the map is a permutation, and when they are not it is not used.         *)
(***************************************************************************)
EXTENDS Remap, FiniteSetTheorems, WellFoundedInduction, TLAPS

\* Offers have the weight of a part and name it, or name none.
Offers == [key : Nat, pe : PE, part : PE \cup {-1}]

\* A map that may be used: a permutation between similar parts.
Usable(m) == /\ m \in [PE -> PE]
             /\ \A a, b \in PE : m[a] = m[b] => a = b
             /\ \A a \in PE : m[a] = a \/ SimilarTpwgts(a, m[a])

Mapped(p) == {a \in PE : map[p][a] # -1}

\* map and rowmap are inverse, similar parts are exchanged, nmapped counts.
Building(p) ==
  /\ \A a, q \in PE : map[p][a] = q <=> rowmap[p][q] = a
  /\ \A a \in Mapped(p) : SimilarTpwgts(a, map[p][a])
  /\ nmapped[p] = Cardinality(Mapped(p))

PhaseInv == \A p \in PE :
  /\ pc[p] \in {"offer", "assign"} => pass[p] < npasses
  /\ pc[p] \in {"offer", "assign", "rest", "saving"} => Building(p)
  /\ pc[p] = "saving" => nmapped[p] = nparts
  /\ pc[p] \in {"apply", "done"} => Usable(map[p])
  /\ where[p] = IF pc[p] = "done" THEN map[p] ELSE Identity

IInv == TypeOK /\ recv \in [PE -> Seq(Offers)] /\ PhaseInv

\* There are nparts parts.
LEMMA PEs == /\ IsFiniteSet(PE) /\ Cardinality(PE) = nparts
             /\ PE \subseteq Nat /\ 0 \in PE
<1>1. nparts \in Nat /\ 0 \in Int /\ nparts - 1 \in Int /\ nparts >= 1
  BY NpartsAssumption
<1>2. IsFiniteSet(PE) /\ Cardinality(PE) = IF 0 > nparts - 1 THEN 0 ELSE (nparts - 1) - 0 + 1
  BY <1>1, FS_Interval, Zenon DEF PE
<1>3. PE \subseteq Nat /\ 0 \in PE
  BY <1>1 DEF PE
<1> QED BY <1>1, <1>2, <1>3

\* Among finitely many sets one has none of the others below it.
LEMMA Minimal ==
  ASSUME NEW T, T \subseteq SUBSET PE, T # {}
  PROVE  \E X \in T : \A Y \in T : ~(Y \subseteq X /\ Y # X)
<1>1. IsWellFoundedOn(StrictSubsetOrdering(PE), SUBSET PE)
  BY PEs, FS_StrictSubsetOrderingWellFounded, FS_FiniteSubsetsOfFinite
<1>2. PICK X \in T : \A Y \in T : <<Y, X>> \notin StrictSubsetOrdering(PE)
  BY <1>1, WFMin, Zenon
<1>3. \A Y \in T : ~(Y \subseteq X /\ Y # X)
  BY <1>2 DEF StrictSubsetOrdering
<1> QED BY <1>3, Zenon

\* A set of parts has a first one.
LEMMA First ==
  ASSUME NEW S, S \subseteq PE, S # {}
  PROVE  \E i \in S : \A k \in S : i <= k
<1> DEFINE Below(i) == {k \in PE : k < i}
           T == {Below(i) : i \in S}
<1>1. PICK X \in T : \A Y \in T : ~(Y \subseteq X /\ Y # X)
  <2>1. T \subseteq SUBSET PE /\ T # {}
    OBVIOUS
  <2> HIDE DEF T
  <2> QED BY <2>1, Minimal
<1>2. PICK i \in S : X = Below(i)
  BY Zenon
<1>3. S \subseteq Nat
  BY PEs
<1>4. ASSUME NEW k \in S, k < i PROVE FALSE
  <2>1. ASSUME NEW j \in Below(k) PROVE j \in Below(i)
    BY <1>3, <1>4, <2>1, PEs
  <2>2. k \in Below(i) /\ k \notin Below(k)
    BY <1>3, <1>4
  <2>3. Below(k) \in T
    OBVIOUS
  <2> HIDE DEF Below, T
  <2> QED BY <2>1, <2>2, <2>3, <1>1, <1>2
<1> QED BY <1>3, <1>4

\* iargmax finds a part.
LEMMA HeaviestIsPart ==
  ASSUME NEW w \in [PE -> Nat]
  PROVE  Heaviest(w) \in PE
<1> DEFINE Above(a) == {b \in PE : w[b] > w[a] \/ (w[b] = w[a] /\ b < a)}
           T == {Above(a) : a \in PE}
<1>1. PICK X \in T : \A Y \in T : ~(Y \subseteq X /\ Y # X)
  <2>1. T \subseteq SUBSET PE
    BY Zenon
  <2>2. Above(0) \in T
    BY PEs, Zenon
  <2>3. T # {}
    BY <2>2
  <2> HIDE DEF T
  <2> QED BY <2>1, <2>3, Minimal
<1>2. PICK a \in PE : X = Above(a)
  BY Zenon
<1>3. PE \subseteq Nat /\ \A b \in PE : w[b] \in Nat
  BY PEs
<1>4. ASSUME NEW b \in PE, b \in Above(a) PROVE FALSE
  <2>1. w[b] > w[a] \/ (w[b] = w[a] /\ b < a)
    BY <1>4
  <2>2. ASSUME NEW d \in Above(b) PROVE d \in Above(a)
    BY <1>3, <2>1, <2>2
  <2>3. b \notin Above(b)
    BY <1>3
  <2>4. Above(b) \in T
    BY Zenon
  <2> HIDE DEF Above, T
  <2> QED BY <2>2, <2>3, <2>4, <1>1, <1>2, <1>4
<1>5. \A b \in PE : w[b] < w[a] \/ (w[b] = w[a] /\ a <= b)
  BY <1>3, <1>4
<1> QED BY <1>5, Zenon DEF Heaviest

\* The parts that have a PE can be counted.
LEMMA CountMapped ==
  ASSUME NEW p \in PE
  PROVE  /\ IsFiniteSet(Mapped(p)) /\ Cardinality(Mapped(p)) \in 0..nparts
         /\ Cardinality(Mapped(p)) = nparts => Mapped(p) = PE
<1>1. Mapped(p) \in SUBSET PE
  BY DEF Mapped
<1>2. /\ IsFiniteSet(Mapped(p)) /\ Cardinality(Mapped(p)) <= Cardinality(PE)
      /\ Cardinality(PE) = Cardinality(Mapped(p)) => PE = Mapped(p)
  BY <1>1, PEs, FS_Subset, Zenon
<1>3. Cardinality(Mapped(p)) \in Nat
  BY <1>2, FS_CardinalityType, Zenon
<1> QED BY <1>2, <1>3, PEs, NpartsAssumption

\* Giving a free part to a free PE keeps map and rowmap inverse.
LEMMA GiveBuilds ==
  ASSUME TypeOK, NEW p \in PE, NEW a \in PE, NEW q \in PE, Building(p),
         Free(p, a, q), Give(p, a, q)
  PROVE  /\ Building(p)' /\ nmapped'[p] \in 0..nparts
         /\ map' \in [PE -> [PE -> PE \cup {-1}]] /\ rowmap' \in [PE -> [PE -> PE \cup {-1}]]
         /\ nmapped' \in [PE -> 0..nparts]
<1>1. /\ map \in [PE -> [PE -> PE \cup {-1}]] /\ rowmap \in [PE -> [PE -> PE \cup {-1}]]
      /\ nmapped \in [PE -> 0..nparts]
  BY DEF TypeOK
<1>2. /\ map' = [map EXCEPT ![p] = [map[p] EXCEPT ![a] = q]]
      /\ rowmap' = [rowmap EXCEPT ![p] = [rowmap[p] EXCEPT ![q] = a]]
      /\ nmapped' = [nmapped EXCEPT ![p] = nmapped[p] + 1]
  BY DEF Give
<1>3. /\ map' \in [PE -> [PE -> PE \cup {-1}]] /\ rowmap' \in [PE -> [PE -> PE \cup {-1}]]
      /\ map'[p] = [map[p] EXCEPT ![a] = q] /\ rowmap'[p] = [rowmap[p] EXCEPT ![q] = a]
      /\ nmapped'[p] = nmapped[p] + 1
  BY <1>1, <1>2
<1>4. map[p][a] = -1 /\ rowmap[p][q] = -1 /\ SimilarTpwgts(a, q) /\ -1 \notin PE
  BY PEs DEF Free
<1>5. \A b, r \in PE : map'[p][b] = r <=> rowmap'[p][r] = b
  BY <1>1, <1>3, <1>4 DEF Building
<1>6. Mapped(p)' = Mapped(p) \cup {a} /\ a \notin Mapped(p)
  BY <1>1, <1>3, <1>4 DEF Mapped
<1>7. \A b \in Mapped(p)' : SimilarTpwgts(b, map'[p][b])
  BY <1>1, <1>3, <1>4, <1>6 DEF Building, Mapped
<1>8. nmapped'[p] = Cardinality(Mapped(p)')
  <2>1. Cardinality(Mapped(p) \cup {a}) = Cardinality(Mapped(p)) + 1
    BY <1>6, CountMapped, FS_AddElement, Zenon
  <2> QED BY <1>3, <1>6, <2>1 DEF Building
<1>9. Mapped(p)' \in SUBSET PE
  BY DEF Mapped
<1>10. /\ IsFiniteSet(Mapped(p)') /\ Cardinality(Mapped(p)') <= Cardinality(PE)
  BY <1>9, PEs, FS_Subset, Zenon
<1>11. Cardinality(Mapped(p)') \in Nat
  BY <1>10, FS_CardinalityType, Zenon
<1>12. nmapped'[p] \in 0..nparts
  BY <1>8, <1>10, <1>11, PEs, NpartsAssumption
<1>13. nmapped' \in [PE -> 0..nparts]
  BY <1>1, <1>2, <1>3, <1>12
<1> QED BY <1>3, <1>5, <1>7, <1>8, <1>12, <1>13 DEF Building

\* What a PE has built stays as it is when others act.
LEMMA StaysBuilt ==
  ASSUME NEW p \in PE, map'[p] = map[p], rowmap'[p] = rowmap[p], nmapped'[p] = nmapped[p]
  PROVE  Building(p) <=> Building(p)'
<1>1. Mapped(p)' = Mapped(p)
  BY DEF Mapped
<1> QED BY <1>1 DEF Building

\* A finished map is a permutation: every part has a PE, and no two parts
\* have the same.
LEMMA FullMapUsable ==
  ASSUME TypeOK, NEW p \in PE, Building(p), nmapped[p] = nparts
  PROVE  Usable(map[p])
<1>1. Mapped(p) = PE
  BY CountMapped DEF Building
<1>2. map[p] \in [PE -> PE]
  <2>1. map[p] \in [PE -> PE \cup {-1}] /\ \A a \in PE : map[p][a] # -1
    BY <1>1 DEF TypeOK, Mapped
  <2> QED BY <2>1
<1>3. ASSUME NEW a \in PE, NEW b \in PE, map[p][a] = map[p][b] PROVE a = b
  <2>1. rowmap[p][map[p][a]] = a /\ rowmap[p][map[p][a]] = b
    BY <1>2, <1>3 DEF Building
  <2> QED BY <2>1
<1>4. \A a \in PE : SimilarTpwgts(a, map[p][a])
  BY <1>1 DEF Building
<1> QED BY <1>2, <1>3, <1>4 DEF Usable

LEMMA IdentityUsable == Usable(Identity)
BY DEF Usable, Identity

-----------------------------------------------------------------------------
\* At first nothing is mapped.
LEMMA InitInv == Init => IInv
<1> SUFFICES ASSUME Init PROVE IInv
  OBVIOUS
<1>1. TypeOK
  BY InputsAssumption, NpartsAssumption, PEs DEF Init, TypeOK
<1>2. recv \in [PE -> Seq(Offers)]
  BY DEF Init
<1>3. \A p \in PE : Building(p)
  <2> TAKE p \in PE
  <2>1. Mapped(p) = {} /\ -1 \notin PE
    BY PEs DEF Mapped, Init
  <2>2. Cardinality(Mapped(p)) = 0
    BY <2>1, FS_EmptySet, Zenon
  <2> QED BY <2>1, <2>2 DEF Building, Init
<1>4. PhaseInv
  BY <1>3, NpartsAssumption DEF PhaseInv, Init, Identity
<1> QED BY <1>1, <1>2, <1>4 DEF IInv

\* Gathered offers are offers.
LEMMA GatherInv == ASSUME IInv, Gather PROVE IInv'
<1> USE DEF IInv
<1>1. \A p \in PE : Offer(p) \in Offers
  <2> TAKE p \in PE
  <2>1. mylpwgts[p] \in [PE -> Nat]
    BY DEF TypeOK
  <2>2. Heaviest(mylpwgts[p]) \in PE
    BY <2>1, HeaviestIsPart
  <2>3. mylpwgts[p][Heaviest(mylpwgts[p])] \in Nat
    BY <2>1, <2>2
  <2> QED BY <2>2, <2>3 DEF Offer, Offers
<1>2. PICK order \in Orders :
        /\ recv' = [p \in PE |-> order]
        /\ pc' = [p \in PE |-> IF order[1].key = 0 THEN "rest" ELSE "assign"]
  BY DEF Gather
<1>3. order \in Seq(Offers)
  <2> DEFINE S == {Offer(p) : p \in PE}
  <2>1. order \in [1..Cardinality(S) -> S]
    BY DEF Orders, SetToSeqs
  <2>2. S \subseteq Offers
    BY <1>1
  <2>3. IsFiniteSet(S)
    <3> DEFINE f == [p \in PE |-> Offer(p)]
    <3>1. f \in Surjection(PE, S)
      BY DEF Surjection
    <3> HIDE DEF f, S
    <3> QED BY <3>1, PEs, FS_Surjection, Zenon
  <2>4. Cardinality(S) \in Nat
    BY <2>3, FS_CardinalityType, Zenon
  <2> HIDE DEF S
  <2> QED BY <2>1, <2>2, <2>4
<1>4. recv' \in [PE -> Seq(Offers)]
  BY <1>2, <1>3
<1>5. TypeOK'
  BY <1>2 DEF Gather, TypeOK
<1>6. PhaseInv'
  <2> SUFFICES ASSUME NEW p \in PE
               PROVE /\ pc'[p] \in {"offer", "assign"} => pass'[p] < npasses
                     /\ Building(p)' /\ pc'[p] \in {"assign", "rest"}
                     /\ where'[p] = Identity
    BY DEF PhaseInv
  <2>1. pc[p] = "offer" /\ pc'[p] \in {"assign", "rest"}
    BY <1>2 DEF Gather
  <2>2. Building(p)'
    BY <2>1, StaysBuilt DEF PhaseInv, Gather
  <2> QED BY <2>1, <2>2 DEF PhaseInv, Gather
<1> QED BY <1>4, <1>5, <1>6

\* An offer is taken or refused.
LEMMA AssignInv == ASSUME IInv, NEW p \in PE, Assign(p) PROVE IInv'
<1> USE DEF IInv
<1>1. /\ pc[p] = "assign" /\ Building(p) /\ pass[p] < npasses /\ where[p] = Identity
      /\ recv[p] \in Seq(Offers) /\ recv[p] # <<>>
  BY DEF Assign, PhaseInv
<1>2. Head(recv[p]) \in Offers /\ Tail(recv[p]) \in Seq(Offers)
  BY <1>1
<1>3. recv' \in [PE -> Seq(Offers)]
  BY <1>2 DEF Assign
<1>4. /\ \A r \in PE \ {p} : map'[r] = map[r] /\ rowmap'[r] = rowmap[r] /\ nmapped'[r] = nmapped[r]
      /\ pc' = pc /\ pass' = pass /\ where' = where
  BY DEF Assign, Give, TypeOK
<1>5. Building(p)' /\ TypeOK'
  <2>1. CASE Head(recv[p]).part # -1 /\ Free(p, Head(recv[p]).part, Head(recv[p]).pe)
    <3>1. /\ Head(recv[p]).part \in PE /\ Head(recv[p]).pe \in PE
          /\ Give(p, Head(recv[p]).part, Head(recv[p]).pe)
      BY <1>2, <2>1 DEF Assign, Offers
    <3>2. /\ Building(p)' /\ nmapped' \in [PE -> 0..nparts]
          /\ map' \in [PE -> [PE -> PE \cup {-1}]] /\ rowmap' \in [PE -> [PE -> PE \cup {-1}]]
      BY <1>1, <2>1, <3>1, GiveBuilds, Zenon
    <3>3. mylpwgts' \in [PE -> [PE -> Nat]]
      <4> DEFINE a == Head(recv[p]).part
      <4>1. mylpwgts' = [mylpwgts EXCEPT ![p] = [mylpwgts[p] EXCEPT ![a] = 0]]
        BY <2>1 DEF Assign
      <4>2. mylpwgts \in [PE -> [PE -> Nat]] /\ a \in PE
        BY <3>1 DEF TypeOK
      <4> HIDE DEF a, IInv
      <4>3. [mylpwgts[p] EXCEPT ![a] = 0] \in [PE -> Nat]
        BY <4>2
      <4> QED BY <4>1, <4>2, <4>3
    <3> QED BY <3>2, <3>3 DEF Assign, TypeOK
  <2>2. CASE ~(Head(recv[p]).part # -1 /\ Free(p, Head(recv[p]).part, Head(recv[p]).pe))
    <3>1. UNCHANGED <<map, rowmap, nmapped, mylpwgts>>
      BY <2>2 DEF Assign
    <3>2. Building(p)'
      BY <1>1, <3>1, StaysBuilt
    <3> QED BY <3>1, <3>2 DEF Assign, TypeOK
  <2> QED BY <2>1, <2>2
<1>6. PhaseInv'
  <2> SUFFICES ASSUME NEW r \in PE
               PROVE  PhaseInv!(r)'
    BY DEF PhaseInv
  <2>1. CASE r = p
    BY <1>1, <1>4, <1>5, <2>1 DEF PhaseInv
  <2>2. CASE r # p
    BY <1>4, <2>2, StaysBuilt DEF PhaseInv
  <2> QED BY <2>1, <2>2
<1> QED BY <1>3, <1>5, <1>6

\* The map is left alone between the passes.
LEMMA EndPassInv == ASSUME IInv, NEW p \in PE, EndPass(p) PROVE IInv'
<1> USE DEF IInv
<1>1. /\ pc[p] = "assign" /\ Building(p) /\ pass[p] < npasses
      /\ pc'[p] \in {"rest", "offer"} /\ (pc'[p] = "offer" => pass[p] + 1 # npasses)
      /\ pass'[p] = pass[p] + 1 /\ pass[p] \in Nat
  BY DEF EndPass, PhaseInv, TypeOK
<1>2. TypeOK' /\ recv' \in [PE -> Seq(Offers)]
  <2>1. pass[p] + 1 \in 0..npasses
    BY <1>1, NpartsAssumption
  <2>2. pass' \in [PE -> 0..npasses]
    BY <2>1 DEF EndPass, TypeOK
  <2>3. pc' \in [PE -> {"offer", "assign", "rest", "saving", "apply", "done"}]
    BY DEF EndPass, TypeOK
  <2>4. recv' \in [PE -> Seq(Offers)]
    BY DEF EndPass
  <2> QED BY <2>2, <2>3, <2>4 DEF EndPass, TypeOK
<1>3. \A r \in PE \ {p} : pc'[r] = pc[r] /\ pass'[r] = pass[r]
  BY DEF EndPass, TypeOK
<1>4. PhaseInv'
  <2> SUFFICES ASSUME NEW r \in PE
               PROVE  PhaseInv!(r)'
    BY DEF PhaseInv
  <2>0. Building(r) <=> Building(r)'
    BY StaysBuilt DEF EndPass
  <2>1. CASE r = p
    BY <1>1, <2>0, <2>1, NpartsAssumption DEF PhaseInv, EndPass
  <2>2. CASE r # p
    BY <1>3, <2>0, <2>2 DEF PhaseInv, EndPass
  <2> QED BY <2>1, <2>2
<1> QED BY <1>2, <1>4

\* The loop over the unmapped parts builds on.
LEMMA RestInv == ASSUME IInv, NEW p \in PE, Rest(p) PROVE IInv'
<1> USE DEF IInv
<1> DEFINE j == next[p].j
           Fit == {i \in next[p].i..(nparts - 1) : Free(p, j, i)}
           first == CHOOSE i \in Fit : \A k \in Fit : i <= k
<1>1. /\ pc[p] = "rest" /\ Building(p) /\ where[p] = Identity
      /\ next[p] \in [j : 0..nparts, i : 0..nparts] /\ j \in PE
  <2>1. pc[p] = "rest" /\ next[p].j < nparts
    BY DEF Rest
  <2>2. Building(p) /\ where[p] = Identity
    BY <2>1 DEF PhaseInv
  <2>3. next[p] \in [j : 0..nparts, i : 0..nparts]
    BY DEF TypeOK
  <2>4. j \in PE
    BY <2>1, <2>3, NpartsAssumption DEF PE
  <2> QED BY <2>1, <2>2, <2>3, <2>4
<1>2. /\ Fit # {} => /\ Give(p, j, first)
                     /\ next' = [next EXCEPT ![p] = [j |-> j + 1, i |-> first]]
      /\ Fit = {} => /\ UNCHANGED <<map, rowmap, nmapped>>
                     /\ next' = [next EXCEPT ![p] =
                          [j |-> j + 1, i |-> IF map[p][j] = -1 THEN nparts ELSE next[p].i]]
      /\ UNCHANGED <<pc, pass, lpwgts, mylpwgts, recv, done, where>>
  BY DEF Rest
<1>3. Fit # {} => first \in PE /\ Free(p, j, first)
  <2>1. Fit \subseteq PE
    BY <1>1 DEF PE
  <2>2. Fit # {} => first \in Fit
    BY <2>1, First
  <2> QED BY <2>1, <2>2
<1> HIDE DEF Fit, first
<1>4. \A r \in PE \ {p} : map'[r] = map[r] /\ rowmap'[r] = rowmap[r] /\ nmapped'[r] = nmapped[r]
  BY <1>2 DEF Give, TypeOK
<1>5. /\ Building(p)' /\ nmapped' \in [PE -> 0..nparts]
      /\ map' \in [PE -> [PE -> PE \cup {-1}]] /\ rowmap' \in [PE -> [PE -> PE \cup {-1}]]
  <2>1. CASE Fit # {}
    BY <1>1, <1>2, <1>3, <2>1, GiveBuilds, Zenon
  <2>2. CASE Fit = {}
    <3>1. UNCHANGED <<map, rowmap, nmapped>>
      BY <1>2, <2>2
    <3>2. Building(p)'
      BY <1>1, <3>1, StaysBuilt
    <3> QED BY <3>1, <3>2 DEF TypeOK
  <2> QED BY <2>1, <2>2
<1>6. next' \in [PE -> [j : 0..nparts, i : 0..nparts]]
  <2>1. j + 1 \in 0..nparts /\ next[p].i \in 0..nparts /\ nparts \in 0..nparts
    BY <1>1, NpartsAssumption DEF PE
  <2>2. Fit # {} => first \in 0..nparts
    BY <1>3, NpartsAssumption DEF PE
  <2>3. PICK i \in 0..nparts : next' = [next EXCEPT ![p] = [j |-> j + 1, i |-> i]]
    BY <1>2, <2>1, <2>2
  <2> QED BY <2>1, <2>3 DEF TypeOK
<1>7. TypeOK' /\ recv' \in [PE -> Seq(Offers)]
  BY <1>2, <1>5, <1>6 DEF TypeOK
<1>8. PhaseInv'
  <2> SUFFICES ASSUME NEW r \in PE
               PROVE  PhaseInv!(r)'
    BY DEF PhaseInv
  <2>1. CASE r = p
    BY <1>1, <1>2, <1>5, <2>1 DEF PhaseInv
  <2>2. CASE r # p
    BY <1>2, <1>4, <2>2, StaysBuilt DEF PhaseInv
  <2> QED BY <2>1, <2>2
<1> QED BY <1>7, <1>8

\* A map with a gap is given up; one without is a permutation.
LEMMA EndRestInv == ASSUME IInv, NEW p \in PE, EndRest(p) PROVE IInv'
<1> USE DEF IInv
<1>1. pc[p] = "rest" /\ Building(p) /\ where[p] = Identity /\ nmapped[p] \in 0..nparts
  BY DEF EndRest, PhaseInv, TypeOK
<1>2. /\ UNCHANGED <<pass, lpwgts, mylpwgts, recv, rowmap, nmapped, done, next, where>>
      /\ \A r \in PE \ {p} : map'[r] = map[r] /\ pc'[r] = pc[r]
  BY DEF EndRest, TypeOK
<1>3. \/ map'[p] = Identity /\ pc'[p] = "apply"
      \/ map'[p] = map[p] /\ pc'[p] = "saving" /\ nmapped[p] = nparts
  BY <1>1, NpartsAssumption DEF EndRest, TypeOK
<1>4. pc' \in [PE -> {"offer", "assign", "rest", "saving", "apply", "done"}]
  BY DEF EndRest, TypeOK
<1>5. map' \in [PE -> [PE -> PE \cup {-1}]]
  <2>1. Identity \in [PE -> PE \cup {-1}]
    BY DEF Identity
  <2>2. map' = map \/ map' = [map EXCEPT ![p] = Identity]
    BY DEF EndRest
  <2>3. map \in [PE -> [PE -> PE \cup {-1}]]
    BY DEF TypeOK
  <2> HIDE DEF IInv
  <2> QED BY <2>1, <2>2, <2>3
<1>6. TypeOK' /\ recv' \in [PE -> Seq(Offers)]
  BY <1>2, <1>4, <1>5 DEF TypeOK
<1>7. PhaseInv'
  <2> SUFFICES ASSUME NEW r \in PE
               PROVE  PhaseInv!(r)'
    BY DEF PhaseInv
  <2>1. CASE r # p
    BY <1>2, <2>1, StaysBuilt DEF PhaseInv
  <2>2. CASE r = p /\ map'[p] = Identity /\ pc'[p] = "apply"
    BY <1>1, <1>2, <2>2, IdentityUsable DEF PhaseInv
  <2>3. CASE r = p /\ map'[p] = map[p] /\ pc'[p] = "saving" /\ nmapped[p] = nparts
    <3>1. Building(p)'
      BY <1>1, <1>2, <2>3, StaysBuilt
    <3> QED BY <1>1, <1>2, <2>3, <3>1 DEF PhaseInv
  <2> QED BY <1>3, <2>1, <2>2, <2>3
<1> QED BY <1>6, <1>7

\* Whatever is saved, the map is a permutation.
LEMMA SavingInv == ASSUME IInv, Saving PROVE IInv'
<1> USE DEF IInv
<1>1. /\ pc' = [p \in PE |-> "apply"]
      /\ UNCHANGED <<pass, lpwgts, mylpwgts, recv, rowmap, nmapped, done, next, where>>
      /\ map' = [p \in PE |-> Identity] \/ map' = map
  BY DEF Saving
<1>2. \A p \in PE : Usable(map[p]) /\ where[p] = Identity
  <2> TAKE p \in PE
  <2>1. pc[p] = "saving"
    BY DEF Saving
  <2>2. Building(p) /\ nmapped[p] = nparts /\ where[p] = Identity
    BY <2>1 DEF PhaseInv
  <2> QED BY <2>2, FullMapUsable
<1>3. \A p \in PE : Usable(map'[p])
  BY <1>1, <1>2, IdentityUsable
<1>4. map' \in [PE -> [PE -> PE \cup {-1}]]
  BY <1>1 DEF TypeOK, Identity
<1>5. TypeOK' /\ recv' \in [PE -> Seq(Offers)]
  BY <1>1, <1>4 DEF TypeOK
<1>6. PhaseInv'
  BY <1>1, <1>2, <1>3 DEF PhaseInv
<1> QED BY <1>5, <1>6

\* The vertices get the names of the map.
LEMMA ApplyInv == ASSUME IInv, NEW p \in PE, Apply(p) PROVE IInv'
<1> USE DEF IInv
<1>1. pc[p] = "apply" /\ Usable(map[p])
  BY DEF Apply, PhaseInv
<1>2. [a \in PE |-> map[p][a]] = map[p] /\ map[p] \in [PE -> PE]
  BY <1>1 DEF Usable
<1>3. /\ UNCHANGED <<pass, lpwgts, mylpwgts, recv, map, rowmap, nmapped, done, next>>
      /\ pc' = [pc EXCEPT ![p] = "done"] /\ where' = [where EXCEPT ![p] = map[p]]
  BY <1>2 DEF Apply
<1>4. TypeOK' /\ recv' \in [PE -> Seq(Offers)]
  BY <1>2, <1>3 DEF TypeOK
<1>5. PhaseInv'
  <2> SUFFICES ASSUME NEW r \in PE
               PROVE  PhaseInv!(r)'
    BY DEF PhaseInv
  <2>1. CASE r # p
    <3>1. pc'[r] = pc[r] /\ where'[r] = where[r]
      BY <1>3, <2>1 DEF TypeOK
    <3> QED BY <1>3, <3>1, StaysBuilt DEF PhaseInv
  <2>2. CASE r = p
    <3>1. pc'[p] = "done" /\ where'[p] = map[p]
      BY <1>3 DEF TypeOK
    <3> QED BY <1>1, <1>3, <2>2, <3>1 DEF PhaseInv
  <2> QED BY <2>1, <2>2
<1> QED BY <1>4, <1>5

\* Nothing changes when nothing happens.
LEMMA StutterInv == ASSUME IInv, UNCHANGED vars PROVE IInv'
<1>1. UNCHANGED <<pc, pass, lpwgts, mylpwgts, recv, map, rowmap, nmapped, done, next, where>>
  BY DEF vars
<1>2. \A p \in PE : Building(p) <=> Building(p)'
  BY <1>1, StaysBuilt
<1> QED BY <1>1, <1>2 DEF IInv, TypeOK, PhaseInv

-----------------------------------------------------------------------------
\* The inductive invariant: while ParallelTotalVReMap builds its map, map and
\* rowmap are inverse and nmapped counts; a map in use is a permutation.
THEOREM Invariance == Spec => []IInv
<1>1. ASSUME IInv, [Next]_vars PROVE IInv'
  <2>1. ASSUME NEW p \in PE, Step(p) PROVE IInv'
    BY <1>1, <2>1, AssignInv, EndPassInv, RestInv, EndRestInv, ApplyInv, Zenon DEF Step
  <2> QED BY <1>1, <2>1, GatherInv, SavingInv, StutterInv, Zenon DEF Next
<1> QED BY InitInv, <1>1, PTL DEF Spec

\* The arrays of ParallelTotalVReMap keep their ranges in every pass.
THEOREM TypeCorrect == Spec => []TypeOK
<1>1. IInv => TypeOK
  BY DEF IInv
<1> QED BY Invariance, <1>1, PTL

\* Renaming never joins two parts and never exchanges dissimilar ones, for
\* any number of parts, any weights and any targets.
THEOREM PartsKept == Spec => []NoPartLost
<1>1. ASSUME IInv PROVE NoPartLost
  <2> SUFFICES ASSUME NEW p \in PE PROVE Usable(where[p])
    BY DEF NoPartLost, Usable
  <2>1. CASE pc[p] = "done"
    BY <1>1, <2>1 DEF IInv, PhaseInv
  <2>2. CASE pc[p] # "done"
    BY <1>1, <2>2, IdentityUsable DEF IInv, PhaseInv
  <2> QED BY <2>1, <2>2
<1> QED BY Invariance, <1>1, PTL

-----------------------------------------------------------------------------
(* The PEs build their maps at their own pace, but all by the same steps: *)
(* between two collective operations what a PE does next is a function of *)
(* its own arrays, which begin alike.  So of two PEs one is where the     *)
(* other will come, and where both wait they are the same.                *)

\* What a PE's next step depends on and changes, its own weights aside.
View(p) == [pc |-> pc[p], pass |-> pass[p], recv |-> recv[p], map |-> map[p],
            rowmap |-> rowmap[p], nmapped |-> nmapped[p], next |-> next[p], where |-> where[p]]

MayGive(s, a, q) == s.map[a] = -1 /\ s.rowmap[q] = -1 /\ SimilarTpwgts(a, q)
Given(s, a, q)   == [s EXCEPT !.map = [@ EXCEPT ![a] = q], !.rowmap = [@ EXCEPT ![q] = a],
                              !.nmapped = @ + 1]
FirstOf(F)       == CHOOSE i \in F : \A k \in F : i <= k
FitsOf(s)        == {i \in s.next.i..(nparts - 1) : MayGive(s, s.next.j, i)}

AfterOffer(s) ==
  LET o == Head(s.recv)
      t == [s EXCEPT !.recv = Tail(@)]
  IN  IF o.part # -1 /\ MayGive(s, o.part, o.pe) THEN Given(t, o.part, o.pe) ELSE t
AfterPass(s) ==
  [s EXCEPT !.pass = @ + 1, !.recv = <<>>,
            !.pc = IF s.nmapped = nparts \/ s.pass + 1 = npasses THEN "rest" ELSE "offer"]
AfterPart(s) ==
  IF FitsOf(s) # {}
  THEN [Given(s, s.next.j, FirstOf(FitsOf(s))) EXCEPT
          !.next = [j |-> s.next.j + 1, i |-> FirstOf(FitsOf(s))]]
  ELSE [s EXCEPT !.next = [j |-> s.next.j + 1,
                           i |-> IF s.map[s.next.j] = -1 THEN nparts ELSE s.next.i]]
AfterRest(s) == IF s.nmapped < nparts THEN [s EXCEPT !.map = Identity, !.pc = "apply"]
                ELSE [s EXCEPT !.pc = "saving"]
AfterApply(s) == [s EXCEPT !.where = [a \in PE |-> s.map[a]], !.pc = "done"]

\* The next step of a PE in state s; none where it waits for the others.
After(s) ==
  IF s.pc = "assign"
  THEN IF s.recv # <<>> /\ s.nmapped < nparts THEN AfterOffer(s) ELSE AfterPass(s)
  ELSE IF s.pc = "rest"
  THEN IF s.next.j < nparts /\ s.nmapped < nparts THEN AfterPart(s) ELSE AfterRest(s)
  ELSE IF s.pc = "apply" THEN AfterApply(s) ELSE s

\* A PE in state s comes to state t by itself.
Comes(s, t) == \A S : s \in S /\ (\A x \in S : After(x) \in S) => t \in S

Together == \A p, q \in PE : Comes(View(p), View(q)) \/ Comes(View(q), View(p))

LEMMA ComesToItself == \A s : Comes(s, s)
BY DEF Comes

\* Who is on the way stays on the way when the one in front goes on.
LEMMA ComesFurther ==
  ASSUME NEW s, NEW t, Comes(s, t)
  PROVE  Comes(s, After(t))
BY DEF Comes

\* The one behind goes on towards the one in front.
LEMMA ComesNearer ==
  ASSUME NEW s, NEW t, Comes(s, t)
  PROVE  Comes(After(s), t) \/ s = t
<1> SUFFICES ASSUME s # t, NEW S, After(s) \in S, \A x \in S : After(x) \in S
             PROVE  t \in S
  BY DEF Comes
<1>1. t \in S \cup {s}
  <2>1. \A x \in S \cup {s} : After(x) \in S \cup {s}
    OBVIOUS
  <2> QED BY <2>1 DEF Comes
<1> QED BY <1>1

\* Who waits comes nowhere else.
LEMMA WaitsThere ==
  ASSUME NEW s, NEW t, Comes(s, t), After(s) = s
  PROVE  s = t
<1>1. t \in {s}
  BY DEF Comes
<1> QED BY <1>1

\* A step of one PE keeps it together with the others.
LEMMA StepTogether ==
  ASSUME Together, NEW p \in PE, View(p)' = After(View(p)),
         \A q \in PE \ {p} : View(q)' = View(q)
  PROVE  Together'
<1> SUFFICES ASSUME NEW q \in PE, q # p
             PROVE  Comes(After(View(p)), View(q)) \/ Comes(View(q), After(View(p)))
  BY ComesToItself DEF Together
<1>1. CASE Comes(View(q), View(p))
  BY <1>1, ComesFurther
<1>2. CASE Comes(View(p), View(q))
  <2>1. CASE View(p) = View(q)
    BY <2>1, ComesToItself, ComesFurther
  <2>2. CASE View(p) # View(q)
    BY <1>2, <2>2, ComesNearer
  <2> QED BY <2>1, <2>2
<1> QED BY <1>1, <1>2 DEF Together

\* PEs that wait for each other have the same arrays.
LEMMA WaitTogether ==
  ASSUME Together, NEW p \in PE, NEW q \in PE,
         pc[p] \in {"offer", "saving", "done"}, pc[q] \in {"offer", "saving", "done"}
  PROVE  View(p) = View(q)
<1>1. After(View(p)) = View(p) /\ After(View(q)) = View(q)
  BY DEF After, View
<1> QED BY <1>1, WaitsThere DEF Together

LEMMA Alike ==
  ASSUME \A p, q \in PE : View(p) = View(q)
  PROVE  Together
BY ComesToItself DEF Together

LEMMA SameView ==
  ASSUME NEW p \in PE, NEW q \in PE, View(p) = View(q)
  PROVE  /\ pass[p] = pass[q] /\ recv[p] = recv[q] /\ map[p] = map[q] /\ rowmap[p] = rowmap[q]
         /\ nmapped[p] = nmapped[q] /\ next[p] = next[q] /\ where[p] = where[q]
BY DEF View

\* The steps of a PE are those that After describes.
LEMMA AssignView ==
  ASSUME IInv, NEW p \in PE, Assign(p)
  PROVE  /\ View(p)' = After(View(p))
         /\ \A q \in PE \ {p} : View(q)' = View(q)
<1> DEFINE o == Head(recv[p])
           s == View(p)
           taken == o.part # -1 /\ Free(p, o.part, o.pe)
<1>1. /\ pc[p] = "assign" /\ recv[p] # <<>> /\ nmapped[p] < nparts
      /\ recv' = [recv EXCEPT ![p] = Tail(recv[p])]
      /\ UNCHANGED <<pc, pass, next, where>>
      /\ taken => Give(p, o.part, o.pe)
      /\ ~taken => UNCHANGED <<map, rowmap, nmapped>>
  BY DEF Assign
<1>2. /\ map \in [PE -> [PE -> PE \cup {-1}]] /\ rowmap \in [PE -> [PE -> PE \cup {-1}]]
      /\ nmapped \in [PE -> 0..nparts] /\ recv \in [PE -> Seq(Offers)]
  BY DEF IInv, TypeOK
<1>3. /\ After(s) = AfterOffer(s) /\ taken = (o.part # -1 /\ MayGive(s, o.part, o.pe))
      /\ s.recv = recv[p]
  BY <1>1 DEF After, MayGive, Free, View
<1>4. recv'[p] = Tail(recv[p]) /\ \A q \in PE \ {p} : recv'[q] = recv[q]
  BY <1>1, <1>2
<1>5. CASE taken
  <2>1. /\ map'[p] = [map[p] EXCEPT ![o.part] = o.pe] /\ rowmap'[p] = [rowmap[p] EXCEPT ![o.pe] = o.part]
        /\ nmapped'[p] = nmapped[p] + 1
        /\ \A q \in PE \ {p} : map'[q] = map[q] /\ rowmap'[q] = rowmap[q] /\ nmapped'[q] = nmapped[q]
    BY <1>1, <1>2, <1>5 DEF Give
  <2>2. After(s) = Given([s EXCEPT !.recv = Tail(recv[p])], o.part, o.pe)
    BY <1>3, <1>5 DEF AfterOffer
  <2> HIDE DEF o, taken
  <2> QED BY <1>1, <1>4, <2>1, <2>2, ZenonT(60) DEF Given, View
<1>6. CASE ~taken
  <2>1. After(s) = [s EXCEPT !.recv = Tail(recv[p])]
    BY <1>3, <1>6 DEF AfterOffer
  <2>2. UNCHANGED <<pc, pass, map, rowmap, nmapped, next, where>>
    BY <1>1, <1>6
  <2> HIDE DEF o, taken
  <2> QED BY <1>4, <2>1, <2>2, ZenonT(60) DEF View
<1> QED BY <1>5, <1>6

LEMMA EndPassView ==
  ASSUME IInv, NEW p \in PE, EndPass(p)
  PROVE  /\ View(p)' = After(View(p))
         /\ \A q \in PE \ {p} : View(q)' = View(q)
<1>1. /\ pc[p] = "assign" /\ (recv[p] = <<>> \/ nmapped[p] = nparts)
      /\ UNCHANGED <<map, rowmap, nmapped, next, where>>
      /\ pass' = [pass EXCEPT ![p] = pass[p] + 1] /\ recv' = [recv EXCEPT ![p] = <<>>]
      /\ pc' = [pc EXCEPT ![p] = IF nmapped[p] = nparts \/ pass[p] + 1 = npasses
                                 THEN "rest" ELSE "offer"]
  BY DEF EndPass
<1>2. pc[p] = "assign" /\ pc \in [PE -> {"offer", "assign", "rest", "saving", "apply", "done"}]
      /\ pass \in [PE -> 0..npasses] /\ recv \in [PE -> Seq(Offers)] /\ nmapped[p] \in 0..nparts
  BY <1>1 DEF IInv, TypeOK
<1>3. After(View(p)) = AfterPass(View(p))
  BY <1>1, <1>2, NpartsAssumption DEF After, View
<1> QED BY <1>1, <1>2, <1>3, ZenonT(60) DEF AfterPass, View

LEMMA RestView ==
  ASSUME IInv, NEW p \in PE, Rest(p)
  PROVE  /\ View(p)' = After(View(p))
         /\ \A q \in PE \ {p} : View(q)' = View(q)
<1> DEFINE j == next[p].j
           Fit == {i \in next[p].i..(nparts - 1) : Free(p, j, i)}
           first == CHOOSE i \in Fit : \A k \in Fit : i <= k
           s == View(p)
<1>1. /\ pc[p] = "rest" /\ j < nparts /\ nmapped[p] < nparts
      /\ Fit # {} => /\ Give(p, j, first)
                     /\ next' = [next EXCEPT ![p] = [j |-> j + 1, i |-> first]]
      /\ Fit = {} => /\ UNCHANGED <<map, rowmap, nmapped>>
                     /\ next' = [next EXCEPT ![p] =
                          [j |-> j + 1, i |-> IF map[p][j] = -1 THEN nparts ELSE next[p].i]]
      /\ UNCHANGED <<pc, pass, recv, where>>
  BY DEF Rest
<1>2. Fit = FitsOf(s) /\ After(s) = AfterPart(s) /\ s.next.j = j /\ s.next.i = next[p].i
  BY <1>1 DEF FitsOf, MayGive, Free, After, View
<1>3. /\ map \in [PE -> [PE -> PE \cup {-1}]] /\ rowmap \in [PE -> [PE -> PE \cup {-1}]]
      /\ nmapped \in [PE -> 0..nparts] /\ next \in [PE -> [j : 0..nparts, i : 0..nparts]]
  BY DEF IInv, TypeOK
<1> HIDE DEF Fit
<1>4. first = FirstOf(FitsOf(s))
  BY <1>2 DEF FirstOf
<1> HIDE DEF first
<1>5. CASE Fit # {}
  <2>1. /\ map'[p] = [map[p] EXCEPT ![j] = first] /\ rowmap'[p] = [rowmap[p] EXCEPT ![first] = j]
        /\ nmapped'[p] = nmapped[p] + 1 /\ next'[p] = [j |-> j + 1, i |-> first]
        /\ \A q \in PE \ {p} : /\ map'[q] = map[q] /\ rowmap'[q] = rowmap[q]
                               /\ nmapped'[q] = nmapped[q] /\ next'[q] = next[q]
    BY <1>1, <1>3, <1>5 DEF Give
  <2>2. After(s) = [Given(s, j, first) EXCEPT !.next = [j |-> j + 1, i |-> first]]
    BY <1>2, <1>4, <1>5 DEF AfterPart
  <2> HIDE DEF j
  <2> QED BY <1>1, <2>1, <2>2, ZenonT(60) DEF Given, View
<1>6. CASE Fit = {}
  <2>1. /\ next'[p] = [j |-> j + 1, i |-> IF map[p][j] = -1 THEN nparts ELSE next[p].i]
        /\ \A q \in PE \ {p} : next'[q] = next[q]
    BY <1>1, <1>3, <1>6
  <2>2. After(s) = [s EXCEPT !.next = [j |-> j + 1, i |-> IF map[p][j] = -1 THEN nparts ELSE next[p].i]]
    BY <1>2, <1>6 DEF AfterPart, View
  <2> HIDE DEF j
  <2> QED BY <1>1, <1>6, <2>1, <2>2 DEF View
<1> QED BY <1>5, <1>6

LEMMA EndRestView ==
  ASSUME IInv, NEW p \in PE, EndRest(p)
  PROVE  /\ View(p)' = After(View(p))
         /\ \A q \in PE \ {p} : View(q)' = View(q)
<1>1. /\ pc[p] = "rest" /\ (next[p].j = nparts \/ nmapped[p] = nparts)
      /\ nmapped[p] < nparts => /\ map' = [map EXCEPT ![p] = Identity]
                                /\ pc' = [pc EXCEPT ![p] = "apply"]
      /\ ~(nmapped[p] < nparts) => pc' = [pc EXCEPT ![p] = "saving"] /\ map' = map
      /\ UNCHANGED <<pass, recv, rowmap, nmapped, next, where>>
  BY DEF EndRest
<1>2. /\ map \in [PE -> [PE -> PE \cup {-1}]]
      /\ pc \in [PE -> {"offer", "assign", "rest", "saving", "apply", "done"}]
  BY DEF IInv, TypeOK
<1>3. After(View(p)) = AfterRest(View(p))
  BY <1>1, NpartsAssumption DEF After, View
<1>4. CASE nmapped[p] < nparts
  <2>1. After(View(p)) = [View(p) EXCEPT !.map = Identity, !.pc = "apply"]
    BY <1>3, <1>4 DEF AfterRest, View
  <2>2. /\ map'[p] = Identity /\ pc'[p] = "apply"
        /\ \A q \in PE \ {p} : map'[q] = map[q] /\ pc'[q] = pc[q]
    BY <1>1, <1>2, <1>4
  <2> QED BY <1>1, <2>1, <2>2 DEF View
<1>5. CASE ~(nmapped[p] < nparts)
  <2>1. After(View(p)) = [View(p) EXCEPT !.pc = "saving"]
    BY <1>3, <1>5 DEF AfterRest, View
  <2>2. map' = map /\ pc'[p] = "saving" /\ \A q \in PE \ {p} : pc'[q] = pc[q]
    BY <1>1, <1>2, <1>5
  <2> QED BY <1>1, <2>1, <2>2 DEF View
<1> QED BY <1>4, <1>5

LEMMA ApplyView ==
  ASSUME IInv, NEW p \in PE, Apply(p)
  PROVE  /\ View(p)' = After(View(p))
         /\ \A q \in PE \ {p} : View(q)' = View(q)
<1>1. /\ pc[p] = "apply" /\ UNCHANGED <<pass, recv, map, rowmap, nmapped, next>>
      /\ where' = [where EXCEPT ![p] = [a \in PE |-> map[p][a]]] /\ pc' = [pc EXCEPT ![p] = "done"]
  BY DEF Apply
<1>2. /\ where \in [PE -> [PE -> PE]]
      /\ pc \in [PE -> {"offer", "assign", "rest", "saving", "apply", "done"}]
  BY DEF IInv, TypeOK
<1> QED BY <1>1, <1>2 DEF After, AfterApply, View

\* The PEs stay together: a collective finds them the same and leaves them the same.
LEMMA StaysTogether == ASSUME IInv, Together, [Next]_vars PROVE Together'
<1>1. ASSUME NEW p \in PE, Step(p) PROVE Together'
  <2>1. View(p)' = After(View(p)) /\ \A q \in PE \ {p} : View(q)' = View(q)
    BY <1>1, AssignView, EndPassView, RestView, EndRestView, ApplyView DEF Step
  <2> QED BY <2>1, StepTogether
<1>2. ASSUME Gather PROVE Together'
  <2>1. PICK order \in Orders :
          /\ recv' = [p \in PE |-> order]
          /\ pc' = [p \in PE |-> IF order[1].key = 0 THEN "rest" ELSE "assign"]
    BY <1>2 DEF Gather
  <2>2. \A p, q \in PE : View(p) = View(q)
    BY <1>2, WaitTogether DEF Gather
  <2>3. ASSUME NEW p \in PE, NEW q \in PE PROVE View(p)' = View(q)'
    <3>1. /\ UNCHANGED <<pass, map, rowmap, nmapped, next, where>>
          /\ recv'[p] = recv'[q] /\ pc'[p] = pc'[q]
      BY <1>2, <2>1 DEF Gather
    <3>2. /\ pass[p] = pass[q] /\ map[p] = map[q] /\ rowmap[p] = rowmap[q]
          /\ nmapped[p] = nmapped[q] /\ next[p] = next[q] /\ where[p] = where[q]
      BY <2>2, SameView
    <3> QED BY <3>1, <3>2 DEF View
  <2> QED BY <2>3, ComesToItself DEF Together
<1>3. ASSUME Saving PROVE Together'
  <2>1. /\ map' = [p \in PE |-> Identity] \/ map' = map
        /\ pc' = [p \in PE |-> "apply"]
        /\ UNCHANGED <<pass, recv, rowmap, nmapped, next, where>>
    BY <1>3 DEF Saving
  <2>2. \A p, q \in PE : View(p) = View(q)
    BY <1>3, WaitTogether DEF Saving
  <2>3. ASSUME NEW p \in PE, NEW q \in PE PROVE View(p)' = View(q)'
    <3>1. /\ UNCHANGED <<pass, recv, rowmap, nmapped, next, where>>
          /\ map'[p] = map'[q] \/ map' = map
          /\ pc'[p] = pc'[q]
      BY <2>1
    <3>2. /\ pass[p] = pass[q] /\ map[p] = map[q] /\ rowmap[p] = rowmap[q] /\ recv[p] = recv[q]
          /\ nmapped[p] = nmapped[q] /\ next[p] = next[q] /\ where[p] = where[q]
      BY <2>2, SameView
    <3> QED BY <3>1, <3>2 DEF View
  <2> QED BY <2>3, ComesToItself DEF Together
<1>4. ASSUME UNCHANGED vars PROVE Together'
  BY <1>4 DEF vars, Together, View
<1> QED BY <1>1, <1>2, <1>3, <1>4 DEF Next

\* Every PE builds the map on its own, for any weights and in whatever order
\* the PEs go on; all rename the parts alike.
THEOREM NamesShared == Spec => []SameNames
<1>1. ASSUME Init PROVE Together
  <2>1. \A p, q \in PE : View(p) = View(q)
    BY <1>1 DEF Init, View
  <2> QED BY <2>1, Alike
<1>2. Together => SameNames
  <2> SUFFICES ASSUME Together, Terminated, NEW p \in PE, NEW q \in PE
               PROVE  where[p] = where[q]
    BY DEF SameNames
  <2> QED BY WaitTogether DEF Terminated, View
<1>3. Init /\ [][Next]_vars /\ []IInv => []Together
  BY <1>1, StaysTogether, PTL
<1> QED BY <1>2, <1>3, Invariance, PTL DEF Spec
=============================================================================
