--------------------------- MODULE KWayFM_proofs ---------------------------
(***************************************************************************)
(* What is proved of the K-way refinement: a part that is too heavy does   *)
(* not get heavier by the tentative moves of all PEs together.  Each PE    *)
(* keeps to the limit with its own idea of the weights, which is the sum   *)
(* at the beginning of the direction and its own moves since; so in a part *)
(* that was too heavy each PE has at most what it had, and the sum of what *)
(* the PEs have is at most what it was.                                    *)
(*                                                                         *)
(* The second half is about the bookkeeping of the refiners (InfoExact)    *)
(* and what a pass costs (SeenCostNeverWorse).                             *)
(***************************************************************************)
EXTENDS KWayFM, GraphFacts, TLAPS

DirectionPhases == {"one", "commit", "where", "supdate", "sum"}

Typed ==
  /\ pc \in [PE -> DirectionPhases \union {"start", "done"}]
  /\ lnpwgts \in [PE -> [Parts -> Int]]
  /\ gnpwgts \in [PE -> [Parts -> Int]]
  /\ ognpwgts \in [PE -> [Parts -> Int]]
  /\ \A p \in PE : todo[p] \subseteq Own(p) /\ moved[p] \in Seq(Own(p))

\* The reductions keep the PEs together; only KWayBalance has none before the commit.
Together ==
  /\ \/ \A p \in PE : pc[p] = "start"
     \/ \A p \in PE : pc[p] \in DirectionPhases
     \/ \A p \in PE : pc[p] = "done"
  /\ refiner # "KWayBalance" =>
       \/ \A p \in PE : pc[p] = "one"
       \/ \A p \in PE : pc[p] # "one"

\* The weights a pass begins with are right.
AtStart ==
  (\A p \in PE : pc[p] = "start") => \A p \in PE : gnpwgts[p] = Weights

\* The weight that PE p had in part a when the direction began.
begun(p, a) == lnpwgts[p][a] - gnpwgts[p][a] + ognpwgts[p][a]

\* A PE's idea of the weights is what they were with its own moves added, and it
\* has not moved vertices into a part that was too heavy unless it had moved
\* others out of it before.
Moving ==
  refiner # "KWayBalance" /\ (\A p \in PE : pc[p] = "one") =>
    \A p \in PE : \A a \in Parts :
      /\ ognpwgts[p][a] = SumFunction([q \in PE |-> begun(q, a)])
      /\ badmax(a, ognpwgts[p][a]) => gnpwgts[p][a] <= ognpwgts[p][a]

IInv ==
  /\ Typed
  /\ Together
  /\ AtStart
  /\ Moving
  /\ HeavyPartsNeverGrow

-----------------------------------------------------------------------------
(* Parameters and weights.                                                 *)

LEMMA PEsFinite == IsFiniteSet(PE) /\ PE # {}
<1>1. npes \in Int /\ npes - 1 \in Int /\ 0 \in Int /\ npes > 0
  BY NpesAssumption
<1>2. IsFiniteSet(0..(npes - 1))
  BY <1>1, FS_Interval
<1>3. 0 \in 0..(npes - 1)
  BY <1>1
<1> QED BY <1>2, <1>3 DEF PE

LEMMA WeightInt == \A p \in PE : \A v \in Own(p) : VWgt[v] \in Nat
BY OwnIs, WeightAssumption

LEMMA PartWeightInt ==
  ASSUME NEW S \in SUBSET Vertex, NEW w, NEW a
  PROVE  /\ PartWeight(S, w, a) \in Int
         /\ IsFiniteSet({v \in S : w[v] = a})
<1>1. IsFiniteSet({v \in S : w[v] = a}) /\ \A v \in {v \in S : w[v] = a} : VWgt[v] \in Int
  BY FiniteAssumption, FS_Subset, WeightAssumption
<1> QED BY <1>1, SumType DEF PartWeight

\* A sum over all PEs.
LEMMA SumOverPEs ==
  \A f : DOMAIN f = PE => SumFunction(f) = SumFunctionOnSet(f, PE)
BY DEF SumFunction

\* The weight of a part is the sum of what the PEs have of it.
LEMMA WeightShared ==
  ASSUME NEW w, NEW a
  PROVE  PartWeight(Vertex, w, a) = SumFunction([p \in PE |-> PartWeight(Own(p), w, a)])
<1> DEFINE part == [p \in PE |-> {v \in Own(p) : w[v] = a}]
           sum  == [p \in PE |-> PartWeight(Own(p), w, a)]
<1>1. ASSUME NEW p \in PE
      PROVE  /\ IsFiniteSet(part[p])
             /\ \A v \in part[p] : VWgt[v] \in Int
             /\ sum[p] = SumFunctionOnSet(VWgt, part[p])
  <2>1. Own(p) \in SUBSET Vertex
    BY OwnIs
  <2>2. IsFiniteSet(part[p])
    <3>1. part[p] \in SUBSET Vertex
      BY <2>1
    <3> QED BY <3>1, FiniteAssumption, FS_Subset
  <2>3. \A v \in part[p] : VWgt[v] \in Int
    <3>1. \A v \in part[p] : v \in Own(p)
      OBVIOUS
    <3> QED BY <3>1, WeightInt
  <2>4. sum[p] = SumFunctionOnSet(VWgt, part[p])
    BY DEF PartWeight
  <2> QED BY <2>2, <2>3, <2>4
<1>2. \A p, q \in PE : p # q => part[p] \intersect part[q] = {}
  BY OwnIs
<1>3. UNION {part[p] : p \in PE} = {v \in Vertex : w[v] = a}
  BY OwnIs, OwnerAssumption
<1>4. SumFunctionOnSet(VWgt, UNION {part[p] : p \in PE}) = SumFunctionOnSet(sum, PE)
  <2> HIDE DEF part, sum
  <2> QED BY <1>1, <1>2, PEsFinite, SumOfParts
<1> QED BY <1>3, <1>4, SumOverPEs DEF PartWeight

LEMMA WeightsInt ==
  ASSUME lnpwgts \in [PE -> [Parts -> Int]]
  PROVE  Weights \in [Parts -> Int]
<1> SUFFICES ASSUME NEW a \in Parts PROVE SumFunction([q \in PE |-> lnpwgts[q][a]]) \in Int
  BY DEF Weights
<1> DEFINE f == [q \in PE |-> lnpwgts[q][a]]
<1>1. DOMAIN f = PE /\ \A q \in PE : f[q] \in Int
  OBVIOUS
<1> HIDE DEF f
<1>2. SumFunctionOnSet(f, PE) \in Int
  BY <1>1, PEsFinite, SumType
<1> QED BY <1>1, <1>2, SumOverPEs DEF f

LEMMA Shifted ==
  ASSUME NEW wgts \in [Parts -> Int], NEW from, NEW to, NEW w \in Int
  PROVE  /\ Shift(wgts, from, to, w) \in [Parts -> Int]
         /\ \A a \in Parts : Shift(wgts, from, to, w)[a] =
              IF a = to /\ a # from THEN wgts[a] + w
              ELSE IF a = from /\ a # to THEN wgts[a] - w ELSE wgts[a]
<1>1. Shift(wgts, from, to, w) =
        [a \in Parts |-> IF a = from THEN (IF a = to THEN wgts[a] + w ELSE wgts[a]) - w
                         ELSE IF a = to THEN wgts[a] + w ELSE wgts[a]]
  BY DEF Shift
<1>2. \A a \in Parts : wgts[a] \in Int
  OBVIOUS
<1> QED BY <1>1, <1>2

-----------------------------------------------------------------------------
(* The undo loop, whose steps are those of a fold.                         *)

\* The states of the loop over moved[p], by the indices it has been at.
UndoStates(g, p, base, sq, S) ==
  g = [s \in SUBSET S |-> IF s = {} THEN base ELSE UndoOne(p, g[s \ {Max(s)}], sq[Max(s)])]

LEMMA UndoStatesAre ==
  \A g, p, base, sq, S : UndoStates(g, p, base, sq, S) <=>
    /\ g = [s \in SUBSET S |-> g[s]]
    /\ \A s \in SUBSET S :
         g[s] = IF s = {} THEN base ELSE UndoOne(p, g[s \ {Max(s)}], sq[Max(s)])
BY DEF UndoStates

Before(p) == [tmp |-> tmp_where[p], info |-> ckrinfo, lnp |-> lnpwgts[p],
              over |-> overfill(p), kept |-> {}]

LEMMA UndoIsFold ==
  ASSUME NEW p
  PROVE  Undone(p) =
           IF \E a \in Parts : overfill(p)[a] > 0
           THEN (CHOOSE g : UndoStates(g, p, Before(p), moved[p], DOMAIN moved[p]))[DOMAIN moved[p]]
           ELSE [Before(p) EXCEPT !.kept = ToSet(moved[p])]
BY DEF Undone, FoldLeft, MapThenFoldSet, UndoStates, Before

LEMMA LastTaken ==
  ASSUME NEW n \in Nat, NEW S \in SUBSET (1..n), S # {}
  PROVE  S \ {Max(S)} \in SUBSET S /\ S \ {Max(S)} # S
BY LastIndex

LEMMA UndoUnique ==
  ASSUME NEW p, NEW base, NEW sq, NEW n \in Nat, NEW S \in SUBSET (1..n),
         NEW g, NEW h, UndoStates(g, p, base, sq, S), UndoStates(h, p, base, sq, S)
  PROVE  g = h
<1> DEFINE G == {T \in SUBSET S : g[T] = h[T]}
<1>0. IsFiniteSet(S)
  <2>1. 1 \in Int /\ n \in Int
    OBVIOUS
  <2>2. IsFiniteSet(1..n)
    BY <2>1, FS_Interval
  <2> QED BY <2>2, FS_Subset
<1>1. ASSUME NEW T \in SUBSET S, \A U \in SUBSET T : U # T => U \in G
      PROVE  T \in G
  <2>1. g[T] = IF T = {} THEN base ELSE UndoOne(p, g[T \ {Max(T)}], sq[Max(T)])
    BY UndoStatesAre
  <2>2. h[T] = IF T = {} THEN base ELSE UndoOne(p, h[T \ {Max(T)}], sq[Max(T)])
    BY UndoStatesAre
  <2>3. T # {} => g[T \ {Max(T)}] = h[T \ {Max(T)}]
    BY <1>1, LastTaken
  <2> QED BY <2>1, <2>2, <2>3
<1> HIDE DEF G
<1>2. \A T \in SUBSET S : T \in G
  <2>1. \A T \in SUBSET S : (\A U \in SUBSET T : U # T => U \in G) => T \in G
    BY <1>1
  <2> QED BY <1>0, <2>1, SubsetInduction
<1>3. \A T \in SUBSET S : g[T] = h[T]
  BY <1>2 DEF G
<1>4. g = [s \in SUBSET S |-> g[s]] /\ h = [s \in SUBSET S |-> h[s]]
  BY UndoStatesAre
<1> QED BY <1>3, <1>4

LEMMA UndoBelow ==
  ASSUME NEW p, NEW base, NEW sq, NEW n \in Nat, NEW S \in SUBSET (1..n),
         NEW g, UndoStates(g, p, base, sq, S), NEW T \in SUBSET S
  PROVE  UndoStates([s \in SUBSET T |-> g[s]], p, base, sq, T)
<1> DEFINE h == [s \in SUBSET T |-> g[s]]
<1>1. \A s \in SUBSET T : h[s] = g[s] /\ s \in SUBSET S
  OBVIOUS
<1>2. h = [s \in SUBSET T |-> h[s]]
  OBVIOUS
<1> HIDE DEF h
<1>3. ASSUME NEW s \in SUBSET T
      PROVE  h[s] = IF s = {} THEN base ELSE UndoOne(p, h[s \ {Max(s)}], sq[Max(s)])
  <2>1. g[s] = IF s = {} THEN base ELSE UndoOne(p, g[s \ {Max(s)}], sq[Max(s)])
    BY <1>1, UndoStatesAre
  <2>2. s \in SUBSET (1..n)
    OBVIOUS
  <2>3. s # {} => s \ {Max(s)} \in SUBSET T
    BY <2>2, LastTaken
  <2>4. s # {} => h[s \ {Max(s)}] = g[s \ {Max(s)}]
    BY <1>1, <2>3
  <2> QED BY <1>1, <2>1, <2>4
<1>4. UndoStates(h, p, base, sq, T)
  BY <1>2, <1>3, UndoStatesAre
<1> QED BY <1>4 DEF h

LEMMA UndoExists ==
  ASSUME NEW p, NEW base, NEW sq, NEW n \in Nat, NEW S \in SUBSET (1..n)
  PROVE  \E g : UndoStates(g, p, base, sq, S)
<1> DEFINE G == {T \in SUBSET S : \E g : UndoStates(g, p, base, sq, T)}
           of(T) == CHOOSE g : UndoStates(g, p, base, sq, T)
<1>0. IsFiniteSet(S)
  <2>1. 1 \in Int /\ n \in Int
    OBVIOUS
  <2>2. IsFiniteSet(1..n)
    BY <2>1, FS_Interval
  <2> QED BY <2>2, FS_Subset
<1>1. ASSUME NEW T \in SUBSET S, \A U \in SUBSET T : U # T => U \in G
      PROVE  T \in G
  <2> DEFINE low(s) == of(s)[s]
             g == [s \in SUBSET T |->
                     IF s # T THEN low(s)
                     ELSE IF T = {} THEN base ELSE UndoOne(p, low(T \ {Max(T)}), sq[Max(T)])]
  <2>1. \A U \in SUBSET T : U # T => UndoStates(of(U), p, base, sq, U)
    BY <1>1
  <2>2. \A s \in SUBSET T : s \in SUBSET (1..n)
    OBVIOUS
  <2>3. g = [s \in SUBSET T |-> g[s]]
    OBVIOUS
  <2>4. ASSUME NEW s \in SUBSET T
        PROVE  g[s] = IF s = {} THEN base ELSE UndoOne(p, g[s \ {Max(s)}], sq[Max(s)])
    <3> HIDE DEF of
    <3>1. CASE s = T
      <4>1. T # {} => T \ {Max(T)} \in SUBSET T /\ T \ {Max(T)} # T
        BY <2>2, LastTaken
      <4>2. T # {} => g[T \ {Max(T)}] = low(T \ {Max(T)})
        BY <4>1
      <4>3. g[T] = IF T = {} THEN base ELSE UndoOne(p, low(T \ {Max(T)}), sq[Max(T)])
        OBVIOUS
      <4> HIDE DEF g, low
      <4> QED BY <3>1, <4>2, <4>3
    <3>2. CASE s # T /\ s = {}
      <4>1. UndoStates(of(s), p, base, sq, s)
        BY <2>1, <3>2
      <4>2. of(s)[s] = base
        BY <3>2, <4>1, UndoStatesAre
      <4> QED BY <3>2, <4>2
    <3>3. CASE s # T /\ s # {}
      <4> DEFINE u == s \ {Max(s)}
      <4>1. u \in SUBSET s /\ u \in SUBSET T /\ u # T
        BY <2>2, <3>3, LastTaken
      <4> HIDE DEF u
      <4>2. UndoStates(of(s), p, base, sq, s) /\ UndoStates(of(u), p, base, sq, u)
        BY <2>1, <3>3, <4>1
      <4>3. of(s)[s] = UndoOne(p, of(s)[u], sq[Max(s)])
        BY <3>3, <4>2, UndoStatesAre DEF u
      <4>4. UndoStates([x \in SUBSET u |-> of(s)[x]], p, base, sq, u)
        BY <2>2, <4>1, <4>2, UndoBelow
      <4>5. of(u) = [x \in SUBSET u |-> of(s)[x]]
        BY <2>2, <4>1, <4>2, <4>4, UndoUnique
      <4>6. of(u)[u] = of(s)[u]
        BY <4>5
      <4>7. g[s] = of(s)[s] /\ g[u] = of(u)[u]
        BY <3>3, <4>1
      <4> HIDE DEF g
      <4> QED BY <3>3, <4>3, <4>6, <4>7 DEF u
    <3> QED BY <3>1, <3>2, <3>3
  <2> HIDE DEF g
  <2>5. UndoStates(g, p, base, sq, T)
    BY <2>3, <2>4, UndoStatesAre
  <2> QED BY <2>5
<1> HIDE DEF G
<1>2. \A T \in SUBSET S : T \in G
  <2>1. \A T \in SUBSET S : (\A U \in SUBSET T : U # T => U \in G) => T \in G
    BY <1>1
  <2> QED BY <1>0, <2>1, SubsetInduction
<1> QED BY <1>2 DEF G

\* Undoing moves leaves weights.
LEMMA UndoneWeights ==
  ASSUME Typed, NEW p \in PE
  PROVE  Undone(p).lnp \in [Parts -> Int]
<1> DEFINE before == Before(p)
           n == Len(moved[p])
           g == CHOOSE h : UndoStates(h, p, before, moved[p], 1..n)
           G == {T \in SUBSET (1..n) : "lnp" \in DOMAIN g[T] /\ g[T].lnp \in [Parts -> Int]}
<1>1. /\ n \in Nat /\ DOMAIN moved[p] = 1..n /\ \A i \in 1..n : moved[p][i] \in Own(p)
      /\ lnpwgts[p] \in [Parts -> Int]
  BY DEF Typed
<1>2. UndoStates(g, p, before, moved[p], 1..n)
  BY <1>1, UndoExists
<1>3. Undone(p) = [before EXCEPT !.kept = ToSet(moved[p])] \/ Undone(p) = g[1..n]
  <2>1. Undone(p) = (CHOOSE h : UndoStates(h, p, before, moved[p], DOMAIN moved[p]))[DOMAIN moved[p]]
        \/ Undone(p) = [before EXCEPT !.kept = ToSet(moved[p])]
    BY UndoIsFold, Zenon
  <2> QED BY <1>1, <2>1, Zenon
<1>4. "lnp" \in DOMAIN before /\ before.lnp \in [Parts -> Int]
  BY <1>1 DEF Before
<1>5. [before EXCEPT !.kept = ToSet(moved[p])].lnp = before.lnp
  BY DEF Before
<1> HIDE DEF g, n, before
<1>6. ASSUME NEW T \in SUBSET (1..n), \A U \in SUBSET T : U # T => U \in G
      PROVE  T \in G
  <2>1. g[T] = IF T = {} THEN before ELSE UndoOne(p, g[T \ {Max(T)}], moved[p][Max(T)])
    BY <1>2, UndoStatesAre
  <2>2. CASE T = {}
    BY <1>4, <2>1, <2>2
  <2>3. CASE T # {}
    <3> DEFINE st == g[T \ {Max(T)}]
               v  == moved[p][Max(T)]
    <3>1. "lnp" \in DOMAIN st /\ st.lnp \in [Parts -> Int]
      BY <1>1, <1>6, <2>3, LastTaken
    <3>2. VWgt[v] \in Int
      <4>1. Max(T) \in 1..n
        BY <1>1, <2>3, LastIndex
      <4>2. v \in Own(p)
        BY <1>1, <4>1
      <4> HIDE DEF v
      <4> QED BY <4>2, WeightInt
    <3> HIDE DEF st, v
    <3>3. "lnp" \in DOMAIN UndoOne(p, st, v) /\ UndoOne(p, st, v).lnp \in [Parts -> Int]
      BY <3>1, <3>2, Shifted DEF UndoOne
    <3> QED BY <2>1, <2>3, <3>3 DEF st, v
  <2> QED BY <2>2, <2>3
<1> HIDE DEF G
<1>7. 1..n \in G
  <2> DEFINE R == 1..n
  <2>1. \A T \in SUBSET R : (\A U \in SUBSET T : U # T => U \in G) => T \in G
    BY <1>6
  <2>2. IsFiniteSet(R)
    BY <1>1, FS_Interval
  <2> HIDE DEF R
  <2>3. \A T \in SUBSET R : T \in G
    BY <2>1, <2>2, SubsetInduction
  <2> QED BY <2>3 DEF R
<1> QED BY <1>3, <1>4, <1>5, <1>7 DEF G

-----------------------------------------------------------------------------
(* The invariant.                                                          *)

LEMMA Begins ==
  ASSUME Init
  PROVE  IInv
<1>1. PICK start \in Starts :
        /\ pc = [p \in PE |-> "start"]
        /\ lnpwgts = [p \in PE |-> [a \in Parts |-> PartWeight(Own(p), start.where, a)]]
        /\ gnpwgts = [p \in PE |-> [a \in Parts |-> PartWeight(Vertex, start.where, a)]]
        /\ ognpwgts = gnpwgts
        /\ todo = [p \in PE |-> {}] /\ moved = [p \in PE |-> <<>>]
  BY Zenon DEF Init
<1> DEFINE w == start.where
           share(a) == [p \in PE |-> PartWeight(Own(p), w, a)]
<1>2. \A p \in PE : Own(p) \in SUBSET Vertex
  BY OwnIs
<1>3. \A p \in PE : \A a \in Parts : PartWeight(Own(p), w, a) \in Int /\ PartWeight(Vertex, w, a) \in Int
  BY <1>2, PartWeightInt
<1>4. Typed
  BY <1>1, <1>3 DEF Typed
<1>5. \A p \in PE : pc[p] = "start"
  BY <1>1
<1>6. \A a \in Parts : [q \in PE |-> lnpwgts[q][a]] = share(a)
  BY <1>1
<1>7. \A a \in Parts : PartWeight(Vertex, w, a) = SumFunction(share(a))
  BY WeightShared
<1>8. Weights = [a \in Parts |-> PartWeight(Vertex, w, a)]
  <2> HIDE DEF share
  <2> QED BY <1>6, <1>7 DEF Weights
<1>9. AtStart
  BY <1>1, <1>8 DEF AtStart
<1> QED BY <1>4, <1>5, <1>9, PEsFinite DEF IInv, Together, Moving, HeavyPartsNeverGrow

\* All that matters of a PE's step after its moves, whatever it announces.
LEMMA PhaseKeeps ==
  ASSUME IInv, NEW p \in PE, NEW phase \in {"where", "supdate", "sum"},
         pc[p] \in DirectionPhases, pc[p] = "one" => refiner = "KWayBalance",
         pc' = [pc EXCEPT ![p] = phase],
         lnpwgts' \in [PE -> [Parts -> Int]],
         UNCHANGED <<program, gnpwgts, ognpwgts, todo, moved>>
  PROVE  IInv'
<1>1. /\ pc \in [PE -> DirectionPhases \union {"start", "done"}]
      /\ gnpwgts \in [PE -> [Parts -> Int]]
      /\ ognpwgts \in [PE -> [Parts -> Int]]
      /\ \A q \in PE : todo[q] \subseteq Own(q) /\ moved[q] \in Seq(Own(q))
  BY DEF IInv, Typed
<1>2. \A q \in PE : pc'[q] = IF q = p THEN phase ELSE pc[q]
  BY <1>1
<1>3. pc' \in [PE -> DirectionPhases \union {"start", "done"}]
  BY <1>1 DEF DirectionPhases
<1>4. Typed'
  BY <1>1, <1>3 DEF Typed
<1>5. \A q \in PE : pc[q] \in DirectionPhases
  BY DEF IInv, Together, DirectionPhases
<1>6. \A q \in PE : pc'[q] \in DirectionPhases
  BY <1>2, <1>5 DEF DirectionPhases
<1>7. refiner' = refiner
  BY DEF refiner
<1>8. refiner # "KWayBalance" => \A q \in PE : pc'[q] # "one"
  BY <1>2 DEF IInv, Together
<1>9. Together'
  BY <1>6, <1>7, <1>8 DEF Together
<1>10. pc'[p] \notin {"start", "one", "commit"}
  BY <1>2
<1>11. AtStart' /\ Moving' /\ HeavyPartsNeverGrow'
  BY <1>10 DEF AtStart, Moving, HeavyPartsNeverGrow
<1> QED BY <1>4, <1>9, <1>11 DEF IInv

\* A direction begins with the right weights.
LEMMA DirectionKeeps ==
  ASSUME NEW gn \in [PE -> [Parts -> Int]],
         lnpwgts \in [PE -> [Parts -> Int]],
         \A p \in PE : gn[p] = Weights,
         pc' = [p \in PE |-> "one"], gnpwgts' = gn, ognpwgts' = gn, lnpwgts' = lnpwgts,
         moved' = [p \in PE |-> <<>>], todo' = [p \in PE |-> Own(p)]
  PROVE  IInv'
<1>1. \A p \in PE : pc'[p] = "one"
  OBVIOUS
<1>2. Typed'
  <2>1. pc' \in [PE -> DirectionPhases \union {"start", "done"}]
    BY DEF DirectionPhases
  <2> QED BY <2>1 DEF Typed
<1>3. Together'
  BY <1>1 DEF Together, DirectionPhases
<1>4. AtStart' /\ HeavyPartsNeverGrow'
  BY <1>1, PEsFinite DEF AtStart, HeavyPartsNeverGrow
<1>5. ASSUME NEW p \in PE, NEW a \in Parts
      PROVE  ognpwgts'[p][a] = SumFunction([q \in PE |-> begun(q, a)'])
  <2>1. \A q \in PE : begun(q, a)' = lnpwgts[q][a]
    BY DEF begun
  <2>2. [q \in PE |-> begun(q, a)'] = [q \in PE |-> lnpwgts[q][a]]
    BY <2>1
  <2>3. ognpwgts'[p][a] = SumFunction([q \in PE |-> lnpwgts[q][a]])
    BY DEF Weights
  <2> QED BY <2>2, <2>3
<1>6. \A p \in PE : \A a \in Parts : gnpwgts'[p][a] <= ognpwgts'[p][a]
  OBVIOUS
<1>7. Moving'
  BY <1>5, <1>6 DEF Moving
<1> QED BY <1>2, <1>3, <1>4, <1>7 DEF IInv

LEMMA StartKeeps ==
  ASSUME IInv, StartPass
  PROVE  IInv'
<1>1. /\ pc' = [p \in PE |-> "one"] /\ ognpwgts' = gnpwgts /\ gnpwgts' = gnpwgts
      /\ lnpwgts' = lnpwgts
      /\ moved' = [p \in PE |-> <<>>] /\ todo' = [p \in PE |-> Own(p)]
  BY Zenon DEF StartPass, BeginDirection
<1>2. \A p \in PE : gnpwgts[p] = Weights
  BY DEF StartPass, IInv, AtStart
<1>3. gnpwgts \in [PE -> [Parts -> Int]] /\ lnpwgts \in [PE -> [Parts -> Int]]
  BY DEF IInv, Typed
<1> QED BY <1>1, <1>2, <1>3, DirectionKeeps

LEMMA NextKeeps ==
  ASSUME IInv, NextDirection
  PROVE  IInv'
<1> DEFINE gn == [p \in PE |-> Weights]
<1>1. /\ pc' = [p \in PE |-> "one"] /\ ognpwgts' = gn /\ gnpwgts' = gn
      /\ lnpwgts' = lnpwgts
      /\ moved' = [p \in PE |-> <<>>] /\ todo' = [p \in PE |-> Own(p)]
  BY Zenon DEF NextDirection, BeginDirection
<1>2. lnpwgts \in [PE -> [Parts -> Int]]
  BY DEF IInv, Typed
<1>3. gn \in [PE -> [Parts -> Int]] /\ \A p \in PE : gn[p] = Weights
  BY <1>2, WeightsInt
<1> HIDE DEF gn
<1> QED BY <1>1, <1>2, <1>3, DirectionKeeps

LEMMA EndKeeps ==
  ASSUME IInv, NEW passes, EndPass(passes)
  PROVE  IInv'
<1>1. /\ gnpwgts' = [p \in PE |-> Weights]
      /\ UNCHANGED <<lnpwgts, ognpwgts, todo, moved>>
  BY DEF EndPass
<1>2. PICK phase \in {"start", "done"} : pc' = [p \in PE |-> phase]
  BY DEF EndPass
<1>3. lnpwgts \in [PE -> [Parts -> Int]]
  BY DEF IInv, Typed
<1>4. Weights \in [Parts -> Int]
  BY <1>3, WeightsInt
<1>5. \A p \in PE : pc'[p] = phase
  BY <1>2
<1>6. Typed'
  <2>1. pc' \in [PE -> DirectionPhases \union {"start", "done"}]
    BY <1>2
  <2>2. gnpwgts' \in [PE -> [Parts -> Int]]
    BY <1>1, <1>4
  <2> QED BY <1>1, <2>1, <2>2 DEF IInv, Typed
<1>7. Together'
  BY <1>5 DEF Together
<1>8. Weights' = Weights
  BY <1>1 DEF Weights
<1>9. AtStart'
  BY <1>1, <1>8 DEF AtStart
<1>10. Moving' /\ HeavyPartsNeverGrow'
  BY <1>5, PEsFinite DEF Moving, HeavyPartsNeverGrow
<1> QED BY <1>6, <1>7, <1>9, <1>10 DEF IInv

\* A visit keeps the limit when its goals do.
LEMMA AttemptKeeps ==
  ASSUME IInv, NEW p \in PE, NEW v \in todo[p], NEW goals, Attempt(p, v, goals),
         refiner # "KWayBalance" =>
           \A a \in goals : ~badmax(a, gnpwgts[p][a] + VWgt[v])
  PROVE  IInv'
<1>1. /\ pc[p] = "one" /\ todo' = [todo EXCEPT ![p] = @ \ {v}]
      /\ UNCHANGED <<pc, program, ognpwgts, pgnpwgts>>
  BY DEF Attempt
<1>2. /\ pc \in [PE -> DirectionPhases \union {"start", "done"}]
      /\ lnpwgts \in [PE -> [Parts -> Int]]
      /\ gnpwgts \in [PE -> [Parts -> Int]]
      /\ ognpwgts \in [PE -> [Parts -> Int]]
      /\ \A q \in PE : todo[q] \subseteq Own(q) /\ moved[q] \in Seq(Own(q))
  BY DEF IInv, Typed
<1>3. v \in Own(p) /\ VWgt[v] \in Nat
  BY <1>2, WeightInt
<1>4. todo[p] \ {v} \subseteq Own(p)
  BY <1>2
<1>5. p \in DOMAIN todo => \A q \in PE : todo'[q] \subseteq Own(q)
  BY <1>1, <1>2
<1>6. \A q \in PE : todo'[q] \subseteq Own(q)
  BY <1>1, <1>2
<1>7. refiner' = refiner
  BY <1>1 DEF refiner
<1>8. Together' /\ AtStart' /\ HeavyPartsNeverGrow'
  <2>1. Together'
    BY <1>1, <1>7 DEF IInv, Together
  <2>2. ~(\A q \in PE : pc'[q] = "start") /\ ~(\A q \in PE : pc'[q] = "commit")
    BY <1>1
  <2> QED BY <2>1, <2>2 DEF AtStart, HeavyPartsNeverGrow
<1>9. CASE goals = {} /\ UNCHANGED <<moved, lnpwgts, gnpwgts>>
  <2>1. Typed'
    BY <1>1, <1>2, <1>6, <1>9 DEF Typed
  <2>2. Moving'
    BY <1>1, <1>7, <1>9 DEF IInv, Moving, begun
  <2> QED BY <1>8, <2>1, <2>2 DEF IInv
<1>10. ASSUME NEW to \in goals,
              moved' = [moved EXCEPT ![p] = Append(@, v)],
              lnpwgts' = [lnpwgts EXCEPT ![p] = Shift(@, tmp_where[p][v], to, VWgt[v])],
              gnpwgts' = [gnpwgts EXCEPT ![p] = Shift(@, tmp_where[p][v], to, VWgt[v])]
       PROVE  IInv'
  <2> DEFINE from == tmp_where[p][v]
             w == VWgt[v]
             ln == Shift(lnpwgts[p], from, to, w)
             gn == Shift(gnpwgts[p], from, to, w)
  <2>3. lnpwgts' = [lnpwgts EXCEPT ![p] = ln] /\ gnpwgts' = [gnpwgts EXCEPT ![p] = gn]
    BY <1>10
  <2>4. w \in Nat /\ w \in Int /\ lnpwgts[p] \in [Parts -> Int] /\ gnpwgts[p] \in [Parts -> Int]
    BY <1>2, <1>3
  <2> HIDE DEF from, w
  <2>0. ASSUME NEW wgts \in [Parts -> Int], NEW sum, sum = Shift(wgts, from, to, w)
        PROVE  /\ sum \in [Parts -> Int]
               /\ \A a \in Parts : sum[a] = IF a = to /\ a # from THEN wgts[a] + w
                                            ELSE IF a = from /\ a # to THEN wgts[a] - w
                                            ELSE wgts[a]
    BY <2>0, <2>4, Shifted
  <2>1. /\ ln \in [Parts -> Int]
        /\ \A a \in Parts : ln[a] = IF a = to /\ a # from THEN lnpwgts[p][a] + w
                                    ELSE IF a = from /\ a # to THEN lnpwgts[p][a] - w
                                    ELSE lnpwgts[p][a]
    BY <2>0, <2>4
  <2>2. /\ gn \in [Parts -> Int]
        /\ \A a \in Parts : gn[a] = IF a = to /\ a # from THEN gnpwgts[p][a] + w
                                    ELSE IF a = from /\ a # to THEN gnpwgts[p][a] - w
                                    ELSE gnpwgts[p][a]
    BY <2>0, <2>4
  <2> HIDE DEF ln, gn
  <2>5. lnpwgts' \in [PE -> [Parts -> Int]] /\ gnpwgts' \in [PE -> [Parts -> Int]]
    BY <1>2, <2>1, <2>2, <2>3
  <2>6. \A q \in PE : moved'[q] \in Seq(Own(q))
    <3>1. Append(moved[p], v) \in Seq(Own(p))
      BY <1>2, <1>3, AppendProperties
    <3> QED BY <1>2, <1>10, <3>1
  <2>7. Typed'
    BY <1>1, <1>2, <1>6, <2>5, <2>6 DEF Typed
  <2>8. \A q \in PE : /\ lnpwgts'[q] = IF q = p THEN ln ELSE lnpwgts[q]
                      /\ gnpwgts'[q] = IF q = p THEN gn ELSE gnpwgts[q]
    BY <1>2, <2>3
  <2>9. \A a \in Parts : /\ lnpwgts[p][a] \in Int /\ gnpwgts[p][a] \in Int
                         /\ ognpwgts[p][a] \in Int
    BY <1>2
  <2>10. \A a \in Parts : ln[a] - gn[a] = lnpwgts[p][a] - gnpwgts[p][a]
    <3> SUFFICES ASSUME NEW a \in Parts
                 PROVE  ln[a] - gn[a] = lnpwgts[p][a] - gnpwgts[p][a]
      OBVIOUS
    <3> DEFINE x == lnpwgts[p][a]
               y == gnpwgts[p][a]
    <3>1. x \in Int /\ y \in Int
      BY <2>9
    <3>2. \/ ln[a] = x + w /\ gn[a] = y + w
          \/ ln[a] = x - w /\ gn[a] = y - w
          \/ ln[a] = x /\ gn[a] = y
      BY <2>1, <2>2
    <3> HIDE DEF x, y
    <3>3. ln[a] - gn[a] = x - y
      BY <2>4, <3>1, <3>2
    <3> QED BY <3>3 DEF x, y
  <2>11. \A a \in Parts : \A q \in PE :
           lnpwgts'[q][a] - gnpwgts'[q][a] = lnpwgts[q][a] - gnpwgts[q][a]
    BY <2>8, <2>10
  <2>12. ASSUME NEW a \in Parts
         PROVE  [q \in PE |-> begun(q, a)'] = [q \in PE |-> begun(q, a)]
    BY <1>1, <2>11 DEF begun
  <2>13. ASSUME refiner # "KWayBalance", NEW a \in Parts,
                badmax(a, ognpwgts[p][a]), gnpwgts[p][a] <= ognpwgts[p][a]
         PROVE  gn[a] <= ognpwgts[p][a]
    <3>1. CASE a = to
      <4> DEFINE x == gnpwgts[p][a]
                 o == ognpwgts[p][a]
                 l == Ub * Target[a]
      <4>1. ~((x + w) * 100 > l) /\ o * 100 > l
        BY <2>13, <3>1 DEF badmax, w
      <4>2. x \in Int /\ o \in Int /\ l \in Int /\ x <= o
        BY <2>9, <2>13, TargetAssumption
      <4>3. gn[a] = x + w \/ gn[a] = x
        BY <2>2, <3>1
      <4> HIDE DEF x, o, l
      <4>4. gn[a] <= o
        BY <2>4, <4>1, <4>2, <4>3
      <4> QED BY <4>4 DEF o
    <3>2. CASE a # to
      BY <2>2, <2>4, <2>9, <2>13, <3>2
    <3> QED BY <3>1, <3>2
  <2>14. Moving'
    <3> SUFFICES ASSUME refiner # "KWayBalance", \A q \in PE : pc[q] = "one",
                        NEW q \in PE, NEW a \in Parts
                 PROVE  /\ ognpwgts'[q][a] = SumFunction([r \in PE |-> begun(r, a)'])
                        /\ badmax(a, ognpwgts'[q][a]) => gnpwgts'[q][a] <= ognpwgts'[q][a]
      BY <1>1, <1>7 DEF Moving, badmax
    <3>1. /\ ognpwgts[q][a] = SumFunction([r \in PE |-> begun(r, a)])
          /\ badmax(a, ognpwgts[q][a]) => gnpwgts[q][a] <= ognpwgts[q][a]
      BY DEF IInv, Moving
    <3>2. ognpwgts'[q][a] = SumFunction([r \in PE |-> begun(r, a)'])
      BY <1>1, <2>12, <3>1
    <3>3. badmax(a, ognpwgts[q][a]) => gnpwgts'[q][a] <= ognpwgts[q][a]
      BY <2>8, <2>13, <3>1
    <3> QED BY <1>1, <3>2, <3>3
  <2> QED BY <1>8, <2>7, <2>14 DEF IInv
<1> QED BY <1>9, <1>10 DEF Attempt

\* When all have moved, a part that was too heavy has not grown on any PE, and
\* so not in total.
LEMMA SumsKeeps ==
  ASSUME IInv, Sums, refiner # "KWayBalance"
  PROVE  IInv'
<1>1. /\ pc' = [p \in PE |-> "commit"]
      /\ pgnpwgts' = [a \in Parts |-> SumFunction([p \in PE |-> lnpwgts[p][a]])]
      /\ \A p \in PE : pc[p] = "one"
      /\ UNCHANGED <<program, lnpwgts, gnpwgts, ognpwgts, todo, moved>>
  BY DEF Sums
<1>2. \A p \in PE : pc'[p] = "commit"
  BY <1>1
<1>3. Typed'
  <2>1. pc' \in [PE -> DirectionPhases \union {"start", "done"}]
    BY <1>1 DEF DirectionPhases
  <2> QED BY <1>1, <2>1 DEF IInv, Typed
<1>4. Together'
  BY <1>2 DEF Together, DirectionPhases
<1>5. AtStart' /\ Moving'
  BY <1>2, PEsFinite DEF AtStart, Moving
<1>6. ASSUME NEW p \in PE, NEW a \in Parts, badmax(a, ognpwgts[p][a])
      PROVE  pgnpwgts'[a] <= ognpwgts[p][a]
  <2> DEFINE f == [q \in PE |-> lnpwgts[q][a]]
             g == [q \in PE |-> begun(q, a)]
  <2>1. \A q \in PE : /\ lnpwgts[q][a] \in Int /\ gnpwgts[q][a] \in Int
                      /\ ognpwgts[q][a] \in Int
    BY DEF IInv, Typed
  <2>2. \A q \in PE : ognpwgts[q][a] = SumFunction(g)
    BY <1>1 DEF IInv, Moving
  <2>3. \A q \in PE : badmax(a, ognpwgts[q][a]) => gnpwgts[q][a] <= ognpwgts[q][a]
    BY <1>1 DEF IInv, Moving
  <2>4. \A q \in PE : ognpwgts[q][a] = ognpwgts[p][a]
    BY <2>2, Zenon
  <2>5. \A q \in PE : gnpwgts[q][a] <= ognpwgts[q][a]
    BY <1>6, <2>3, <2>4
  <2>6. \A q \in PE : f[q] \in Int /\ g[q] \in Int /\ f[q] <= g[q]
    BY <2>1, <2>5 DEF begun
  <2>7. DOMAIN f = PE /\ DOMAIN g = PE
    OBVIOUS
  <2>8. pgnpwgts'[a] = SumFunction(f)
    BY <1>1
  <2> HIDE DEF f, g
  <2>9. SumFunctionOnSet(f, PE) <= SumFunctionOnSet(g, PE)
    BY <2>6, PEsFinite, SumMonotone
  <2>10. SumFunction(f) <= SumFunction(g)
    BY <2>7, <2>9, SumOverPEs
  <2> QED BY <2>2, <2>8, <2>10
<1>7. HeavyPartsNeverGrow'
  BY <1>1, <1>6 DEF HeavyPartsNeverGrow, badmax
<1> QED BY <1>3, <1>4, <1>5, <1>7 DEF IInv

LEMMA AnnounceKeeps ==
  ASSUME IInv, NEW p \in PE, NEW tmp, NEW info, NEW lnp \in [Parts -> Int], NEW kept,
         pc[p] = "commit" \/ (pc[p] = "one" /\ refiner = "KWayBalance"),
         Announce(p, tmp, info, lnp, kept)
  PROVE  IInv'
<1>1. /\ pc' = [pc EXCEPT ![p] = "where"] /\ lnpwgts' = [lnpwgts EXCEPT ![p] = lnp]
      /\ UNCHANGED <<program, gnpwgts, ognpwgts, todo, moved>>
  BY DEF Announce
<1>2. lnpwgts' \in [PE -> [Parts -> Int]]
  BY <1>1 DEF IInv, Typed
<1>3. pc[p] \in DirectionPhases
  BY DEF DirectionPhases
<1>4. pc[p] = "one" => refiner = "KWayBalance"
  OBVIOUS
<1> QED BY <1>1, <1>2, <1>3, <1>4, PhaseKeeps

LEMMA CommitKeeps ==
  ASSUME IInv, NEW p \in PE, CommitUndone(p)
  PROVE  IInv'
<1>1. pc[p] = "commit"
  BY DEF CommitUndone
<1>2. Announce(p, Undone(p).tmp, Undone(p).info, Undone(p).lnp, Undone(p).kept)
  BY DEF CommitUndone
<1>3. Undone(p).lnp \in [Parts -> Int]
  BY UndoneWeights DEF IInv
<1> QED BY <1>1, <1>2, <1>3, AnnounceKeeps

LEMMA BalanceCommitKeeps ==
  ASSUME IInv, NEW p \in PE, BalanceCommit(p)
  PROVE  IInv'
<1>1. /\ refiner = "KWayBalance" /\ pc[p] = "one"
      /\ Announce(p, tmp_where[p], ckrinfo, lnpwgts[p], ToSet(moved[p]))
  BY DEF BalanceCommit
<1>2. lnpwgts[p] \in [Parts -> Int]
  BY DEF IInv, Typed
<1> QED BY <1>1, <1>2, AnnounceKeeps

LEMMA RecomputeKeeps ==
  ASSUME IInv, NEW p \in PE, Recompute(p)
  PROVE  IInv'
<1>1. PICK phase \in {"supdate", "sum"} :
        /\ pc[p] \in {"where", "supdate"} /\ pc' = [pc EXCEPT ![p] = phase]
        /\ UNCHANGED <<program, lnpwgts, gnpwgts, ognpwgts, todo, moved>>
  BY DEF Recompute, AskUpdates, Update
<1>2. pc[p] \in DirectionPhases /\ pc[p] # "one"
  BY <1>1 DEF DirectionPhases
<1>3. lnpwgts' \in [PE -> [Parts -> Int]]
  BY <1>1 DEF IInv, Typed
<1> QED BY <1>1, <1>2, <1>3, PhaseKeeps

\* The goals of KWayFM and KWayAdaptiveRefine are candidates.
LEMMA GoalsFit ==
  ASSUME NEW p, NEW v
  PROVE  /\ \A a \in FMGoals(p, v) : ~badmax(a, gnpwgts[p][a] + VWgt[v])
         /\ \A a \in AdaptiveGoals(p, v) : ~badmax(a, gnpwgts[p][a] + VWgt[v])
<1>1. \A a \in Candidates(p, v) : ~badmax(a, gnpwgts[p][a] + VWgt[v])
  BY DEF Candidates
<1>2. FMGoals(p, v) \subseteq Candidates(p, v)
  BY DEF FMGoals, Best
<1>3. AdaptiveGoals(p, v) \subseteq Candidates(p, v)
  BY DEF AdaptiveGoals, Best
<1> QED BY <1>1, <1>2, <1>3

LEMMA VisitKeeps ==
  ASSUME IInv, NEW p \in PE, FMVisit(p) \/ BalanceVisit(p) \/ AdaptiveVisit(p)
  PROVE  IInv'
<1>1. CASE FMVisit(p)
  BY <1>1, AttemptKeeps, GoalsFit DEF FMVisit
<1>2. CASE BalanceVisit(p)
  BY <1>2, AttemptKeeps DEF BalanceVisit
<1>3. CASE AdaptiveVisit(p)
  <2>1. PICK v \in todo[p] : Attempt(p, v, AdaptiveGoals(p, v))
    BY <1>3, Zenon DEF AdaptiveVisit
  <2> QED BY <2>1, AttemptKeeps, GoalsFit
<1> QED BY <1>1, <1>2, <1>3

LEMMA StutterKeeps ==
  ASSUME IInv, UNCHANGED vars
  PROVE  IInv'
<1>1. UNCHANGED <<program, pc, lnpwgts, gnpwgts, ognpwgts, pgnpwgts, todo, moved>>
  BY DEF vars
<1>2. Typed' /\ AtStart' /\ Moving' /\ HeavyPartsNeverGrow'
  BY <1>1 DEF IInv, Typed, AtStart, Weights, Moving, begun, badmax, HeavyPartsNeverGrow, refiner
<1>3. Together'
  BY <1>1 DEF IInv, Together, refiner
<1> QED BY <1>2, <1>3 DEF IInv

LEMMA Steps ==
  ASSUME IInv, [Next]_vars
  PROVE  IInv'
<1>1. ASSUME NEW p \in PE, FMStep(p)
      PROVE  IInv'
  BY <1>1, VisitKeeps, CommitKeeps, RecomputeKeeps DEF FMStep, FMCommit, FMRecompute
<1>2. ASSUME NEW p \in PE, BalanceStep(p)
      PROVE  IInv'
  BY <1>2, VisitKeeps, BalanceCommitKeeps, RecomputeKeeps DEF BalanceStep, BalanceRecompute
<1>3. ASSUME NEW p \in PE, AdaptiveStep(p)
      PROVE  IInv'
  BY <1>3, VisitKeeps, CommitKeeps, RecomputeKeeps
     DEF AdaptiveStep, AdaptiveCommit, AdaptiveRecompute
<1>4. ASSUME FMReduce \/ AdaptiveReduce
      PROVE  IInv'
  BY <1>4, SumsKeeps DEF FMReduce, AdaptiveReduce
<1>5. ASSUME FMEndPass \/ BalanceEndPass \/ AdaptiveEndPass
      PROVE  IInv'
  BY <1>5, EndKeeps DEF FMEndPass, BalanceEndPass, AdaptiveEndPass
<1> QED BY <1>1, <1>2, <1>3, <1>4, <1>5, StartKeeps, NextKeeps, StutterKeeps DEF Next

\* The invariant of the proof holds in every state, for any number of PEs and
\* parts, any graph, weights, targets and sequence of refiners.
THEOREM Invariance == Spec => []IInv
<1>1. Init => IInv
  BY Begins
<1>2. IInv /\ [Next]_vars => IInv'
  BY Steps
<1> QED BY <1>1, <1>2, PTL DEF Spec

\* The assertion before the undo loop of KWayFM and KWayAdaptiveRefine: what
\* the moves of all PEs together make of a part that was too heavy is not more
\* than it had, although each PE knows of its own moves only.
THEOREM HeavyPartsStay == Spec => []HeavyPartsNeverGrow
<1>1. IInv => HeavyPartsNeverGrow
  BY DEF IInv
<1> QED BY <1>1, Invariance, PTL

-----------------------------------------------------------------------------
(* The bookkeeping: the degrees, the weights and the cut that the PEs keep *)
(* by increments, undo and recompute in part are those of the partition.   *)

cur(v) == where[Owner[v]][v]

\* What has been sent, and what has not been taken yet.
WhereOut(q) == pc[q] \in {"where", "supdate", "sum"}
AskedOut(q) == pc[q] \in {"supdate", "sum"}
WhereDue(p) == pc[p] \in {"one", "commit", "where"}
AskedDue(p) == pc[p] \in {"one", "commit", "where", "supdate"}

\* The messages: the new parts of the vertices that moved, and the vertices
\* whose degrees are to be recomputed.
GoodWhere(q, p, m) ==
  \A v \in Send(q, p) : IF v \in DOMAIN m THEN m[v] = cur(v) ELSE where[p][v] = cur(v)
GoodAsks(q, p, a) ==
  \A v \in Own(p) : \A u \in Own(q) : u \in Adj[v] /\ where[p][u] # cur(u) => v \in a

\* What is on its way from q to p.
Box(q, p) ==
  IF AskedOut(q) /\ WhereDue(p)
  THEN \E m, a : chan[q][p] = <<m, a>> /\ a \subseteq Own(p) /\ GoodWhere(q, p, m) /\ GoodAsks(q, p, a)
  ELSE IF WhereOut(q) /\ WhereDue(p)
  THEN \E m : chan[q][p] = <<m>> /\ GoodWhere(q, p, m) /\ GoodAsks(q, p, supdate[q])
  ELSE IF AskedOut(q) /\ AskedDue(p)
  THEN \E a : chan[q][p] = <<a>> /\ a \subseteq Own(p)
  ELSE chan[q][p] = <<>>
Boxes == \A p \in PE : \A q \in Nbrs(p) : Box(q, p)

\* Nobody is ahead of a neighbour by more than a message.
NotAhead ==
  \A p \in PE : \A q \in Nbrs(p) :
    /\ pc[p] = "supdate" => WhereOut(q)
    /\ pc[p] = "sum" => AskedOut(q)

\* A PE's copy of a remote vertex is right unless a message is to change it.
Copies ==
  \A p \in PE : \A v \in Ghosts(p) :
    ~(WhereDue(p) /\ WhereOut(Owner[v])) => where[p][v] = cur(v)

Shape ==
  /\ where = [p \in PE |-> where[p]]
  /\ tmp_where = [p \in PE |-> tmp_where[p]]
  /\ \A p \in PE : /\ where[p] \in [Own(p) \cup Ghosts(p) -> Parts]
                   /\ tmp_where[p] \in [Own(p) -> Parts]
  /\ todo = [p \in PE |-> todo[p]] /\ moved = [p \in PE |-> moved[p]]
  /\ ckrinfo = [v \in Vertex |-> ckrinfo[v]]
  /\ oldEDs \in [Vertex -> Int]
  /\ lmincut \in [PE -> Int]
  /\ update \in [PE -> SUBSET Vertex] /\ supdate \in [PE -> SUBSET Vertex]
  /\ \A p \in PE : /\ update[p] \subseteq Own(p) /\ supdate[p] \subseteq Ghosts(p)
                   /\ dirty[p] \subseteq Own(p)
  /\ chan = [q \in PE |-> [p \in PE |-> chan[q][p]]]

\* Degrees have their types also where they are out of date.
InfoTyped ==
  \A v \in Vertex : /\ ckrinfo[v].id \in Nat /\ ckrinfo[v].ed \in Nat
                    /\ DOMAIN ckrinfo[v].nbr \subseteq Parts

\* The vertices that neighbours ask p to update.
Asked(p, v) ==
  \E q \in Nbrs(p) : \/ pc[q] = "where" /\ v \in supdate[q]
                     \/ AskedOut(q) /\ v \in Head(chan[q][p])

\* The degrees of a vertex, and the external degree its PE counts for it, are
\* those in w.
Exact(v, w) == ckrinfo[v] = Degrees(v, w)
Counted(v, w) == oldEDs[v] = Degrees(v, w).ed

Known ==
  \A p \in PE : \A v \in Own(p) :
    /\ pc[p] \in {"one", "commit"} => Exact(v, Tentative(p)) /\ Counted(v, where[p])
    /\ pc[p] = "where" => Exact(v, where[p]) /\ (v \in update[p] \/ Counted(v, where[p]))
    /\ pc[p] = "supdate" => \/ v \in update[p] \/ Asked(p, v)
                            \/ Exact(v, where[p]) /\ Counted(v, where[p])
    /\ pc[p] \in {"sum", "start", "done"} => Exact(v, where[p]) /\ Counted(v, where[p])

Moves ==
  \A p \in PE : \A v \in Own(p) : tmp_where[p][v] # where[p][v] =>
    pc[p] \in {"one", "commit"} /\ v \in ToSet(moved[p])

PartsOwn == \A p \in PE : \A a \in Parts : lnpwgts[p][a] = PartWeight(Own(p), tmp_where[p], a)
PartsKnown ==
  /\ \A p \in PE : \A a \in Parts : /\ gnpwgts[p][a] \in Nat
                                    /\ pc[p] = "one" => lnpwgts[p][a] <= gnpwgts[p][a]
  /\ (\A p \in PE : pc[p] \in {"start", "done"}) =>
       \A p \in PE : \A a \in Parts : gnpwgts[p][a] = PartWeight(Vertex, Current, a)
  /\ (\A p \in PE : pc[p] = "one") =>
       \A p \in PE : \A a \in Parts : ognpwgts[p][a] = PartWeight(Vertex, Current, a)
  /\ \A p \in PE : pc[p] = "one" /\ todo[p] = Own(p) =>
       moved[p] = <<>> /\ gnpwgts[p] = ognpwgts[p]

Cuts ==
  /\ \A p \in PE : lmincut[p] = SumFunction([v \in Own(p) |-> oldEDs[v]])
  /\ (\A p \in PE : pc[p] \in {"start", "done"}) => mincut = SumFunction(lmincut) \div 2

Passes ==
  /\ program \in Programs \union {<<"KWayAdaptiveRefine">>} /\ c \in {0, 1}
  /\ pass \in Nat
  /\ (\A p \in PE : pc[p] = "done") => pass <= npasses
  /\ ~(\A p \in PE : pc[p] = "done") => pass < IF refiner = "KWayBalance" THEN 1 ELSE npasses

InfoInv == /\ Shape /\ Boxes /\ NotAhead /\ Copies /\ InfoTyped /\ Known /\ Moves
           /\ PartsOwn /\ PartsKnown /\ Cuts /\ Passes

-----------------------------------------------------------------------------
(* Degrees as sums.                                                        *)

Near(v, w, a) == {u \in Adj[v] : w[u] = a}
Into(v, w, a) == SumFunctionOnSet(AdjWgt[v], Near(v, w, a))
Total(v) == SumFunctionOnSet(AdjWgt[v], Adj[v])

LEMMA AdjFinite ==
  ASSUME NEW v \in Vertex
  PROVE  /\ IsFiniteSet(Adj[v]) /\ Adj[v] \subseteq Vertex
         /\ \A u \in Adj[v] : AdjWgt[v][u] \in Nat /\ AdjWgt[v][u] > 0 /\ AdjWgt[v][u] \in Int
<1>1. Adj[v] \subseteq Vertex
  BY AdjAssumption
<1>2. IsFiniteSet(Adj[v])
  BY <1>1, FiniteAssumption, FS_Subset
<1>3. \A u \in Adj[v] : AdjWgt[v][u] \in Nat \ {0}
  BY <1>1, EdgesBothWays, WeightAssumption
<1> QED BY <1>1, <1>2, <1>3

LEMMA NearFinite ==
  ASSUME NEW v \in Vertex, NEW w, NEW a
  PROVE  /\ IsFiniteSet(Near(v, w, a)) /\ Near(v, w, a) \subseteq Adj[v]
         /\ \A u \in Near(v, w, a) : AdjWgt[v][u] \in Nat /\ AdjWgt[v][u] \in Int
BY AdjFinite, FS_Subset DEF Near

\* A degree is not negative, and 0 only if there is no neighbour in the part.
LEMMA IntoNat ==
  ASSUME NEW v \in Vertex, NEW w, NEW a
  PROVE  Into(v, w, a) \in Nat /\ (Into(v, w, a) = 0 <=> Near(v, w, a) = {})
<1> DEFINE N == Near(v, w, a)
           f == AdjWgt[v]
<1>1. IsFiniteSet(N) /\ \A u \in N : f[u] \in Nat /\ f[u] \in Int /\ f[u] > 0
  BY NearFinite, AdjFinite
<1> HIDE DEF N, f
<1>2. SumFunctionOnSet(f, N) \in Nat
  BY <1>1, SumNat
<1>3. N = {} => SumFunctionOnSet(f, N) = 0
  BY SumEmpty
<1>4. ASSUME NEW u \in N PROVE SumFunctionOnSet(f, N) > 0
  <2>1. SumFunctionOnSet(f, N) = f[u] + SumFunctionOnSet(f, N \ {u})
    BY <1>1, SumTakes
  <2>2. IsFiniteSet(N \ {u}) /\ \A x \in N \ {u} : f[x] \in Nat
    BY <1>1, FS_Subset
  <2>3. SumFunctionOnSet(f, N \ {u}) \in Nat
    BY <2>2, SumNat
  <2> QED BY <1>1, <2>1, <2>3
<1> QED BY <1>2, <1>3, <1>4 DEF Into, N, f

LEMMA TotalInt == \A v \in Vertex : Total(v) \in Int
BY AdjFinite, SumType DEF Total

\* The external degree is what is left of all edges.
LEMMA ExternalIs ==
  ASSUME NEW v \in Vertex, NEW w
  PROVE  Degrees(v, w).ed = Total(v) - Into(v, w, w[v])
<1> DEFINE R == {u \in Adj[v] : w[u] # w[v]}
           S == Near(v, w, w[v])
           f == AdjWgt[v]
<1>1. IsFiniteSet(R) /\ IsFiniteSet(S) /\ R \intersect S = {} /\ R \union S = Adj[v]
  BY AdjFinite, FS_Subset DEF Near
<1>2. \A u \in R \union S : f[u] \in Int
  BY <1>1, AdjFinite
<1>3. Degrees(v, w).ed = SumFunctionOnSet(f, R)
  BY DEF Degrees
<1>4. SumFunctionOnSet(f, R) \in Int /\ SumFunctionOnSet(f, S) \in Int
  <2>1. \A u \in R : f[u] \in Int
    BY <1>2
  <2>2. \A u \in S : f[u] \in Int
    BY <1>2
  <2> HIDE DEF R, S, f
  <2> QED BY <1>1, <2>1, <2>2, SumType
<1>5. SumFunctionOnSet(f, R \union S) = SumFunctionOnSet(f, R) + SumFunctionOnSet(f, S)
  <2> HIDE DEF R, S, f
  <2> QED BY <1>1, <1>2, SumUnion
<1>6. Total(v) = SumFunctionOnSet(f, R \union S) /\ Into(v, w, w[v]) = SumFunctionOnSet(f, S)
  BY <1>1 DEF Total, Into
<1> HIDE DEF R, S, f
<1> QED BY <1>3, <1>4, <1>5, <1>6

\* What a list of neighbouring parts says of part a.
Listed(nbr, a) == IF a \in DOMAIN nbr THEN nbr[a] ELSE 0
IsList(nbr) == /\ nbr = [a \in DOMAIN nbr |-> nbr[a]]
               /\ \A a \in DOMAIN nbr : nbr[a] # 0 /\ nbr[a] \in Int

LEMMA ListsEqual ==
  ASSUME NEW f, NEW g, IsList(f), IsList(g), \A a : Listed(f, a) = Listed(g, a)
  PROVE  f = g
<1>1. \A a : a \in DOMAIN f <=> a \in DOMAIN g
  BY DEF IsList, Listed
<1>2. DOMAIN f = DOMAIN g
  BY <1>1
<1>3. \A a \in DOMAIN f : f[a] = g[a]
  BY <1>2 DEF Listed
<1>4. f = [a \in DOMAIN f |-> f[a]] /\ g = [a \in DOMAIN g |-> g[a]]
  BY DEF IsList
<1> QED BY <1>2, <1>3, <1>4

LEMMA ListIs ==
  ASSUME NEW v \in Vertex, NEW w
  PROVE  /\ IsList(Degrees(v, w).nbr)
         /\ \A a : Listed(Degrees(v, w).nbr, a) = IF a = w[v] THEN 0 ELSE Into(v, w, a)
         /\ \A a : a \in DOMAIN Degrees(v, w).nbr <=> a # w[v] /\ \E u \in Adj[v] : w[u] = a
<1> DEFINE D == {w[u] : u \in Adj[v]} \ {w[v]}
           nbr == Degrees(v, w).nbr
<1>1. nbr = [a \in D |-> Into(v, w, a)]
  BY DEF Degrees, Into, Near
<1>2. \A a : a \in D <=> a # w[v] /\ Near(v, w, a) # {}
  BY DEF Near
<1>3. \A a : a \in D <=> a # w[v] /\ \E u \in Adj[v] : w[u] = a
  OBVIOUS
<1> HIDE DEF nbr, D
<1>4. \A a : Into(v, w, a) \in Int /\ (Into(v, w, a) = 0 <=> Near(v, w, a) = {})
  BY IntoNat
<1>5. DOMAIN nbr = D /\ \A a \in D : nbr[a] = Into(v, w, a)
  BY <1>1
<1>6. nbr = [a \in DOMAIN nbr |-> nbr[a]]
  BY <1>1, <1>5
<1>7. IsList(nbr)
  BY <1>2, <1>4, <1>5, <1>6 DEF IsList
<1>8. \A a : Listed(nbr, a) = IF a = w[v] THEN 0 ELSE Into(v, w, a)
  BY <1>2, <1>4, <1>5 DEF Listed
<1> QED BY <1>3, <1>5, <1>7, <1>8 DEF nbr

\* Adding to a list.
LEMMA Added ==
  ASSUME NEW nbr, IsList(nbr), NEW a, NEW w \in Int
  PROVE  /\ IsList(AddTo(nbr, a, w))
         /\ \A b : Listed(AddTo(nbr, a, w), b) = IF b = a THEN Listed(nbr, a) + w ELSE Listed(nbr, b)
<1> DEFINE deg == w + IF a \in DOMAIN nbr THEN nbr[a] ELSE 0
           new == AddTo(nbr, a, w)
<1>1. deg \in Int /\ deg = Listed(nbr, a) + w
  BY DEF IsList, Listed
<1>2. new = IF deg = 0 THEN [b \in DOMAIN nbr \ {a} |-> nbr[b]]
            ELSE [b \in DOMAIN nbr \cup {a} |-> IF b = a THEN deg ELSE nbr[b]]
  BY DEF AddTo
<1> HIDE DEF deg, new
<1>3. CASE deg = 0
  <2>1. DOMAIN new = DOMAIN nbr \ {a} /\ \A b \in DOMAIN new : new[b] = nbr[b]
    BY <1>2, <1>3
  <2>2. new = [b \in DOMAIN new |-> new[b]]
    BY <1>2, <1>3
  <2>3. IsList(new)
    BY <2>1, <2>2 DEF IsList
  <2>4. \A b : Listed(new, b) = IF b = a THEN Listed(nbr, a) + w ELSE Listed(nbr, b)
    BY <1>1, <1>3, <2>1 DEF Listed
  <2> QED BY <2>3, <2>4 DEF new
<1>4. CASE deg # 0
  <2>1. DOMAIN new = DOMAIN nbr \union {a}
        /\ \A b \in DOMAIN new : new[b] = IF b = a THEN deg ELSE nbr[b]
    BY <1>2, <1>4
  <2>2. new = [b \in DOMAIN new |-> new[b]]
    BY <1>2, <1>4
  <2>3. IsList(new)
    BY <1>1, <1>4, <2>1, <2>2 DEF IsList
  <2>4. \A b : Listed(new, b) = IF b = a THEN Listed(nbr, a) + w ELSE Listed(nbr, b)
    BY <1>1, <2>1 DEF Listed
  <2> QED BY <2>3, <2>4 DEF new
<1> QED BY <1>3, <1>4

LEMMA DegreesAre ==
  ASSUME NEW v \in Vertex, NEW w, NEW r, r = [id |-> r.id, ed |-> r.ed, nbr |-> r.nbr],
         r.id = Into(v, w, w[v]), r.ed = Total(v) - Into(v, w, w[v]), IsList(r.nbr),
         \A a : Listed(r.nbr, a) = IF a = w[v] THEN 0 ELSE Into(v, w, a)
  PROVE  r = Degrees(v, w)
<1> DEFINE d == Degrees(v, w)
<1>1. d = [id |-> d.id, ed |-> d.ed, nbr |-> d.nbr] /\ d.id = Into(v, w, w[v])
  BY DEF Degrees, Into, Near
<1>2. d.ed = Total(v) - Into(v, w, w[v])
  BY ExternalIs
<1>3. IsList(d.nbr) /\ \A a : Listed(d.nbr, a) = IF a = w[v] THEN 0 ELSE Into(v, w, a)
  BY ListIs
<1> HIDE DEF d
<1>4. r.nbr = d.nbr
  BY <1>3, ListsEqual
<1> QED BY <1>1, <1>2, <1>4 DEF d

\* Degrees depend on a vertex and its neighbours only.
LEMMA DegreesSame ==
  ASSUME NEW v \in Vertex, NEW w, NEW x, w[v] = x[v], \A u \in Adj[v] : w[u] = x[u]
  PROVE  Degrees(v, w) = Degrees(v, x)
<1>1. \A a : {u \in Adj[v] : w[u] = a} = {u \in Adj[v] : x[u] = a}
  OBVIOUS
<1>2. {u \in Adj[v] : w[u] # w[v]} = {u \in Adj[v] : x[u] # x[v]}
  OBVIOUS
<1>3. {w[u] : u \in Adj[v]} = {x[u] : u \in Adj[v]}
  OBVIOUS
<1>4. \A a : SumFunctionOnSet(AdjWgt[v], {u \in Adj[v] : w[u] = a})
            = SumFunctionOnSet(AdjWgt[v], {u \in Adj[v] : x[u] = a})
  BY <1>1
<1> QED BY <1>2, <1>3, <1>4 DEF Degrees

LEMMA DegreesTyped ==
  ASSUME NEW v \in Vertex, NEW w, w[v] \in Parts, \A u \in Adj[v] : w[u] \in Parts
  PROVE  /\ Degrees(v, w).id \in Nat /\ Degrees(v, w).ed \in Nat
         /\ DOMAIN Degrees(v, w).nbr \subseteq Parts
<1>1. Degrees(v, w).id \in Nat
  BY IntoNat DEF Degrees, Into, Near
<1>2. Degrees(v, w).ed \in Nat
  <2> DEFINE R == {u \in Adj[v] : w[u] # w[v]}
             f == AdjWgt[v]
  <2>1. IsFiniteSet(R) /\ \A u \in R : f[u] \in Nat
    BY AdjFinite, FS_Subset
  <2>2. Degrees(v, w).ed = SumFunctionOnSet(f, R)
    BY DEF Degrees
  <2> HIDE DEF R, f
  <2> QED BY <2>1, <2>2, SumNat
<1>3. DOMAIN Degrees(v, w).nbr \subseteq Parts
  BY ListIs
<1> QED BY <1>1, <1>2, <1>3

-----------------------------------------------------------------------------
(* A vertex moves.                                                         *)

\* On S and v, w and x differ in vertex v only.
OneMoves(v, w, x, S) == w[v] # x[v] /\ \A u \in S \ {v} : x[u] = w[u]

LEMMA IntoOfMoved ==
  ASSUME NEW v \in Vertex, NEW w, NEW x, OneMoves(v, w, x, Adj[v])
  PROVE  \A a : Into(v, x, a) = Into(v, w, a)
<1>1. \A u \in Adj[v] : x[u] = w[u]
  BY LoopAssumption DEF OneMoves
<1>2. \A a : Near(v, x, a) = Near(v, w, a)
  BY <1>1 DEF Near
<1> QED BY <1>2 DEF Into

LEMMA IntoOfNeighbour ==
  ASSUME NEW v \in Vertex, NEW u \in Adj[v], NEW w, NEW x,
         OneMoves(v, w, x, Adj[u])
  PROVE  /\ AdjWgt[u][v] \in Int
         /\ \A a : Into(u, x, a) = IF a = x[v] THEN Into(u, w, a) + AdjWgt[u][v]
                                   ELSE IF a = w[v] THEN Into(u, w, a) - AdjWgt[u][v]
                                   ELSE Into(u, w, a)
<1> DEFINE from == w[v]
           to   == x[v]
<1>1. u \in Vertex /\ v \in Adj[u]
  BY EdgesBothWays
<1>2. AdjWgt[u][v] \in Int
  BY <1>1, AdjFinite
<1>3. \A a : a # to /\ a # from => Near(u, x, a) = Near(u, w, a)
  BY DEF Near, OneMoves
<1> DEFINE f == AdjWgt[u]
<1>4. Into(u, x, to) = Into(u, w, to) + AdjWgt[u][v]
  <2> DEFINE N == Near(u, w, to)
  <2>1. Near(u, x, to) = N \union {v} /\ v \notin N
    BY <1>1 DEF Near, OneMoves
  <2>2. IsFiniteSet(N) /\ \A y \in N \union {v} : f[y] \in Int
    BY <1>1, <1>2, NearFinite
  <2> HIDE DEF N, f
  <2>3. SumFunctionOnSet(f, N \union {v}) = f[v] + SumFunctionOnSet(f, N)
    BY <2>1, <2>2, SumAdd
  <2>4. SumFunctionOnSet(f, N) \in Int /\ f[v] \in Int
    BY <2>2, SumType
  <2>5. SumFunctionOnSet(f, N \union {v}) = SumFunctionOnSet(f, N) + f[v]
    BY <2>3, <2>4
  <2> QED BY <2>1, <2>5 DEF Into, N, f
<1>5. Into(u, x, from) = Into(u, w, from) - AdjWgt[u][v]
  <2> DEFINE N == Near(u, x, from)
  <2>1. Near(u, w, from) = N \union {v} /\ v \notin N
    BY <1>1 DEF Near, OneMoves
  <2>2. IsFiniteSet(N) /\ \A y \in N \union {v} : f[y] \in Int
    BY <1>1, <1>2, NearFinite
  <2> HIDE DEF N, f
  <2>3. SumFunctionOnSet(f, N \union {v}) = f[v] + SumFunctionOnSet(f, N)
    BY <2>1, <2>2, SumAdd
  <2>4. SumFunctionOnSet(f, N) \in Int /\ f[v] \in Int
    BY <2>2, SumType
  <2>5. SumFunctionOnSet(f, N) = SumFunctionOnSet(f, N \union {v}) - f[v]
    BY <2>3, <2>4
  <2> QED BY <2>1, <2>5 DEF Into, N, f
<1>6. from # to
  BY DEF OneMoves
<1>7. \A a : a # to /\ a # from => Into(u, x, a) = Into(u, w, a)
  BY <1>3 DEF Into
<1> QED BY <1>2, <1>4, <1>5, <1>6, <1>7

\* The increments make of the degrees of the vertex that moves those after the move.
LEMMA MovedInfoRight ==
  ASSUME NEW v \in Vertex, NEW w, NEW x,
         OneMoves(v, w, x, Adj[v]), x[v] \in DOMAIN Degrees(v, w).nbr
  PROVE  MovedInfo(Degrees(v, w), w[v], x[v]) = Degrees(v, x)
<1>0. \A a : Into(v, x, a) = Into(v, w, a)
  BY IntoOfMoved
<1> DEFINE from == w[v]
           to == x[v]
           r == Degrees(v, w)
           I(a) == Into(v, w, a)
           less == AddTo(r.nbr, to, -r.nbr[to])
           new == AddTo(less, from, r.id)
           m == MovedInfo(r, from, to)
<1>1. w[v] = from /\ x[v] = to /\ from # to
  BY DEF OneMoves
<1>2. IsList(r.nbr) /\ \A a : Listed(r.nbr, a) = IF a = from THEN 0 ELSE I(a)
  BY <1>1, ListIs
<1>3. r.id = I(from) /\ r.ed = Total(v) - I(from)
  BY <1>1, ExternalIs DEF Degrees, Into, Near
<1>4. r.nbr[to] = I(to)
  BY <1>1, <1>2 DEF Listed
<1>5. \A a : I(a) \in Int
  BY IntoNat
<1>6. Total(v) \in Int
  BY TotalInt
<1>7. \A a : Into(v, x, a) = I(a)
  BY <1>0
<1>8. m = [id |-> r.nbr[to], ed |-> r.ed + r.id - r.nbr[to], nbr |-> new]
  BY DEF MovedInfo
<1> HIDE DEF r, I, m, from, to
<1>9. -r.nbr[to] \in Int /\ r.id \in Int
  BY <1>3, <1>4, <1>5
<1>10. IsList(less) /\ \A b : Listed(less, b) = IF b = to THEN Listed(r.nbr, to) + (-r.nbr[to])
                                                 ELSE Listed(r.nbr, b)
  BY <1>2, <1>9, Added
<1> HIDE DEF less
<1>11. IsList(new) /\ \A b : Listed(new, b) = IF b = from THEN Listed(less, from) + r.id
                                               ELSE Listed(less, b)
  BY <1>9, <1>10, Added
<1> HIDE DEF new
<1>12. Listed(less, to) = 0
  <2>1. Listed(r.nbr, to) = I(to) /\ Listed(less, to) = Listed(r.nbr, to) + (-r.nbr[to])
    BY <1>1, <1>2, <1>10
  <2> QED BY <2>1, <1>4, <1>5
<1>13. Listed(new, from) = I(from)
  <2>1. Listed(less, from) = 0
    BY <1>1, <1>2, <1>10
  <2> QED BY <2>1, <1>3, <1>5, <1>11
<1>14. \A a : Listed(new, a) = IF a = to THEN 0 ELSE I(a)
  <2> SUFFICES ASSUME NEW a PROVE Listed(new, a) = IF a = to THEN 0 ELSE I(a)
    OBVIOUS
  <2>1. CASE a = to
    BY <1>1, <1>11, <1>12, <2>1
  <2>2. CASE a = from
    BY <1>1, <1>13, <2>2
  <2>3. CASE a # to /\ a # from
    BY <1>2, <1>10, <1>11, <2>3
  <2> QED BY <2>1, <2>2, <2>3
<1>15. m.ed = Total(v) - I(to)
  <2>1. m.ed = r.ed + r.id - r.nbr[to]
    BY <1>8
  <2> QED BY <2>1, <1>3, <1>4, <1>5, <1>6
<1>16. m = [id |-> m.id, ed |-> m.ed, nbr |-> m.nbr] /\ m.id = I(to) /\ m.nbr = new
  BY <1>4, <1>8
<1>17. /\ m.id = Into(v, x, x[v]) /\ m.ed = Total(v) - Into(v, x, x[v])
       /\ \A a : Listed(m.nbr, a) = IF a = x[v] THEN 0 ELSE Into(v, x, a)
  BY <1>1, <1>7, <1>14, <1>15, <1>16
<1>18. m = Degrees(v, x)
  BY <1>11, <1>16, <1>17, DegreesAre
<1> QED BY <1>18 DEF m, r, from, to

\* And so for its neighbours.
LEMMA NeighbourInfoRight ==
  ASSUME NEW v \in Vertex, NEW u \in Adj[v], NEW w, NEW x,
         OneMoves(v, w, x, Adj[u] \union {u})
  PROVE  NeighbourInfo(Degrees(u, w), w[u], w[v], x[v], AdjWgt[u][v]) = Degrees(u, x)
<1>0. /\ AdjWgt[u][v] \in Int
      /\ \A a : Into(u, x, a) = IF a = x[v] THEN Into(u, w, a) + AdjWgt[u][v]
                                ELSE IF a = w[v] THEN Into(u, w, a) - AdjWgt[u][v]
                                ELSE Into(u, w, a)
  <2>1. OneMoves(v, w, x, Adj[u])
    BY DEF OneMoves
  <2> QED BY <2>1, IntoOfNeighbour
<1> DEFINE from == w[v]
           to == x[v]
           r == Degrees(u, w)
           mine == w[u]
           g == AdjWgt[u][v]
           I(a) == Into(u, w, a)
           J(a) == Into(u, x, a)
           less == IF mine # from THEN AddTo(r.nbr, from, -g) ELSE r.nbr
           new == IF mine # to THEN AddTo(less, to, g) ELSE less
           m == NeighbourInfo(r, mine, from, to, g)
<1>1. u \in Vertex /\ u # v /\ x[u] = mine /\ from # to /\ from = w[v] /\ to = x[v]
  <2>1. u \in Vertex /\ v \in Adj[u]
    BY EdgesBothWays
  <2>2. u # v
    BY LoopAssumption
  <2> QED BY <2>1, <2>2 DEF OneMoves
<1>2. IsList(r.nbr) /\ \A a : Listed(r.nbr, a) = IF a = mine THEN 0 ELSE I(a)
  BY <1>1, ListIs
<1>3. r.id = I(mine) /\ r.ed = Total(u) - I(mine)
  BY <1>1, ExternalIs DEF Degrees, Into, Near
<1>4. \A a : I(a) \in Int
  BY <1>1, IntoNat
<1>5. Total(u) \in Int
  BY <1>1, TotalInt
<1>6. g \in Int /\ \A a : J(a) = IF a = to THEN I(a) + g ELSE IF a = from THEN I(a) - g ELSE I(a)
  BY <1>0
<1>7. m = [id |-> r.id + (IF mine = to THEN g ELSE IF mine = from THEN -g ELSE 0),
           ed |-> r.ed + (IF mine = from THEN g ELSE IF mine = to THEN -g ELSE 0),
           nbr |-> new]
  BY DEF NeighbourInfo
<1> HIDE DEF r, I, J, m, g, mine, from, to
<1>8. IsList(less) /\ \A b : Listed(less, b) = IF b = from /\ mine # from THEN Listed(r.nbr, from) + (-g)
                                                ELSE Listed(r.nbr, b)
  <2>1. -g \in Int
    BY <1>6
  <2>2. CASE mine = from
    BY <1>2, <2>2
  <2>3. CASE mine # from
    <3>1. less = AddTo(r.nbr, from, -g)
      BY <2>3
    <3>2. IsList(less) /\ \A b : Listed(less, b) = IF b = from THEN Listed(r.nbr, from) + (-g)
                                                    ELSE Listed(r.nbr, b)
      BY <1>2, <2>1, <3>1, Added
    <3> QED BY <2>3, <3>2
  <2> QED BY <2>2, <2>3
<1> HIDE DEF less
<1>9. IsList(new) /\ \A b : Listed(new, b) = IF b = to /\ mine # to THEN Listed(less, to) + g
                                              ELSE Listed(less, b)
  <2>2. CASE mine = to
    BY <1>8, <2>2
  <2>3. CASE mine # to
    <3>1. new = AddTo(less, to, g)
      BY <2>3
    <3>2. IsList(new) /\ \A b : Listed(new, b) = IF b = to THEN Listed(less, to) + g
                                                  ELSE Listed(less, b)
      BY <1>6, <1>8, <3>1, Added
    <3> QED BY <2>3, <3>2
  <2> QED BY <2>2, <2>3
<1> HIDE DEF new
<1>10. \A a : Listed(new, a) = IF a = mine THEN 0 ELSE J(a)
  <2> SUFFICES ASSUME NEW a PROVE Listed(new, a) = IF a = mine THEN 0 ELSE J(a)
    OBVIOUS
  <2>0. I(a) \in Int
    BY <1>4
  <2>1. CASE a = mine
    BY <1>1, <1>2, <1>8, <1>9, <2>1
  <2>2. CASE a # mine /\ a = to
    <3>1. Listed(new, a) = Listed(less, a) + g /\ Listed(less, a) = I(a)
      BY <1>1, <1>2, <1>8, <1>9, <2>2
    <3> QED BY <1>6, <2>2, <3>1
  <2>3. CASE a # mine /\ a = from
    <3>1. Listed(new, a) = Listed(less, a) /\ Listed(less, a) = I(a) + (-g)
      BY <1>1, <1>2, <1>8, <1>9, <2>3
    <3>2. J(a) = I(a) - g
      BY <1>1, <1>6, <2>3
    <3> QED BY <1>6, <2>0, <2>3, <3>1, <3>2
  <2>4. CASE a # mine /\ a # to /\ a # from
    BY <1>2, <1>6, <1>8, <1>9, <2>4
  <2> QED BY <2>1, <2>2, <2>3, <2>4
<1>11. m = [id |-> m.id, ed |-> m.ed, nbr |-> m.nbr] /\ m.nbr = new
  BY <1>7
<1>12. m.id = J(mine) /\ m.ed = Total(u) - J(mine)
  <2>0. I(mine) \in Int
    BY <1>4
  <2>1. CASE mine = to
    <3>1. m.id = r.id + g /\ m.ed = r.ed + (-g)
      BY <1>1, <1>7, <2>1
    <3>2. J(mine) = I(mine) + g
      BY <1>6, <2>1
    <3> QED BY <1>3, <1>5, <1>6, <2>0, <3>1, <3>2
  <2>2. CASE mine = from
    <3>1. m.id = r.id + (-g) /\ m.ed = r.ed + g
      BY <1>1, <1>7, <2>2
    <3>2. J(mine) = I(mine) - g
      BY <1>1, <1>6, <2>2
    <3> QED BY <1>3, <1>5, <1>6, <2>0, <3>1, <3>2
  <2>3. CASE mine # to /\ mine # from
    <3>1. m.id = r.id + 0 /\ m.ed = r.ed + 0
      BY <1>7, <2>3
    <3>2. J(mine) = I(mine)
      BY <1>6, <2>3
    <3> QED BY <1>3, <1>5, <2>0, <3>1, <3>2
  <2> QED BY <2>1, <2>2, <2>3
<1>13. /\ m.id = Into(u, x, x[u]) /\ m.ed = Total(u) - Into(u, x, x[u])
       /\ \A a : Listed(m.nbr, a) = IF a = x[u] THEN 0 ELSE Into(u, x, a)
  BY <1>1, <1>10, <1>11, <1>12 DEF J
<1>14. m = Degrees(u, x)
  BY <1>1, <1>9, <1>11, <1>13, DegreesAre
<1> QED BY <1>14 DEF m, r, mine, g, from, to

\* p's own vertices keep their neighbours among p's vertices and ghosts.
LEMMA NeighboursKnown ==
  \A p \in PE : \A v \in Own(p) : \A u \in Adj[v] :
    u \in Own(p) \union Ghosts(p) /\ u \in Vertex
<1> SUFFICES ASSUME NEW p \in PE, NEW v \in Own(p), NEW u \in Adj[v]
             PROVE  u \in Own(p) \union Ghosts(p) /\ u \in Vertex
  OBVIOUS
<1>1. v \in Vertex /\ Owner[v] = p
  BY OwnIs
<1>2. u \in Vertex
  BY <1>1, EdgesBothWays
<1>3. CASE Owner[u] = p
  BY <1>2, <1>3, OwnIs
<1>4. CASE Owner[u] # p
  BY <1>1, <1>2, <1>4, EdgeKnown
<1> QED BY <1>2, <1>3, <1>4

\* A PE's degrees follow its move.
LEMMA InfoAfterRight ==
  ASSUME NEW p \in PE, NEW info, NEW tmp, NEW w, NEW x, NEW v \in Own(p),
         \A u \in Own(p) : w[u] = tmp[u] /\ info[u] = Degrees(u, w),
         x[v] \in DOMAIN info[v].nbr,
         \A u \in (Own(p) \union Ghosts(p)) \ {v} : x[u] = w[u]
  PROVE  \A u \in Own(p) : InfoAfter(info, p, tmp, v, tmp[v], x[v])[u] = Degrees(u, x)
<1>1. v \in Vertex /\ tmp[v] = w[v] /\ info[v] = Degrees(v, w)
  BY OwnIs
<1>2. w[v] # x[v]
  BY <1>1, ListIs
<1>3. \A u \in Own(p) : u \in Vertex /\ OneMoves(v, w, x, Adj[u])
  BY <1>2, NeighboursKnown, OwnIs DEF OneMoves
<1> SUFFICES ASSUME NEW u \in Own(p)
             PROVE  InfoAfter(info, p, tmp, v, tmp[v], x[v])[u] = Degrees(u, x)
  OBVIOUS
<1>4. u \in Vertex /\ info[u] = Degrees(u, w) /\ tmp[u] = w[u]
  BY <1>3
<1>5. InfoAfter(info, p, tmp, v, tmp[v], x[v])[u] =
        IF u = v THEN MovedInfo(info[v], tmp[v], x[v])
        ELSE IF u \in Adj[v] THEN NeighbourInfo(info[u], tmp[u], tmp[v], x[v], AdjWgt[u][v])
        ELSE info[u]
  BY <1>4 DEF InfoAfter
<1>6. CASE u = v
  <2>1. OneMoves(v, w, x, Adj[v])
    BY <1>3
  <2>2. MovedInfo(Degrees(v, w), w[v], x[v]) = Degrees(v, x)
    BY <1>1, <2>1, MovedInfoRight
  <2> QED BY <1>1, <1>5, <1>6, <2>2
<1>7. CASE u # v /\ u \in Adj[v]
  <2>1. OneMoves(v, w, x, Adj[u] \union {u})
    BY <1>3, <1>7 DEF OneMoves
  <2>2. NeighbourInfo(Degrees(u, w), w[u], w[v], x[v], AdjWgt[u][v]) = Degrees(u, x)
    BY <1>1, <1>7, <2>1, NeighbourInfoRight
  <2> QED BY <1>1, <1>4, <1>5, <1>7, <2>2
<1>8. CASE u # v /\ u \notin Adj[v]
  <2>1. v \notin Adj[u]
    BY <1>1, <1>4, <1>8, EdgesBothWays
  <2>2. w[u] = x[u] /\ \A y \in Adj[u] : w[y] = x[y]
    BY <1>3, <1>8, <2>1 DEF OneMoves
  <2>3. Degrees(u, w) = Degrees(u, x)
    BY <1>4, <2>2, DegreesSame
  <2> QED BY <1>4, <1>5, <1>8, <2>3
<1> QED BY <1>6, <1>7, <1>8

-----------------------------------------------------------------------------
(* Weights of parts.                                                       *)

LEMMA PartIs ==
  ASSUME NEW S \in SUBSET Vertex, NEW w, NEW a
  PROVE  /\ IsFiniteSet({v \in S : w[v] = a})
         /\ \A v \in {u \in S : w[u] = a} : VWgt[v] \in Nat /\ VWgt[v] \in Int
         /\ PartWeight(S, w, a) = SumFunctionOnSet(VWgt, {v \in S : w[v] = a})
         /\ PartWeight(S, w, a) \in Nat
<1> DEFINE N == {v \in S : w[v] = a}
<1>1. IsFiniteSet(N)
  BY FiniteAssumption, FS_Subset
<1>2. \A v \in N : VWgt[v] \in Nat /\ VWgt[v] \in Int
  BY WeightAssumption
<1>3. PartWeight(S, w, a) = SumFunctionOnSet(VWgt, N)
  BY DEF PartWeight
<1> HIDE DEF N
<1>4. SumFunctionOnSet(VWgt, N) \in Nat
  BY <1>1, <1>2, SumNat
<1> QED BY <1>1, <1>2, <1>3, <1>4 DEF N

LEMMA PartWeightSame ==
  ASSUME NEW S, NEW w, NEW x, NEW a, \A v \in S : w[v] = x[v]
  PROVE  PartWeight(S, w, a) = PartWeight(S, x, a)
<1>1. {v \in S : w[v] = a} = {v \in S : x[v] = a}
  OBVIOUS
<1> QED BY <1>1 DEF PartWeight

\* What a vertex takes with it.
LEMMA PartWeightTakes ==
  ASSUME NEW S \in SUBSET Vertex, NEW v \in S, NEW R, R = S \ {v}, NEW w, NEW a
  PROVE  PartWeight(S, w, a) = PartWeight(R, w, a) + IF a = w[v] THEN VWgt[v] ELSE 0
<1> DEFINE N == {u \in S : w[u] = a}
           M == {u \in R : w[u] = a}
<1>1. R \in SUBSET Vertex /\ VWgt[v] \in Nat
  BY WeightAssumption
<1>2. /\ IsFiniteSet(N) /\ \A u \in N : VWgt[u] \in Int
      /\ PartWeight(S, w, a) = SumFunctionOnSet(VWgt, N)
  BY PartIs
<1>3. PartWeight(R, w, a) = SumFunctionOnSet(VWgt, M) /\ PartWeight(R, w, a) \in Nat
  BY <1>1, PartIs
<1>4. CASE a = w[v]
  <2>1. v \in N /\ N \ {v} = M
    BY <1>4
  <2> HIDE DEF N, M
  <2>2. SumFunctionOnSet(VWgt, N) = VWgt[v] + SumFunctionOnSet(VWgt, M)
    BY <1>2, <2>1, SumTakes
  <2> QED BY <1>1, <1>2, <1>3, <1>4, <2>2
<1>5. CASE a # w[v]
  <2>1. N = M
    BY <1>5
  <2> HIDE DEF N, M
  <2> QED BY <1>2, <1>3, <1>5, <2>1
<1> QED BY <1>4, <1>5

\* A vertex moves.
LEMMA PartWeightMoves ==
  ASSUME NEW S \in SUBSET Vertex, NEW v \in S, NEW w, NEW x, OneMoves(v, w, x, S), NEW a
  PROVE  PartWeight(S, x, a) = IF a = x[v] THEN PartWeight(S, w, a) + VWgt[v]
                               ELSE IF a = w[v] THEN PartWeight(S, w, a) - VWgt[v]
                               ELSE PartWeight(S, w, a)
<1> DEFINE R == S \ {v}
           rest == PartWeight(R, w, a)
<1>0. R = S \ {v} /\ R \in SUBSET Vertex
  OBVIOUS
<1>1. \A u \in R : w[u] = x[u]
  BY DEF OneMoves
<1> HIDE DEF R
<1>2. PartWeight(S, w, a) = rest + IF a = w[v] THEN VWgt[v] ELSE 0
  BY <1>0, PartWeightTakes
<1>3. PartWeight(S, x, a) = PartWeight(R, x, a) + IF a = x[v] THEN VWgt[v] ELSE 0
  BY <1>0, PartWeightTakes
<1>4. PartWeight(R, x, a) = rest
  BY <1>1, PartWeightSame
<1>5. rest \in Nat
  BY <1>0, PartIs
<1>6. w[v] # x[v] /\ VWgt[v] \in Nat
  BY WeightAssumption DEF OneMoves
<1> HIDE DEF rest
<1> QED BY <1>2, <1>3, <1>4, <1>5, <1>6

\* A PE's share of a part is not more than the part.
LEMMA ShareBelow ==
  ASSUME NEW p \in PE, NEW w, NEW a
  PROVE  PartWeight(Own(p), w, a) <= PartWeight(Vertex, w, a)
<1> DEFINE N == {v \in Own(p) : w[v] = a}
           M == {v \in Vertex \ Own(p) : w[v] = a}
           R == Vertex \ Own(p)
<1>1. Own(p) \in SUBSET Vertex /\ R \in SUBSET Vertex
  BY OwnIs
<1>2. /\ IsFiniteSet(N) /\ \A u \in N : VWgt[u] \in Int
      /\ PartWeight(Own(p), w, a) = SumFunctionOnSet(VWgt, N) /\ PartWeight(Own(p), w, a) \in Nat
  BY <1>1, PartIs
<1>3. /\ IsFiniteSet(M) /\ \A u \in M : VWgt[u] \in Int
      /\ PartWeight(R, w, a) = SumFunctionOnSet(VWgt, M) /\ PartWeight(R, w, a) \in Nat
  BY <1>1, PartIs
<1>4. {v \in Vertex : w[v] = a} = N \union M /\ N \intersect M = {} /\ M \intersect N = {}
  BY <1>1
<1>5. PartWeight(Vertex, w, a) = SumFunctionOnSet(VWgt, N \union M)
  BY <1>4 DEF PartWeight
<1> HIDE DEF N, M
<1>6. SumFunctionOnSet(VWgt, N \union M) = SumFunctionOnSet(VWgt, N) + SumFunctionOnSet(VWgt, M)
  <2>1. \A u \in N \union M : VWgt[u] \in Int
    BY <1>2, <1>3
  <2> QED BY <1>2, <1>3, <1>4, <2>1, SumUnion
<1> QED BY <1>2, <1>3, <1>5, <1>6

-----------------------------------------------------------------------------
(* The undo loop.                                                          *)

\* The partition as p sees it with its own vertices in tmp.
Seen(p, tmp) == [v \in Own(p) \union Ghosts(p) |-> IF v \in Own(p) THEN tmp[v] ELSE where[p][v]]

\* What a PE's moves keep true.
Follows(p, tmp, info, lnp) ==
  /\ tmp \in [Own(p) -> Parts]
  /\ \A v \in Own(p) : info[v] = Degrees(v, Seen(p, tmp))
  /\ lnp \in [Parts -> Int] /\ \A a \in Parts : lnp[a] = PartWeight(Own(p), tmp, a)

LEMMA SeenIs ==
  ASSUME NEW p \in PE, NEW tmp
  PROVE  /\ \A v \in Own(p) : Seen(p, tmp)[v] = tmp[v]
         /\ \A v \in Ghosts(p) : Seen(p, tmp)[v] = where[p][v]
<1>1. \A v \in Ghosts(p) : v \notin Own(p)
  BY GhostsAre, OwnIs
<1> QED BY <1>1 DEF Seen

\* A move to a neighbouring part keeps it true.
LEMMA MoveFollows ==
  ASSUME NEW p \in PE, NEW tmp, NEW info, NEW lnp, Follows(p, tmp, info, lnp),
         NEW v \in Own(p), NEW to \in Parts, to \in DOMAIN info[v].nbr,
         NEW sum, sum = Shift(lnp, tmp[v], to, VWgt[v]),
         NEW new, new = [tmp EXCEPT ![v] = to]
  PROVE  Follows(p, new, InfoAfter(info, p, tmp, v, tmp[v], to), sum) /\ to # tmp[v]
<1> DEFINE w == Seen(p, tmp)
           x == Seen(p, new)
<1>1. /\ tmp \in [Own(p) -> Parts] /\ new \in [Own(p) -> Parts] /\ new[v] = to
      /\ \A u \in Own(p) : u # v => new[u] = tmp[u]
  BY DEF Follows
<1>2. x[v] = to /\ \A u \in (Own(p) \union Ghosts(p)) \ {v} : x[u] = w[u]
  BY <1>1 DEF Seen
<1>3. \A u \in Own(p) : w[u] = tmp[u] /\ info[u] = Degrees(u, w)
  BY SeenIs DEF Follows
<1>4. v \in Vertex /\ Own(p) \in SUBSET Vertex /\ VWgt[v] \in Int
  BY OwnIs, WeightAssumption
<1>5. to # tmp[v]
  <2>1. info[v] = Degrees(v, w) /\ w[v] = tmp[v]
    BY <1>3
  <2> HIDE DEF w
  <2>2. to # w[v]
    BY <1>4, <2>1, ListIs
  <2> QED BY <2>1, <2>2
<1>6. \A u \in Own(p) : InfoAfter(info, p, tmp, v, tmp[v], to)[u] = Degrees(u, x)
  <2>1. x[v] \in DOMAIN info[v].nbr
    BY <1>2
  <2> HIDE DEF w, x
  <2>2. \A u \in Own(p) : InfoAfter(info, p, tmp, v, tmp[v], x[v])[u] = Degrees(u, x)
    BY <1>2, <1>3, <2>1, InfoAfterRight
  <2> QED BY <1>2, <2>2
<1>7. OneMoves(v, tmp, new, Own(p))
  BY <1>1, <1>5 DEF OneMoves
<1>8. lnp \in [Parts -> Int] /\ \A a \in Parts : lnp[a] = PartWeight(Own(p), tmp, a)
  BY DEF Follows
<1>9. sum \in [Parts -> Int] /\ \A a \in Parts : sum[a] = PartWeight(Own(p), new, a)
  <2> DEFINE from == tmp[v]
             g == VWgt[v]
  <2>1. sum = Shift(lnp, from, to, g) /\ g \in Int
    BY <1>4
  <2>2. \A a : PartWeight(Own(p), new, a) = IF a = to THEN PartWeight(Own(p), tmp, a) + g
                                            ELSE IF a = from THEN PartWeight(Own(p), tmp, a) - g
                                            ELSE PartWeight(Own(p), tmp, a)
    <3>1. \A a : PartWeight(Own(p), new, a) = IF a = new[v] THEN PartWeight(Own(p), tmp, a) + VWgt[v]
                                            ELSE IF a = tmp[v] THEN PartWeight(Own(p), tmp, a) - VWgt[v]
                                            ELSE PartWeight(Own(p), tmp, a)
      <4> DEFINE S == Own(p)
      <4>1. S \in SUBSET Vertex /\ v \in S /\ OneMoves(v, tmp, new, S)
        BY <1>4, <1>7
      <4> HIDE DEF S
      <4>2. \A a : PartWeight(S, new, a) = IF a = new[v] THEN PartWeight(S, tmp, a) + VWgt[v]
                                         ELSE IF a = tmp[v] THEN PartWeight(S, tmp, a) - VWgt[v]
                                         ELSE PartWeight(S, tmp, a)
        BY ONLY <4>1, PartWeightMoves
      <4> QED BY <4>2 DEF S
    <3>2. new[v] = to
      BY <1>1
    <3> QED BY <3>1, <3>2
  <2> HIDE DEF from, g
  <2>3. /\ sum \in [Parts -> Int]
        /\ \A a \in Parts : sum[a] = IF a = to /\ a # from THEN lnp[a] + g
                                     ELSE IF a = from /\ a # to THEN lnp[a] - g ELSE lnp[a]
    <3>1. lnp \in [Parts -> Int]
      BY <1>8
    <3> QED BY <2>1, <3>1, Shifted
  <2>4. from # to
    BY <1>5 DEF from
  <2> QED BY <1>8, <2>2, <2>3, <2>4
<1> QED BY <1>1, <1>5, <1>6, <1>9 DEF Follows

Fields == {"tmp", "info", "lnp", "over", "kept"}

LEMMA UndoOneFollows ==
  ASSUME NEW p \in PE, where[p] \in [Own(p) \union Ghosts(p) -> Parts],
         NEW st, DOMAIN st = Fields, Follows(p, st.tmp, st.info, st.lnp),
         NEW v \in Own(p), NEW r, r = UndoOne(p, st, v)
  PROVE  /\ DOMAIN r = Fields /\ Follows(p, r.tmp, r.info, r.lnp)
         /\ \/ r.kept = st.kept \union {v} /\ r.tmp = st.tmp
            \/ r.kept = st.kept /\ r.tmp = [st.tmp EXCEPT ![v] = where[p][v]]
<1> DEFINE to == where[p][v]
           from == st.tmp[v]
           undo == to \in DOMAIN st.info[v].nbr /\ 4 * st.over[from] > VWgt[v] * Scale(p, from)
           tmp == [st.tmp EXCEPT ![v] = to]
           info == InfoAfter(st.info, p, st.tmp, v, from, to)
           lnp == Shift(st.lnp, from, to, VWgt[v])
           over == [st.over EXCEPT ![from] = Larger(st.over[from] - VWgt[v] * Scale(p, from), 0)]
<1>1. r = IF undo THEN [tmp |-> tmp, info |-> info, lnp |-> lnp, over |-> over, kept |-> st.kept]
          ELSE [st EXCEPT !.kept = @ \union {v}]
  BY DEF UndoOne
<1>2. CASE undo
  <2>1. to \in Parts /\ to \in DOMAIN st.info[v].nbr
    BY <1>2
  <2>2. Follows(p, tmp, info, lnp)
    BY <2>1, MoveFollows
  <2> HIDE DEF to, from, tmp, info, lnp, over, undo
  <2>3. r = [tmp |-> tmp, info |-> info, lnp |-> lnp, over |-> over, kept |-> st.kept]
    BY <1>1, <1>2
  <2>4. /\ r.tmp = tmp /\ r.info = info /\ r.lnp = lnp /\ r.kept = st.kept
        /\ DOMAIN r = Fields
    BY <2>3 DEF Fields
  <2> QED BY <2>2, <2>4 DEF tmp, to
<1>3. CASE ~undo
  <2> HIDE DEF undo
  <2>1. r = [st EXCEPT !.kept = @ \union {v}]
    BY <1>1, <1>3
  <2>2. /\ r.tmp = st.tmp /\ r.info = st.info /\ r.lnp = st.lnp
        /\ r.kept = st.kept \union {v} /\ DOMAIN r = Fields
    BY <2>1 DEF Fields
  <2> QED BY <2>2
<1> QED BY <1>2, <1>3

\* A PE is ready to commit: what is not where it was is kept.
Settled(p, tmp, info, lnp, kept) ==
  /\ Follows(p, tmp, info, lnp)
  /\ kept \subseteq Own(p)
  /\ \A v \in Own(p) : tmp[v] # where[p][v] => v \in kept

\* The loop has been at the moves with the indices in T.
UndoneSoFar(p, st, T) ==
  /\ DOMAIN st = Fields /\ Follows(p, st.tmp, st.info, st.lnp)
  /\ st.kept \subseteq Own(p)
  /\ \A v \in Own(p) : st.tmp[v] # where[p][v] =>
       v \in st.kept \/ \E i \in DOMAIN moved[p] \ T : moved[p][i] = v

LEMMA UndoStep ==
  ASSUME NEW p \in PE, where[p] \in [Own(p) \union Ghosts(p) -> Parts],
         NEW T, NEW i \in T, i \in DOMAIN moved[p], moved[p][i] \in Own(p),
         NEW st, UndoneSoFar(p, st, T \ {i}), NEW r, r = UndoOne(p, st, moved[p][i])
  PROVE  UndoneSoFar(p, r, T)
<1> DEFINE v == moved[p][i]
<1>1. /\ DOMAIN st = Fields /\ Follows(p, st.tmp, st.info, st.lnp)
      /\ st.kept \subseteq Own(p) /\ v \in Own(p)
  BY DEF UndoneSoFar
<1>2. \A u \in Own(p) : st.tmp[u] # where[p][u] =>
        u \in st.kept \/ u = v \/ \E k \in DOMAIN moved[p] \ T : moved[p][k] = u
  BY DEF UndoneSoFar
<1>3. r = UndoOne(p, st, v)
  OBVIOUS
<1> HIDE DEF v
<1>4. /\ DOMAIN r = Fields /\ Follows(p, r.tmp, r.info, r.lnp)
      /\ \/ r.kept = st.kept \union {v} /\ r.tmp = st.tmp
         \/ r.kept = st.kept /\ r.tmp = [st.tmp EXCEPT ![v] = where[p][v]]
  <2>1. /\ DOMAIN UndoOne(p, st, v) = Fields
        /\ Follows(p, UndoOne(p, st, v).tmp, UndoOne(p, st, v).info, UndoOne(p, st, v).lnp)
        /\ \/ /\ UndoOne(p, st, v).kept = st.kept \union {v}
              /\ UndoOne(p, st, v).tmp = st.tmp
           \/ /\ UndoOne(p, st, v).kept = st.kept
              /\ UndoOne(p, st, v).tmp = [st.tmp EXCEPT ![v] = where[p][v]]
    BY <1>1, UndoOneFollows
  <2> QED BY <1>3, <2>1
<1>5. st.tmp \in [Own(p) -> Parts]
  BY <1>1 DEF Follows
<1>6. \A u \in Own(p) : r.tmp[u] # where[p][u] =>
        u \in r.kept \/ \E k \in DOMAIN moved[p] \ T : moved[p][k] = u
  <2>1. CASE r.kept = st.kept \union {v} /\ r.tmp = st.tmp
    BY <1>2, <2>1
  <2>2. CASE r.kept = st.kept /\ r.tmp = [st.tmp EXCEPT ![v] = where[p][v]]
    <3>1. \A u \in Own(p) : r.tmp[u] = IF u = v THEN where[p][v] ELSE st.tmp[u]
      BY <1>1, <1>5, <2>2
    <3> QED BY <1>2, <2>2, <3>1
  <2> QED BY <1>4, <2>1, <2>2
<1>7. r.kept \subseteq Own(p)
  BY <1>1, <1>4
<1> QED BY <1>4, <1>6, <1>7 DEF UndoneSoFar

LEMMA UndoneSettled ==
  ASSUME Typed, NEW p \in PE, where[p] \in [Own(p) \union Ghosts(p) -> Parts],
         Follows(p, tmp_where[p], ckrinfo, lnpwgts[p]),
         \A v \in Own(p) : tmp_where[p][v] # where[p][v] => v \in ToSet(moved[p])
  PROVE  Settled(p, Undone(p).tmp, Undone(p).info, Undone(p).lnp, Undone(p).kept)
<1> DEFINE before == Before(p)
           n == Len(moved[p])
           g == CHOOSE h : UndoStates(h, p, before, moved[p], 1..n)
           G == {T \in SUBSET (1..n) : UndoneSoFar(p, g[T], T)}
           last == [before EXCEPT !.kept = ToSet(moved[p])]
<1>1. /\ n \in Nat /\ DOMAIN moved[p] = 1..n /\ \A i \in 1..n : moved[p][i] \in Own(p)
      /\ ToSet(moved[p]) = {moved[p][i] : i \in 1..n}
  <2>1. /\ n \in Nat /\ DOMAIN moved[p] = 1..n /\ \A i \in 1..n : moved[p][i] \in Own(p)
    BY DEF Typed
  <2>2. ToSet(moved[p]) = {moved[p][i] : i \in DOMAIN moved[p]}
    BY DEF ToSet
  <2> HIDE DEF n
  <2> QED BY <2>1, <2>2
<1>2. UndoStates(g, p, before, moved[p], 1..n)
  <2>1. n \in Nat
    BY <1>1
  <2> HIDE DEF n
  <2>2. \E h : UndoStates(h, p, before, moved[p], 1..n)
    BY <2>1, UndoExists
  <2> QED BY <2>2
<1>3. Undone(p) = last \/ Undone(p) = g[1..n]
  <2>1. Undone(p) = (CHOOSE h : UndoStates(h, p, before, moved[p], DOMAIN moved[p]))[DOMAIN moved[p]]
        \/ Undone(p) = last
    BY UndoIsFold, Zenon
  <2> QED BY <1>1, <2>1, Zenon
<1>4. /\ DOMAIN before = Fields /\ before.tmp = tmp_where[p] /\ before.info = ckrinfo
      /\ before.lnp = lnpwgts[p] /\ before.kept = {}
  BY DEF Before, Fields
<1>5. /\ last.tmp = tmp_where[p] /\ last.info = ckrinfo
      /\ last.lnp = lnpwgts[p] /\ last.kept = ToSet(moved[p])
  BY DEF Before
<1> HIDE DEF g, n, before, last
<1>6. ASSUME NEW T \in SUBSET (1..n), \A U \in SUBSET T : U # T => U \in G
      PROVE  T \in G
  <2>1. g[T] = IF T = {} THEN before ELSE UndoOne(p, g[T \ {Max(T)}], moved[p][Max(T)])
    BY <1>2, UndoStatesAre
  <2>2. CASE T = {}
    <3>1. UndoneSoFar(p, before, {})
      <4>1. \A v \in Own(p) : before.tmp[v] # where[p][v] =>
              v \in before.kept \/ \E i \in DOMAIN moved[p] \ {} : moved[p][i] = v
        BY <1>1, <1>4
      <4>2. Follows(p, before.tmp, before.info, before.lnp) /\ before.kept \subseteq Own(p)
        BY <1>4
      <4> QED BY <1>4, <4>1, <4>2 DEF UndoneSoFar
    <3> QED BY <2>1, <2>2, <3>1
  <2>3. CASE T # {}
    <3> DEFINE i == Max(T)
               st == g[T \ {i}]
    <3>1. i \in T /\ i \in DOMAIN moved[p] /\ moved[p][i] \in Own(p)
      BY <1>1, <2>3, LastIndex
    <3>2. UndoneSoFar(p, st, T \ {i})
      BY <1>6, <3>1
    <3>3. g[T] = UndoOne(p, st, moved[p][i])
      BY <2>1, <2>3
    <3> HIDE DEF i, st
    <3>4. UndoneSoFar(p, g[T], T)
      BY <3>1, <3>2, <3>3, UndoStep
    <3> QED BY <3>4
  <2> QED BY <2>2, <2>3
<1> HIDE DEF G
<1>7. 1..n \in G
  <2> DEFINE R == 1..n
  <2>1. \A T \in SUBSET R : (\A U \in SUBSET T : U # T => U \in G) => T \in G
    BY <1>6
  <2>2. IsFiniteSet(R)
    BY <1>1, FS_Interval
  <2> HIDE DEF R
  <2>3. \A T \in SUBSET R : T \in G
    BY <2>1, <2>2, SubsetInduction
  <2> QED BY <2>3 DEF R
<1>8. CASE Undone(p) = last
  <2>1. last.kept \subseteq Own(p)
    BY <1>1, <1>5
  <2> QED BY <1>5, <1>8, <2>1 DEF Settled
<1>9. CASE Undone(p) = g[1..n]
  <2>1. UndoneSoFar(p, Undone(p), 1..n)
    BY <1>7, <1>9 DEF G
  <2>2. DOMAIN moved[p] \ (1..n) = {}
    BY <1>1
  <2> QED BY <2>1, <2>2 DEF UndoneSoFar, Settled
<1> QED BY <1>3, <1>8, <1>9

-----------------------------------------------------------------------------
(* What the invariant says of a PE.                                        *)

LEMMA CurIs == \A p \in PE : \A v \in Own(p) : v \in Vertex /\ cur(v) = where[p][v]
BY OwnIs DEF cur

LEMMA OthersIn == \A p \in PE : \A v \in Ghosts(p) : v \in Vertex /\ Owner[v] \in PE /\ Owner[v] # p
BY GhostsAre, OwnerIn

LEMMA PhaseOf ==
  ASSUME Typed
  PROVE  \A p \in PE : pc[p] \in {"one", "commit", "where", "supdate", "sum", "start", "done"}
BY DEF Typed, DirectionPhases

\* A PE sees the parts that count for its degrees.
LEMMA DegreesSeen ==
  ASSUME NEW p \in PE, NEW w, NEW x, \A u \in Own(p) \union Ghosts(p) : w[u] = x[u]
  PROVE  \A v \in Own(p) : Degrees(v, w) = Degrees(v, x)
<1> SUFFICES ASSUME NEW v \in Own(p) PROVE Degrees(v, w) = Degrees(v, x)
  OBVIOUS
<1>1. v \in Vertex
  BY OwnIs
<1>2. w[v] = x[v] /\ \A u \in Adj[v] : w[u] = x[u]
  BY NeighboursKnown
<1> QED BY <1>1, <1>2, DegreesSame

LEMMA TentativeIsSeen == \A p : Tentative(p) = Seen(p, tmp_where[p])
BY DEF Tentative, Seen

LEMMA FollowsNow ==
  ASSUME Typed, InfoInv, NEW p \in PE, pc[p] \in {"one", "commit"}
  PROVE  Follows(p, tmp_where[p], ckrinfo, lnpwgts[p])
<1>1. tmp_where[p] \in [Own(p) -> Parts] /\ lnpwgts[p] \in [Parts -> Int]
  BY DEF InfoInv, Shape, Typed
<1>2. \A v \in Own(p) : ckrinfo[v] = Degrees(v, Seen(p, tmp_where[p]))
  BY TentativeIsSeen DEF InfoInv, Known, Exact
<1>3. \A a \in Parts : lnpwgts[p][a] = PartWeight(Own(p), tmp_where[p], a)
  BY DEF InfoInv, PartsOwn
<1> QED BY <1>1, <1>2, <1>3 DEF Follows

\* Where all moves are committed and told, tmp_where is where.
LEMMA NothingTentative ==
  ASSUME InfoInv, NEW p \in PE, pc[p] \notin {"one", "commit"}
  PROVE  /\ \A v \in Own(p) : tmp_where[p][v] = where[p][v]
         /\ \A v \in Own(p) \union Ghosts(p) : Tentative(p)[v] = where[p][v]
<1>1. \A v \in Own(p) : tmp_where[p][v] = where[p][v]
  BY DEF InfoInv, Moves
<1> QED BY <1>1 DEF Tentative

\* Sums over all PEs of what they have of a part.
LEMMA WeightsRight ==
  ASSUME PartsOwn, \A p \in PE : \A v \in Own(p) : tmp_where[p][v] = where[p][v]
  PROVE  Weights = [a \in Parts |-> PartWeight(Vertex, Current, a)]
<1> SUFFICES ASSUME NEW a \in Parts
             PROVE  SumFunction([p \in PE |-> lnpwgts[p][a]]) = PartWeight(Vertex, Current, a)
  BY DEF Weights
<1>1. ASSUME NEW p \in PE
      PROVE  lnpwgts[p][a] = PartWeight(Own(p), Current, a)
  <2>1. \A v \in Own(p) : tmp_where[p][v] = Current[v]
    BY CurIs DEF Current, cur
  <2>2. PartWeight(Own(p), tmp_where[p], a) = PartWeight(Own(p), Current, a)
    BY <2>1, PartWeightSame
  <2> QED BY <2>2 DEF PartsOwn
<1>2. [p \in PE |-> lnpwgts[p][a]] = [p \in PE |-> PartWeight(Own(p), Current, a)]
  BY <1>1
<1> QED BY <1>2, WeightShared

-----------------------------------------------------------------------------
(* The PEs go on together.                                                 *)

LEMMA NothingUnderWay ==
  ASSUME Boxes, Copies, NEW old \in {"start", "sum"}, \A p \in PE : pc[p] = old
  PROVE  /\ \A p \in PE : \A q \in Nbrs(p) : chan[q][p] = <<>>
         /\ \A p \in PE : \A v \in Ghosts(p) : where[p][v] = cur(v)
<1>1. \A p \in PE : ~AskedDue(p) \/ ~WhereOut(p)
  BY DEF AskedDue, WhereOut
<1>2. \A p, q \in PE : ~(AskedOut(q) /\ AskedDue(p)) /\ ~(WhereOut(q) /\ WhereDue(p))
                      /\ ~(AskedOut(q) /\ WhereDue(p))
  BY DEF AskedDue, WhereOut, AskedOut, WhereDue
<1>3. \A p \in PE : \A q \in Nbrs(p) : chan[q][p] = <<>>
  BY <1>2, NbrsIn DEF Boxes, Box
<1>4. \A p \in PE : \A v \in Ghosts(p) : where[p][v] = cur(v)
  BY <1>2, OthersIn DEF Copies
<1> QED BY <1>3, <1>4

LEMMA AllMove ==
  ASSUME Boxes, Copies, NEW old \in {"start", "sum"}, \A p \in PE : pc[p] = old,
         NEW phase \in {"one", "start", "done"}, \A p \in PE : pc'[p] = phase,
         UNCHANGED <<where, chan>>
  PROVE  Boxes' /\ NotAhead' /\ Copies'
<1>1. /\ \A p \in PE : \A q \in Nbrs(p) : chan[q][p] = <<>>
      /\ \A p \in PE : \A v \in Ghosts(p) : where[p][v] = cur(v)
  BY NothingUnderWay
<1>2. \A p, q \in PE : ~WhereOut(q)' /\ ~AskedOut(q)'
  BY DEF WhereOut, AskedOut
<1>3. Boxes'
  BY <1>1, <1>2, NbrsIn DEF Boxes, Box
<1>4. NotAhead'
  BY DEF NotAhead
<1>5. Copies'
  BY <1>1 DEF Copies, cur
<1> QED BY <1>3, <1>4, <1>5

\* A direction begins.
LEMMA DirectionInfo ==
  ASSUME IInv, IInv', InfoInv, NEW old \in {"start", "sum"}, \A p \in PE : pc[p] = old,
         NEW gn, \A p \in PE : \A a \in Parts : gn[p][a] = PartWeight(Vertex, Current, a),
         pc' = [p \in PE |-> "one"], ognpwgts' = gn, gnpwgts' = gn,
         todo' = [p \in PE |-> Own(p)], moved' = [p \in PE |-> <<>>], c' \in {0, 1},
         \A p \in PE : dirty'[p] \subseteq Own(p),
         UNCHANGED <<program, pass, where, tmp_where, ckrinfo, lnpwgts, update, supdate, oldEDs,
                     lmincut, chan>>
  PROVE  InfoInv'
<1>1. \A p \in PE : pc'[p] = "one"
  OBVIOUS
<1>2. Boxes' /\ NotAhead' /\ Copies'
  BY <1>1, AllMove DEF InfoInv
<1>3. Shape' /\ InfoTyped'
  BY DEF InfoInv, Shape, InfoTyped
<1>4. ASSUME NEW p \in PE, NEW v \in Own(p)
      PROVE  /\ tmp_where[p][v] = where[p][v]
             /\ Exact(v, Tentative(p))' /\ Counted(v, where[p])'
  <2>1. Exact(v, where[p]) /\ Counted(v, where[p])
    BY DEF InfoInv, Known
  <2>2. tmp_where[p][v] = where[p][v] /\ \A u \in Own(p) \union Ghosts(p) : Tentative(p)[u] = where[p][u]
    BY NothingTentative
  <2>3. Degrees(v, Tentative(p)) = Degrees(v, where[p])
    BY <2>2, DegreesSeen
  <2>4. Tentative(p)' = Tentative(p)
    BY DEF Tentative
  <2> QED BY <2>1, <2>2, <2>3, <2>4 DEF Exact, Counted
<1>5. Known' /\ Moves'
  BY <1>1, <1>4 DEF Known, Moves
<1>6. PartsOwn'
  BY DEF InfoInv, PartsOwn
<1>7. Current' = Current
  BY DEF Current
<1>8. PartsKnown'
  <2>1. ASSUME NEW p \in PE, NEW a \in Parts
        PROVE  gn[p][a] \in Nat /\ lnpwgts[p][a] <= gn[p][a]
    <3>1. PartWeight(Vertex, Current, a) \in Nat
      BY PartIs
    <3>2. PartWeight(Own(p), Current, a) <= PartWeight(Vertex, Current, a)
      BY ShareBelow
    <3>3. \A v \in Own(p) : tmp_where[p][v] = Current[v]
      BY <1>4, CurIs DEF Current, cur
    <3>4. lnpwgts[p][a] = PartWeight(Own(p), Current, a)
      BY <3>3, PartWeightSame DEF InfoInv, PartsOwn
    <3> QED BY <3>1, <3>2, <3>4
  <2>2. \A p \in PE : \A a \in Parts : /\ gnpwgts'[p][a] \in Nat /\ lnpwgts'[p][a] <= gnpwgts'[p][a]
                                     /\ ognpwgts'[p][a] = PartWeight(Vertex, Current, a)'
    BY <1>7, <2>1
  <2>3. \A p \in PE : moved'[p] = <<>> /\ gnpwgts'[p] = ognpwgts'[p]
    OBVIOUS
  <2>4. ~(\A p \in PE : pc'[p] \in {"start", "done"})
    BY <1>1, PEsFinite
  <2> QED BY <1>1, <2>2, <2>3, <2>4 DEF PartsKnown
<1>9. Cuts'
  <2>1. ~(\A p \in PE : pc'[p] \in {"start", "done"})
    BY <1>1, PEsFinite
  <2> QED BY <2>1 DEF InfoInv, Cuts
<1>10. Passes'
  <2>1. ~(\A p \in PE : pc'[p] = "done") /\ ~(\A p \in PE : pc[p] = "done") /\ refiner' = refiner
    BY <1>1, PEsFinite DEF refiner
  <2> QED BY <2>1 DEF InfoInv, Passes
<1> QED BY <1>2, <1>3, <1>5, <1>6, <1>8, <1>9, <1>10 DEF InfoInv

LEMMA StartInfo ==
  ASSUME IInv, IInv', InfoInv, StartPass
  PROVE  InfoInv'
<1>1. /\ \A p \in PE : pc[p] = "start"
      /\ pc' = [p \in PE |-> "one"] /\ ognpwgts' = gnpwgts /\ gnpwgts' = gnpwgts
      /\ todo' = [p \in PE |-> Own(p)] /\ moved' = [p \in PE |-> <<>>] /\ c' \in {0, 1}
      /\ dirty' = [p \in PE |-> Dirty(p)]
      /\ UNCHANGED <<program, pass, where, tmp_where, ckrinfo, lnpwgts, update, supdate, oldEDs,
                     lmincut, chan>>
  BY Zenon DEF StartPass, BeginDirection
<1>2. \A p \in PE : dirty'[p] \subseteq Own(p)
  BY <1>1 DEF Dirty
<1>3. \A p \in PE : \A a \in Parts : gnpwgts[p][a] = PartWeight(Vertex, Current, a)
  BY <1>1 DEF InfoInv, PartsKnown
<1> QED BY <1>1, <1>2, <1>3, DirectionInfo

LEMMA NextInfo ==
  ASSUME IInv, IInv', InfoInv, NextDirection
  PROVE  InfoInv'
<1> DEFINE gn == [p \in PE |-> Weights]
<1>1. /\ \A p \in PE : pc[p] = "sum"
      /\ pc' = [p \in PE |-> "one"] /\ ognpwgts' = gn /\ gnpwgts' = gn
      /\ todo' = [p \in PE |-> Own(p)] /\ moved' = [p \in PE |-> <<>>] /\ c' \in {0, 1}
      /\ UNCHANGED <<program, pass, where, tmp_where, ckrinfo, lnpwgts, update, supdate, oldEDs,
                     lmincut, chan, dirty>>
  BY Zenon DEF NextDirection, BeginDirection
<1>2. \A p \in PE : dirty'[p] \subseteq Own(p)
  BY <1>1 DEF InfoInv, Shape
<1>3. \A p \in PE : \A v \in Own(p) : tmp_where[p][v] = where[p][v]
  BY <1>1, NothingTentative
<1>4. Weights = [a \in Parts |-> PartWeight(Vertex, Current, a)]
  BY <1>3, WeightsRight DEF InfoInv
<1>5. \A p \in PE : \A a \in Parts : gn[p][a] = PartWeight(Vertex, Current, a)
  BY <1>4
<1> HIDE DEF gn
<1> QED BY <1>1, <1>2, <1>5, DirectionInfo

\* A pass ends.
LEMMA EndInfo ==
  ASSUME IInv, IInv', InfoInv, NEW passes, EndPass(passes),
         refiner = "KWayBalance" => passes = 1, refiner # "KWayBalance" => passes = npasses
  PROVE  InfoInv'
<1> DEFINE last == SumFunction(lmincut) \div 2 = oldcut \/ pass + 1 = passes
           phase == IF last /\ Len(program) = 1 THEN "done" ELSE "start"
<1>1. /\ \A p \in PE : pc[p] = "sum"
      /\ gnpwgts' = [p \in PE |-> Weights] /\ mincut' = SumFunction(lmincut) \div 2
      /\ program' = IF last /\ Len(program) > 1 THEN Tail(program) ELSE program
      /\ pass' = IF last /\ Len(program) > 1 THEN 0 ELSE pass + 1
      /\ pc' = [p \in PE |-> phase]
      /\ UNCHANGED <<c, where, tmp_where, ckrinfo, lnpwgts, update, supdate, oldEDs, dirty, todo,
                     moved, lmincut, chan>>
  BY Zenon DEF EndPass
<1>2. \A p \in PE : pc'[p] = phase
  BY <1>1
<1>3. phase \in {"start", "done"}
  OBVIOUS
<1>4. Boxes' /\ NotAhead' /\ Copies'
  <2> HIDE DEF phase
  <2> QED BY <1>1, <1>2, <1>3, AllMove DEF InfoInv
<1>5. Shape' /\ InfoTyped'
  BY <1>1 DEF InfoInv, Shape, InfoTyped
<1>6. \A p \in PE : \A v \in Own(p) : tmp_where[p][v] = where[p][v]
  BY <1>1, NothingTentative
<1>7. \A p \in PE : pc'[p] \in {"start", "done"} /\ pc'[p] \notin {"one", "commit", "where", "supdate", "sum"}
  <2> HIDE DEF phase
  <2> QED BY <1>2, <1>3
<1>8. Known' /\ Moves'
  <2>1. \A p \in PE : \A v \in Own(p) : Exact(v, where[p])' /\ Counted(v, where[p])'
    BY <1>1 DEF InfoInv, Known, Exact, Counted
  <2>2. \A p \in PE : \A v \in Own(p) : tmp_where'[p][v] = where'[p][v]
    BY <1>1, <1>6
  <2> QED BY <1>7, <2>1, <2>2 DEF Known, Moves
<1>9. PartsOwn'
  BY <1>1 DEF InfoInv, PartsOwn
<1>10. PartsKnown'
  <2>1. Weights = [a \in Parts |-> PartWeight(Vertex, Current, a)]
    BY <1>6, WeightsRight DEF InfoInv
  <2>2. Current' = Current
    BY <1>1 DEF Current
  <2>3. \A p \in PE : \A a \in Parts : gnpwgts'[p][a] = PartWeight(Vertex, Current, a)
    BY <1>1, <2>1
  <2>4. \A p \in PE : \A a \in Parts : gnpwgts'[p][a] \in Nat
    <3>1. ASSUME NEW a \in Parts PROVE PartWeight(Vertex, Current, a) \in Nat
      BY PartIs
    <3> QED BY <2>3, <3>1
  <2>5. ~(\A p \in PE : pc'[p] = "one")
    BY <1>7, PEsFinite
  <2> QED BY <1>7, <2>2, <2>3, <2>4, <2>5 DEF PartsKnown
<1>11. Cuts'
  BY <1>1 DEF InfoInv, Cuts
<1>12. Passes'
  <2>1. /\ program \in Programs \union {<<"KWayAdaptiveRefine">>} /\ c \in {0, 1} /\ pass \in Nat
        /\ pass < IF refiner = "KWayBalance" THEN 1 ELSE npasses
    <3> HIDE DEF last, phase
    <3>1. ~(\A p \in PE : pc[p] = "done")
      BY <1>1, PEsFinite
    <3> QED BY <3>1 DEF InfoInv, Passes
  <2>2. npasses \in Nat /\ npasses > 0
    BY PassesAssumption
  <2>3. (\A p \in PE : pc'[p] = "done") <=> last /\ Len(program) = 1
    BY <1>2, PEsFinite
  <2>4. CASE Len(program) = 1
    <3>1. program' = program /\ pass' = pass + 1 /\ refiner' = refiner
      BY <1>1, <2>4 DEF refiner
    <3>2. pass' = passes => last
      BY <3>1
    <3>3. pass' \in Nat /\ pass' <= passes
      BY <2>1, <2>2, <3>1
    <3>4. refiner # "KWayBalance"
      BY <2>1, <2>4 DEF Programs, refiner
    <3> HIDE DEF last
    <3> QED BY <1>1, <2>1, <2>2, <2>3, <2>4, <3>1, <3>2, <3>3, <3>4 DEF Passes
  <2>5. CASE Len(program) # 1
    <3>1. program = <<"KWayBalance", "KWayAdaptiveRefine">>
      BY <2>1, <2>5 DEF Programs
    <3>2. Len(program) > 1 /\ Tail(program) = <<"KWayAdaptiveRefine">>
          /\ Head(<<"KWayAdaptiveRefine">>) = "KWayAdaptiveRefine" /\ refiner = "KWayBalance"
      BY <3>1, Queues DEF refiner
    <3>3. CASE last
      <4>1. program' = <<"KWayAdaptiveRefine">> /\ pass' = 0 /\ refiner' = "KWayAdaptiveRefine"
        BY <1>1, <3>2, <3>3 DEF refiner
      <4>2. program' \in Programs \union {<<"KWayAdaptiveRefine">>} /\ c' \in {0, 1} /\ pass' \in Nat
        <5>1. program' \in Programs \union {<<"KWayAdaptiveRefine">>}
          BY <4>1, Zenon
        <5>2. c' \in {0, 1} /\ pass' \in Nat
          BY <1>1, <2>1, <4>1
        <5> QED BY <5>1, <5>2
      <4> HIDE DEF last
      <4>3. ~(\A p \in PE : pc'[p] = "done")
        BY <2>3, <2>5
      <4>4. pass' < IF refiner' = "KWayBalance" THEN 1 ELSE npasses
        BY <2>2, <4>1
      <4> QED BY <4>2, <4>3, <4>4 DEF Passes
    <3>4. CASE ~last
      <4>1. pass + 1 # passes
        BY <3>4
      <4>2. passes = 1 /\ pass \in Nat /\ pass < 1
        BY <2>1, <3>2
      <4> QED BY <4>1, <4>2
    <3> QED BY <3>3, <3>4
  <2> QED BY <2>4, <2>5
<1> QED BY <1>4, <1>5, <1>8, <1>9, <1>10, <1>11, <1>12 DEF InfoInv

-----------------------------------------------------------------------------
(* Pass one.                                                               *)

\* Nothing is sent or taken.
LEMMA NothingSent ==
  ASSUME Boxes, NotAhead, Copies, UNCHANGED <<where, chan, supdate>>,
         \A q \in PE : pc'[q] = pc[q] \/ (pc[q] = "one" /\ pc'[q] = "commit")
  PROVE  /\ Boxes' /\ NotAhead' /\ Copies'
         /\ \A q \in PE : \A v : Asked(q, v)' <=> Asked(q, v)
<1>1. \A q \in PE : /\ WhereOut(q)' <=> WhereOut(q)
                    /\ AskedOut(q)' <=> AskedOut(q)
                    /\ WhereDue(q)' <=> WhereDue(q)
                    /\ AskedDue(q)' <=> AskedDue(q)
                    /\ pc'[q] = "where" <=> pc[q] = "where"
                    /\ pc'[q] = "supdate" <=> pc[q] = "supdate"
                    /\ pc'[q] = "sum" <=> pc[q] = "sum"
  BY DEF WhereOut, AskedOut, WhereDue, AskedDue
<1>2. /\ \A v : cur(v)' = cur(v)
      /\ \A q, p, m : GoodWhere(q, p, m)' <=> GoodWhere(q, p, m)
      /\ \A q, p, a : GoodAsks(q, p, a)' <=> GoodAsks(q, p, a)
  BY DEF cur, GoodWhere, GoodAsks
<1>3. Boxes'
  <2> SUFFICES ASSUME NEW p \in PE, NEW q \in Nbrs(p) PROVE Box(q, p)'
    BY DEF Boxes
  <2>1. q \in PE /\ Box(q, p)
    BY NbrsIn DEF Boxes
  <2> QED BY <1>1, <1>2, <2>1 DEF Box
<1>4. NotAhead'
  BY <1>1, NbrsIn DEF NotAhead
<1>5. Copies'
  BY <1>1, <1>2, OthersIn DEF Copies
<1>6. \A q \in PE : \A v : Asked(q, v)' <=> Asked(q, v)
  BY <1>1, NbrsIn DEF Asked
<1> QED BY <1>3, <1>4, <1>5, <1>6

LEMMA Listing ==
  ASSUME NEW S, NEW s \in Seq(S), NEW e \in S
  PROVE  ToSet(Append(s, e)) = ToSet(s) \union {e}
<1>1. /\ Append(s, e) \in Seq(S) /\ Len(Append(s, e)) = Len(s) + 1 /\ Len(s) \in Nat
      /\ \A i \in 1..Len(s) : Append(s, e)[i] = s[i]
      /\ Append(s, e)[Len(s) + 1] = e
  BY AppendProperties
<1>2. DOMAIN Append(s, e) = 1..(Len(s) + 1) /\ DOMAIN s = 1..Len(s)
  BY <1>1
<1> QED BY <1>1, <1>2 DEF ToSet

\* A vertex goes to a part that its degrees name.
LEMMA GoalsListed ==
  ASSUME NEW p, NEW v
  PROVE  /\ FMGoals(p, v) \subseteq DOMAIN ckrinfo[v].nbr
         /\ BalanceGoals(p, v) \subseteq DOMAIN ckrinfo[v].nbr
         /\ AdaptiveGoals(p, v) \subseteq DOMAIN ckrinfo[v].nbr
<1>1. Candidates(p, v) \subseteq DOMAIN ckrinfo[v].nbr
  BY DEF Candidates
<1>2. FMGoals(p, v) \subseteq Candidates(p, v)
  BY DEF FMGoals, Best
<1>3. AdaptiveGoals(p, v) \subseteq Candidates(p, v)
  BY DEF AdaptiveGoals, Best
<1>4. BalanceGoals(p, v) \subseteq DOMAIN ckrinfo[v].nbr
  BY DEF BalanceGoals, Best
<1> QED BY <1>1, <1>2, <1>3, <1>4

LEMMA FollowsTyped ==
  ASSUME Shape, NEW p \in PE, NEW tmp, NEW info, NEW lnp, Follows(p, tmp, info, lnp)
  PROVE  \A u \in Own(p) : info[u].id \in Nat /\ info[u].ed \in Nat /\ DOMAIN info[u].nbr \subseteq Parts
<1> SUFFICES ASSUME NEW u \in Own(p)
             PROVE  info[u].id \in Nat /\ info[u].ed \in Nat /\ DOMAIN info[u].nbr \subseteq Parts
  OBVIOUS
<1> DEFINE w == Seen(p, tmp)
<1>1. u \in Vertex /\ info[u] = Degrees(u, w)
  BY OwnIs DEF Follows
<1>2. where[p] \in [Own(p) \union Ghosts(p) -> Parts] /\ tmp \in [Own(p) -> Parts]
  BY DEF Shape, Follows
<1>3. \A y \in Own(p) \union Ghosts(p) : w[y] \in Parts
  BY <1>2 DEF Seen
<1> HIDE DEF w
<1>4. w[u] \in Parts /\ \A y \in Adj[u] : w[y] \in Parts
  BY <1>3, NeighboursKnown
<1> QED BY <1>1, <1>4, DegreesTyped

LEMMA ShapeStays ==
  ASSUME Shape, UNCHANGED <<where, dirty, update, supdate, oldEDs, lmincut, chan>>,
         tmp_where' = [q \in PE |-> tmp_where'[q]],
         \A q \in PE : tmp_where'[q] \in [Own(q) -> Parts],
         todo' = [q \in PE |-> todo'[q]], moved' = [q \in PE |-> moved'[q]],
         ckrinfo' = [u \in Vertex |-> ckrinfo'[u]]
  PROVE  Shape'
<1>1. /\ where' = where /\ dirty' = dirty /\ update' = update /\ supdate' = supdate
      /\ oldEDs' = oldEDs /\ lmincut' = lmincut /\ chan' = chan
  OBVIOUS
<1>2. where' = [p \in PE |-> where'[p]] /\ chan' = [q \in PE |-> [p \in PE |-> chan'[q][p]]]
  BY <1>1, Zenon DEF Shape
<1>3. \A p \in PE : /\ where'[p] \in [Own(p) \union Ghosts(p) -> Parts]
                    /\ update'[p] \subseteq Own(p) /\ supdate'[p] \subseteq Ghosts(p)
                    /\ dirty'[p] \subseteq Own(p)
  BY <1>1, Zenon DEF Shape
<1>4. /\ oldEDs' \in [Vertex -> Int] /\ lmincut' \in [PE -> Int]
      /\ update' \in [PE -> SUBSET Vertex] /\ supdate' \in [PE -> SUBSET Vertex]
  BY <1>1, Zenon DEF Shape
<1> QED BY <1>2, <1>3, <1>4, Zenon DEF Shape

LEMMA AttemptInfo ==
  ASSUME IInv, IInv', InfoInv, NEW p \in PE, NEW v \in todo[p], NEW goals, Attempt(p, v, goals),
         goals \subseteq DOMAIN ckrinfo[v].nbr
  PROVE  InfoInv'
<1>1. /\ pc[p] = "one" /\ todo' = [todo EXCEPT ![p] = @ \ {v}]
      /\ UNCHANGED <<program, pc, pass, c, where, dirty, ognpwgts, update, supdate, oldEDs,
                     lmincut, mincut, chan>>
  BY DEF Attempt
<1>2. /\ Boxes' /\ NotAhead' /\ Copies'
      /\ \A q \in PE : \A u : Asked(q, u)' <=> Asked(q, u)
  BY <1>1, NothingSent DEF InfoInv
<1>3. Cuts' /\ Passes'
  <2>1. refiner' = refiner
    BY <1>1 DEF refiner
  <2> QED BY <1>1, <2>1 DEF InfoInv, Cuts, Passes
<1>4. /\ v \in Own(p) /\ v \in Vertex
      /\ todo = [q \in PE |-> todo[q]] /\ moved = [q \in PE |-> moved[q]]
  BY OwnIs DEF IInv, Typed, InfoInv, Shape
<1>5. /\ todo' = [q \in PE |-> todo'[q]] /\ v \notin todo'[p]
      /\ \A q \in PE : q # p => todo'[q] = todo[q]
  BY <1>1, <1>4
<1>6. Current' = Current
  BY <1>1 DEF Current
<1>7. CASE goals = {} /\ UNCHANGED <<tmp_where, ckrinfo, moved, lnpwgts, gnpwgts, movewgts>>
  <2>1. /\ tmp_where' = [q \in PE |-> tmp_where'[q]] /\ moved' = [q \in PE |-> moved'[q]]
        /\ \A q \in PE : tmp_where'[q] \in [Own(q) -> Parts]
        /\ ckrinfo' = [u \in Vertex |-> ckrinfo'[u]]
    BY <1>7, Zenon DEF InfoInv, Shape
  <2>4. Shape'
    BY <1>1, <1>5, <2>1, ShapeStays DEF InfoInv
  <2>5. InfoTyped' /\ Moves' /\ PartsOwn'
    BY <1>1, <1>5, <1>7 DEF InfoInv, InfoTyped, Moves, PartsOwn
  <2>2. Known'
    BY <1>1, <1>2, <1>7 DEF InfoInv, Known, Exact, Counted, Tentative
  <2>3. PartsKnown'
    <3>1. \A q \in PE : pc[q] = "one" /\ todo'[q] = Own(q) =>
            moved[q] = <<>> /\ gnpwgts[q] = ognpwgts[q]
      BY <1>4, <1>5 DEF InfoInv, PartsKnown
    <3> QED BY <1>1, <1>6, <1>7, <3>1 DEF InfoInv, PartsKnown
  <2> QED BY <1>2, <1>3, <2>2, <2>3, <2>4, <2>5 DEF InfoInv
<1>8. ASSUME NEW to \in goals,
             tmp_where' = [tmp_where EXCEPT ![p][v] = to],
             ckrinfo' = InfoAfter(ckrinfo, p, tmp_where[p], v, tmp_where[p][v], to),
             moved' = [moved EXCEPT ![p] = Append(@, v)],
             lnpwgts' = [lnpwgts EXCEPT ![p] = Shift(@, tmp_where[p][v], to, VWgt[v])],
             gnpwgts' = [gnpwgts EXCEPT ![p] = Shift(@, tmp_where[p][v], to, VWgt[v])]
      PROVE  InfoInv'
  <2> DEFINE tmp == tmp_where[p]
             from == tmp[v]
             new == [tmp EXCEPT ![v] = to]
             info == InfoAfter(ckrinfo, p, tmp, v, from, to)
             ln == Shift(lnpwgts[p], from, to, VWgt[v])
             gn == Shift(gnpwgts[p], from, to, VWgt[v])
  <2>1. /\ tmp_where = [q \in PE |-> tmp_where[q]]
        /\ \A q \in PE : tmp_where[q] \in [Own(q) -> Parts]
        /\ lnpwgts \in [PE -> [Parts -> Int]] /\ gnpwgts \in [PE -> [Parts -> Int]]
    BY DEF InfoInv, Shape, IInv, Typed
  <2>2. /\ tmp_where' = [q \in PE |-> tmp_where'[q]] /\ tmp_where'[p] = new
        /\ \A q \in PE : q # p => tmp_where'[q] = tmp_where[q]
    BY <1>8, <2>1
  <2>3. /\ \A q \in PE : q # p => lnpwgts'[q] = lnpwgts[q] /\ gnpwgts'[q] = gnpwgts[q]
        /\ lnpwgts'[p] = ln /\ gnpwgts'[p] = gn
    BY <1>8, <2>1
  <2>4. /\ \A q \in PE : q # p => moved'[q] = moved[q]
        /\ moved'[p] = Append(moved[p], v) /\ moved' = [q \in PE |-> moved'[q]]
    BY <1>4, <1>8
  <2>5. to \in Parts /\ to \in DOMAIN ckrinfo[v].nbr
    BY <1>4 DEF InfoInv, InfoTyped
  <2>6. Follows(p, new, info, ln) /\ to # from
    <3>1. Follows(p, tmp, ckrinfo, lnpwgts[p])
      BY <1>1, FollowsNow DEF IInv
    <3> QED BY <1>4, <2>5, <3>1, MoveFollows
  <2>7. ckrinfo' = info /\ info = [u \in Vertex |-> info[u]]
        /\ \A u \in Vertex : u \notin Own(p) => info[u] = ckrinfo[u]
    BY <1>4, <1>8 DEF InfoAfter
  <2>8. new \in [Own(p) -> Parts] /\ new[v] = to /\ \A u \in Own(p) : u # v => new[u] = tmp[u]
    BY <1>4, <2>1, <2>5
  <2>9. VWgt[v] \in Int /\ lnpwgts[p] \in [Parts -> Int] /\ gnpwgts[p] \in [Parts -> Int]
    BY <1>4, <2>1, WeightAssumption
  <2>10. \A a \in Parts : ln[a] <= gn[a] /\ gn[a] \in Nat
    <3> SUFFICES ASSUME NEW a \in Parts PROVE ln[a] <= gn[a] /\ gn[a] \in Nat
      OBVIOUS
    <3> DEFINE g == VWgt[v]
               x == lnpwgts[p][a]
               y == gnpwgts[p][a]
    <3>1. x \in Int /\ y \in Int /\ g \in Int /\ x <= y
      BY <1>1, <2>9 DEF InfoInv, PartsKnown
    <3>2. ln[a] = IF a = to /\ a # from THEN x + g ELSE IF a = from /\ a # to THEN x - g ELSE x
      BY <2>9, Shifted
    <3>3. gn[a] = IF a = to /\ a # from THEN y + g ELSE IF a = from /\ a # to THEN y - g ELSE y
      BY <2>9, Shifted
    <3>4. ln[a] \in Nat
      <4>1. Own(p) \in SUBSET Vertex
        BY OwnIs
      <4>2. PartWeight(Own(p), new, a) \in Nat
        BY <4>1, PartIs
      <4> QED BY <2>6, <4>2 DEF Follows
    <3> HIDE DEF x, y, g, ln, gn, from
    <3> QED BY <3>1, <3>2, <3>3, <3>4
  <2> HIDE DEF new, info, ln, gn
  <2>11. Shape'
    <3>1. \A q \in PE : tmp_where'[q] \in [Own(q) -> Parts]
      BY <2>1, <2>2, <2>8
    <3>2. /\ tmp_where' = [q \in PE |-> tmp_where'[q]] /\ todo' = [q \in PE |-> todo'[q]]
          /\ moved' = [q \in PE |-> moved'[q]] /\ ckrinfo' = [u \in Vertex |-> ckrinfo'[u]]
      BY <1>5, <2>2, <2>4, <2>7, Zenon
    <3> QED BY <1>1, <3>1, <3>2, ShapeStays DEF InfoInv
  <2>12. Tentative(p)' = Seen(p, new) /\ \A q \in PE : q # p => Tentative(q)' = Tentative(q)
    BY <1>1, <2>2 DEF Tentative, Seen
  <2>13. \A u \in Own(p) : info[u] = Degrees(u, Seen(p, new))
    BY <2>6 DEF Follows
  <2>14. InfoTyped'
    <3>1. \A u \in Own(p) : info[u].id \in Nat /\ info[u].ed \in Nat /\ DOMAIN info[u].nbr \subseteq Parts
      BY <2>6, FollowsTyped DEF InfoInv
    <3> QED BY <2>7, <3>1 DEF InfoInv, InfoTyped
  <2>15. Known'
    <3>1. ASSUME NEW u \in Own(p)
          PROVE  Exact(u, Tentative(p))' /\ Counted(u, where[p])'
      <4>1. Exact(u, Tentative(p))'
        BY <2>7, <2>12, <2>13 DEF Exact
      <4>2. Counted(u, where[p])'
        BY <1>1 DEF InfoInv, Known, Counted
      <4> QED BY <4>1, <4>2
    <3>2. ASSUME NEW q \in PE, q # p, NEW u \in Own(q)
          PROVE  /\ Exact(u, Tentative(q))' <=> Exact(u, Tentative(q))
                 /\ Exact(u, where[q])' <=> Exact(u, where[q])
                 /\ Counted(u, where[q])' <=> Counted(u, where[q])
      <4>1. u \in Vertex /\ u \notin Own(p)
        BY <3>2, OwnIs
      <4> QED BY <1>1, <2>7, <2>12, <3>2, <4>1 DEF Exact, Counted
    <3> SUFFICES ASSUME NEW q \in PE, NEW u \in Own(q)
                 PROVE  /\ pc[q] \in {"one", "commit"} => Exact(u, Tentative(q))' /\ Counted(u, where[q])'
                        /\ pc[q] = "where" => Exact(u, where[q])' /\ (u \in update[q] \/ Counted(u, where[q])')
                        /\ pc[q] = "supdate" => \/ u \in update[q] \/ Asked(q, u)
                                                \/ Exact(u, where[q])' /\ Counted(u, where[q])'
                        /\ pc[q] \in {"sum", "start", "done"} => Exact(u, where[q])' /\ Counted(u, where[q])'
      BY <1>1, <1>2 DEF Known
    <3>3. CASE q = p
      BY <1>1, <3>1, <3>3
    <3>4. CASE q # p
      BY <3>2, <3>4 DEF InfoInv, Known
    <3> QED BY <3>3, <3>4
  <2>16. Moves'
    <3>1. ToSet(moved'[p]) = ToSet(moved[p]) \union {v}
      <4>1. moved[p] \in Seq(Own(p))
        BY DEF IInv, Typed
      <4> QED BY <1>4, <2>4, <4>1, Listing
    <3>2. \A u \in Own(p) : u # v /\ tmp_where'[p][u] # where[p][u] => u \in ToSet(moved[p])
      BY <2>2, <2>8 DEF InfoInv, Moves
    <3> QED BY <1>1, <2>2, <2>4, <3>1, <3>2 DEF InfoInv, Moves
  <2>17. PartsOwn'
    BY <2>2, <2>3, <2>6 DEF InfoInv, PartsOwn, Follows
  <2>18. PartsKnown'
    <3>1. \A q \in PE : \A a \in Parts : gnpwgts'[q][a] \in Nat
                                       /\ (pc[q] = "one" => lnpwgts'[q][a] <= gnpwgts'[q][a])
      BY <2>3, <2>10 DEF InfoInv, PartsKnown
    <3>2. \A q \in PE : pc[q] = "one" /\ todo'[q] = Own(q) =>
            moved'[q] = <<>> /\ gnpwgts'[q] = ognpwgts[q]
      BY <1>4, <1>5, <2>3, <2>4 DEF InfoInv, PartsKnown
    <3>3. (\A q \in PE : pc[q] = "one") =>
            \A q \in PE : \A a \in Parts : ognpwgts[q][a] = PartWeight(Vertex, Current, a)
      BY DEF InfoInv, PartsKnown
    <3> QED BY <1>1, <1>6, <3>1, <3>2, <3>3 DEF PartsKnown
  <2> QED BY <1>2, <1>3, <2>11, <2>14, <2>15, <2>16, <2>17, <2>18 DEF InfoInv
<1> QED BY <1>7, <1>8 DEF Attempt

LEMMA SumsInfo ==
  ASSUME IInv, IInv', InfoInv, Sums
  PROVE  InfoInv'
<1>1. /\ \A q \in PE : pc[q] = "one"
      /\ pc' = [q \in PE |-> "commit"]
      /\ UNCHANGED <<program, pass, c, where, tmp_where, ckrinfo, todo, dirty, moved, lnpwgts,
                     gnpwgts, ognpwgts, update, supdate, oldEDs, lmincut, mincut, chan>>
  BY DEF Sums
<1>2. \A q \in PE : pc'[q] = "commit"
  BY <1>1
<1>3. Boxes' /\ NotAhead' /\ Copies'
  BY <1>1, <1>2, NothingSent DEF InfoInv
<1>4. Shape' /\ InfoTyped' /\ PartsOwn'
  BY <1>1 DEF InfoInv, Shape, InfoTyped, PartsOwn
<1>5. Known' /\ Moves'
  BY <1>1, <1>2 DEF InfoInv, Known, Moves, Exact, Counted, Tentative
<1>6. PartsKnown' /\ Cuts'
  BY <1>1, <1>2, PEsFinite DEF InfoInv, PartsKnown, Cuts
<1>7. Passes'
  <2>1. ~(\A q \in PE : pc'[q] = "done") /\ ~(\A q \in PE : pc[q] = "done") /\ refiner' = refiner
    BY <1>1, <1>2, PEsFinite DEF refiner
  <2> QED BY <1>1, <2>1 DEF InfoInv, Passes
<1> QED BY <1>3, <1>4, <1>5, <1>6, <1>7 DEF InfoInv

-----------------------------------------------------------------------------
(* The commit.                                                             *)

\* Nothing happens between two PEs.
LEMMA SameBox ==
  ASSUME NEW p \in PE, NEW q \in PE, p # q, Box(q, p), chan'[q][p] = chan[q][p],
         supdate'[q] = supdate[q], pc'[q] = pc[q],
         WhereDue(p)' <=> WhereDue(p), AskedDue(p)' <=> AskedDue(p),
         \A v \in Send(q, p) : where'[p][v] = where[p][v],
         \A v \in Own(q) : cur(v)' = cur(v)
  PROVE  Box(q, p)'
<1>1. (WhereOut(q)' <=> WhereOut(q)) /\ (AskedOut(q)' <=> AskedOut(q))
  BY DEF WhereOut, AskedOut
<1>2. \A m : GoodWhere(q, p, m) => GoodWhere(q, p, m)'
  BY SendIs DEF GoodWhere
<1>3. \A a : GoodAsks(q, p, a) => GoodAsks(q, p, a)'
  <2> SUFFICES ASSUME NEW a, GoodAsks(q, p, a), NEW v \in Own(p), NEW u \in Own(q), u \in Adj[v],
                      where'[p][u] # cur(u)'
               PROVE  v \in a
    BY DEF GoodAsks
  <2>1. u \in Send(q, p)
    <3>1. v \in Adj[u]
      BY OwnIs, EdgesBothWays
    <3> QED BY <3>1, SendIs
  <2>2. where[p][u] # cur(u)
    BY <2>1
  <2> QED BY <2>2 DEF GoodAsks
<1> QED BY <1>1, <1>2, <1>3 DEF Box

\* While p has not committed its moves its neighbours have not gone further,
\* and their copies of its vertices are right.
LEMMA NobodyAhead ==
  ASSUME IInv, InfoInv, NEW p \in PE, pc[p] \in {"one", "commit"}, NEW q \in Nbrs(p)
  PROVE  /\ q \in PE /\ q # p /\ p \in Nbrs(q)
         /\ WhereDue(q) /\ pc[q] \notin {"supdate", "sum"}
         /\ chan[p][q] = <<>>
         /\ \A v \in Send(p, q) : where[q][v] = cur(v)
<1>1. q \in PE /\ q # p /\ p \in Nbrs(q)
  BY NbrsIn, NbrsBothWays, NbrsAre, SendIs
<1>2. ~WhereOut(p) /\ ~AskedOut(p)
  BY DEF WhereOut, AskedOut
<1>3. pc[q] \notin {"supdate", "sum"}
  BY <1>1, <1>2 DEF InfoInv, NotAhead
<1>4. pc[q] \in DirectionPhases
  <2>1. pc[p] # "start" /\ pc[p] # "done"
    OBVIOUS
  <2> QED BY <1>1, <2>1, Zenon DEF IInv, Together
<1>5. WhereDue(q)
  BY <1>3, <1>4 DEF DirectionPhases, WhereDue
<1>6. chan[p][q] = <<>>
  BY <1>1, <1>2 DEF InfoInv, Boxes, Box
<1>7. ASSUME NEW v \in Send(p, q) PROVE where[q][v] = cur(v)
  <2>1. v \in Ghosts(q) /\ Owner[v] = p
    BY <1>1, <1>7, GhostsAre, SendIs, OwnIs
  <2> QED BY <1>1, <1>2, <2>1 DEF InfoInv, Copies
<1> QED BY <1>1, <1>3, <1>5, <1>6, <1>7

LEMMA AnnounceInfo ==
  ASSUME IInv, IInv', InfoInv, NEW p \in PE, pc[p] \in {"one", "commit"},
         NEW tmp, NEW info, NEW lnp, NEW kept, Settled(p, tmp, info, lnp, kept),
         Announce(p, tmp, info, lnp, kept)
  PROVE  InfoInv'
<1> DEFINE touched == kept \union UNION {Adj[v] : v \in kept}
           new == [v \in DOMAIN where[p] |-> IF v \in kept THEN tmp[v] ELSE where[p][v]]
           msg == [q \in Nbrs(p) |-> [v \in Send(p, q) \cap kept |-> new[v]]]
<1>1. /\ tmp_where' = [tmp_where EXCEPT ![p] = tmp]
      /\ ckrinfo' = [v \in Vertex |-> IF v \in Own(p) THEN info[v] ELSE ckrinfo[v]]
      /\ lnpwgts' = [lnpwgts EXCEPT ![p] = lnp]
      /\ where' = [where EXCEPT ![p] = new]
      /\ update' = [update EXCEPT ![p] = touched \cap Own(p)]
      /\ supdate' = [supdate EXCEPT ![p] = touched \ Own(p)]
      /\ chan' = Post(chan, p, msg)
      /\ pc' = [pc EXCEPT ![p] = "where"]
      /\ UNCHANGED <<program, pass, c, todo, dirty, moved, gnpwgts, ognpwgts, oldEDs, lmincut,
                     mincut>>
  BY Zenon DEF Announce
<1>2. /\ Follows(p, tmp, info, lnp) /\ kept \subseteq Own(p)
      /\ \A v \in Own(p) : tmp[v] # where[p][v] => v \in kept
  BY DEF Settled
<1>3. Shape /\ Typed
  BY DEF InfoInv, IInv
<1>4. /\ where[p] \in [Own(p) \union Ghosts(p) -> Parts] /\ tmp \in [Own(p) -> Parts]
      /\ Own(p) \subseteq Vertex /\ \A v \in Ghosts(p) : v \notin Own(p) /\ v \in Vertex
  <2>1. where[p] \in [Own(p) \union Ghosts(p) -> Parts] /\ tmp \in [Own(p) -> Parts]
    BY <1>2, <1>3 DEF Shape, Follows
  <2>2. \A v \in Ghosts(p) : v \notin Own(p) /\ v \in Vertex
    BY OwnIs, GhostsAre
  <2> QED BY <2>1, <2>2, OwnIs
\* What is committed.
<1>5. /\ new \in [Own(p) \union Ghosts(p) -> Parts]
      /\ \A v \in Own(p) : new[v] = tmp[v] /\ (v \notin kept => new[v] = where[p][v])
      /\ \A v \in Ghosts(p) : new[v] = where[p][v]
  <2>1. new = [v \in Own(p) \union Ghosts(p) |-> IF v \in kept THEN tmp[v] ELSE where[p][v]]
    BY <1>4
  <2> HIDE DEF new
  <2> QED BY <1>2, <1>4, <2>1
<1>6. /\ \A v \in kept : v \in touched /\ \A u \in Adj[v] : u \in touched
      /\ touched \subseteq Own(p) \union Ghosts(p)
      /\ touched \cap Own(p) \subseteq Own(p) /\ touched \ Own(p) \subseteq Ghosts(p)
  BY <1>2, NeighboursKnown
<1>7. \A v \in Own(p) : v \notin touched => v \notin kept /\ \A u \in Adj[v] : u \notin kept
  BY <1>2, <1>4, <1>6, EdgesBothWays
<1>8. \A q \in Nbrs(p) : msg[q] = [v \in Send(p, q) \cap kept |-> new[v]]
  OBVIOUS
<1>9. DOMAIN msg = Nbrs(p)
  OBVIOUS
<1> HIDE DEF new, msg, touched
\* The variables, for each PE.
<1>10. /\ pc' = [q \in PE |-> IF q = p THEN "where" ELSE pc[q]]
       /\ tmp_where' = [q \in PE |-> IF q = p THEN tmp ELSE tmp_where[q]]
       /\ where' = [q \in PE |-> IF q = p THEN new ELSE where[q]]
       /\ update' = [q \in PE |-> IF q = p THEN touched \cap Own(p) ELSE update[q]]
       /\ supdate' = [q \in PE |-> IF q = p THEN touched \ Own(p) ELSE supdate[q]]
       /\ lnpwgts' = [q \in PE |-> IF q = p THEN lnp ELSE lnpwgts[q]]
  <2>1. /\ pc = [q \in PE |-> pc[q]] /\ tmp_where = [q \in PE |-> tmp_where[q]]
        /\ where = [q \in PE |-> where[q]] /\ update = [q \in PE |-> update[q]]
        /\ supdate = [q \in PE |-> supdate[q]] /\ lnpwgts = [q \in PE |-> lnpwgts[q]]
    BY <1>3 DEF Shape, Typed
  <2> QED BY <1>1, <2>1
<1>11. /\ pc'[p] = "where" /\ tmp_where'[p] = tmp /\ where'[p] = new /\ lnpwgts'[p] = lnp
       /\ update'[p] = touched \cap Own(p) /\ supdate'[p] = touched \ Own(p)
       /\ \A q \in PE : q # p =>
            /\ pc'[q] = pc[q] /\ tmp_where'[q] = tmp_where[q] /\ where'[q] = where[q]
            /\ update'[q] = update[q] /\ supdate'[q] = supdate[q] /\ lnpwgts'[q] = lnpwgts[q]
  BY <1>10
<1>12. /\ chan' = [q \in PE |-> [r \in PE |-> chan'[q][r]]]
       /\ \A q, r \in PE : chan'[q][r] = IF q = p /\ r \in Nbrs(p) THEN Append(chan[q][r], msg[r])
                                         ELSE chan[q][r]
  <2>1. chan = [q \in PE |-> [r \in PE |-> chan[q][r]]]
    BY <1>3 DEF Shape
  <2>2. chan' = Post(chan, p, msg)
    BY <1>1
  <2>3. /\ Post(chan, p, msg) = [q \in PE |-> [r \in PE |-> Post(chan, p, msg)[q][r]]]
        /\ \A q, r \in PE : Post(chan, p, msg)[q][r] =
             IF q = p /\ r \in DOMAIN msg THEN Append(chan[q][r], msg[r]) ELSE chan[q][r]
    BY <2>1, Posted
  <2>4. chan' = [q \in PE |-> [r \in PE |-> chan'[q][r]]]
    BY <2>2, <2>3
  <2>5. \A q, r \in PE : chan'[q][r] = IF q = p /\ r \in Nbrs(p) THEN Append(chan[q][r], msg[r])
                                       ELSE chan[q][r]
    BY <1>9, <2>2, <2>3
  <2> QED BY <2>4, <2>5
<1>13. /\ \A v \in Own(p) : cur(v)' = new[v]
       /\ \A q \in PE : q # p => \A v \in Own(q) : cur(v)' = cur(v)
  BY <1>11, OwnIs DEF cur
<1>14. \A q \in Nbrs(p) : /\ q \in PE /\ q # p /\ p \in Nbrs(q)
                          /\ WhereDue(q) /\ pc[q] \notin {"supdate", "sum"}
                          /\ chan[p][q] = <<>>
                          /\ \A v \in Send(p, q) : where[q][v] = cur(v)
  BY NobodyAhead
<1>15. /\ WhereOut(p)' /\ ~AskedOut(p)' /\ WhereDue(p)' /\ AskedDue(p)'
       /\ ~WhereOut(p) /\ ~AskedOut(p) /\ WhereDue(p) /\ AskedDue(p)
  BY <1>11 DEF WhereOut, AskedOut, WhereDue, AskedDue
<1>16. \A q \in PE : q # p =>
         /\ WhereOut(q)' <=> WhereOut(q)
         /\ AskedOut(q)' <=> AskedOut(q)
         /\ WhereDue(q)' <=> WhereDue(q)
         /\ AskedDue(q)' <=> AskedDue(q)
  <2>1. \A q \in PE : q # p => pc'[q] = pc[q]
    BY <1>11
  <2> QED BY <2>1 DEF WhereOut, AskedOut, WhereDue, AskedDue
<1>17. Shape'
  <2>1. /\ where' = [q \in PE |-> where'[q]] /\ tmp_where' = [q \in PE |-> tmp_where'[q]]
        /\ ckrinfo' = [v \in Vertex |-> ckrinfo'[v]]
        /\ todo' = [q \in PE |-> todo'[q]] /\ moved' = [q \in PE |-> moved'[q]]
    <3>1. ckrinfo' = [v \in Vertex |-> ckrinfo'[v]]
      BY <1>1
    <3>2. where' = [q \in PE |-> where'[q]] /\ tmp_where' = [q \in PE |-> tmp_where'[q]]
      BY <1>10
    <3>3. todo' = [q \in PE |-> todo'[q]] /\ moved' = [q \in PE |-> moved'[q]]
      BY <1>1, <1>3, Zenon DEF Shape
    <3> QED BY <3>1, <3>2, <3>3
  <2>2. \A q \in PE : /\ where'[q] \in [Own(q) \union Ghosts(q) -> Parts]
                      /\ tmp_where'[q] \in [Own(q) -> Parts]
                      /\ update'[q] \subseteq Own(q) /\ supdate'[q] \subseteq Ghosts(q)
                      /\ dirty'[q] \subseteq Own(q)
    <3> SUFFICES ASSUME NEW q \in PE
                 PROVE  /\ where'[q] \in [Own(q) \union Ghosts(q) -> Parts]
                        /\ tmp_where'[q] \in [Own(q) -> Parts]
                        /\ update'[q] \subseteq Own(q) /\ supdate'[q] \subseteq Ghosts(q)
                        /\ dirty'[q] \subseteq Own(q)
      OBVIOUS
    <3>1. dirty'[q] \subseteq Own(q)
      BY <1>1, <1>3 DEF Shape
    <3>2. CASE q = p
      BY <1>4, <1>5, <1>6, <1>11, <3>1, <3>2
    <3>3. CASE q # p
      BY <1>3, <1>11, <3>1, <3>3 DEF Shape
    <3> QED BY <3>2, <3>3
  <2>3. /\ update' \in [PE -> SUBSET Vertex] /\ supdate' \in [PE -> SUBSET Vertex]
        /\ oldEDs' \in [Vertex -> Int] /\ lmincut' \in [PE -> Int]
    <3>1. \A q \in PE : update'[q] \in SUBSET Vertex /\ supdate'[q] \in SUBSET Vertex
      BY <2>2, OwnIs, GhostsAre
    <3>2. update' = [q \in PE |-> update'[q]] /\ supdate' = [q \in PE |-> supdate'[q]]
      BY <1>10
    <3>3. oldEDs' \in [Vertex -> Int] /\ lmincut' \in [PE -> Int]
      BY <1>1, <1>3 DEF Shape
    <3> QED BY <3>1, <3>2, <3>3
  <2> QED BY <1>12, <2>1, <2>2, <2>3, Zenon DEF Shape
<1>18. Boxes'
  <2> SUFFICES ASSUME NEW r \in PE, NEW q \in Nbrs(r) PROVE Box(q, r)'
    BY DEF Boxes
  <2>1. q \in PE /\ q # r /\ Box(q, r) /\ r \in Nbrs(q)
    BY NbrsIn, NbrsAre, SendIs, NbrsBothWays DEF InfoInv, Boxes
  <2>2. CASE q = p
    <3>1. r \in Nbrs(p) /\ r # p
      BY <2>1, <2>2
    <3>0. PICK m : m = msg[r]
      OBVIOUS
    <3>2. chan'[p][r] = <<m>>
      BY <1>12, <1>14, <3>0, <3>1, Queues
    <3>3. \A v \in Send(p, r) : v \in Own(p) /\ where'[r][v] = cur(v)
      BY <1>11, <1>14, <3>1, SendIs
    <3>4. GoodWhere(p, r, m)'
      <4>1. m = [v \in Send(p, r) \cap kept |-> new[v]]
        BY <1>8, <3>0, <3>1
      <4>2. ASSUME NEW v \in Send(p, r)
            PROVE  IF v \in DOMAIN m THEN m[v] = cur(v)' ELSE where'[r][v] = cur(v)'
        <5>1. cur(v)' = new[v] /\ cur(v) = where[p][v] /\ v \in Own(p)
          BY <1>13, <3>3, CurIs
        <5>2. CASE v \in kept
          BY <4>1, <5>1, <5>2
        <5>3. CASE v \notin kept
          BY <1>5, <3>3, <4>1, <5>1, <5>3
        <5> QED BY <5>2, <5>3
      <4> QED BY <4>2 DEF GoodWhere
    <3>5. GoodAsks(p, r, supdate[p])'
      <4> SUFFICES ASSUME NEW v \in Own(r), NEW u \in Own(p), u \in Adj[v], where'[r][u] # cur(u)'
                   PROVE  v \in supdate'[p]
        BY DEF GoodAsks
      <4>1. v \in Vertex /\ v \in Adj[u] /\ v \notin Own(p) /\ u \in Vertex
        BY <3>1, OwnIs, EdgesBothWays
      <4>2. u \in Send(p, r)
        BY <3>1, <4>1, SendIs
      <4>3. new[u] # where[p][u]
        BY <1>13, <3>3, <4>2, CurIs
      <4>4. u \in kept
        BY <1>5, <4>3
      <4> QED BY <1>6, <1>11, <4>1, <4>4
    <3>6. WhereDue(r)'
      BY <1>14, <1>16, <3>1
    <3> QED BY <1>15, <2>2, <3>2, <3>4, <3>5, <3>6 DEF Box
  <2>3. CASE q # p
    <3>1. chan'[q][r] = chan[q][r] /\ supdate'[q] = supdate[q] /\ pc'[q] = pc[q]
      BY <1>11, <1>12, <2>1, <2>3
    <3>2. (WhereDue(r)' <=> WhereDue(r)) /\ (AskedDue(r)' <=> AskedDue(r))
      BY <1>15, <1>16
    <3>3. \A v \in Own(q) : cur(v)' = cur(v)
      BY <1>13, <2>1, <2>3
    <3>4. \A v \in Send(q, r) : where'[r][v] = where[r][v]
      <4>1. CASE r = p
        <5>1. \A v \in Send(q, r) : v \in Ghosts(p)
          BY <2>1, <4>1, SendIs, GhostsAre, OwnIs
        <5> QED BY <1>5, <1>11, <4>1, <5>1
      <4>2. CASE r # p
        BY <1>11, <4>2
      <4> QED BY <4>1, <4>2
    <3> QED BY <2>1, <3>1, <3>2, <3>3, <3>4, SameBox
  <2> QED BY <2>2, <2>3
<1>19. NotAhead'
  <2> SUFFICES ASSUME NEW r \in PE, NEW q \in Nbrs(r)
               PROVE  /\ pc'[r] = "supdate" => WhereOut(q)'
                      /\ pc'[r] = "sum" => AskedOut(q)'
    BY DEF NotAhead
  <2>1. CASE r = p
    BY <1>11, <2>1
  <2>2. CASE r # p /\ q = p
    <3>1. pc'[r] \notin {"supdate", "sum"}
      BY <1>11, <1>14, <2>2, NbrsBothWays
    <3> QED BY <3>1
  <2>3. CASE r # p /\ q # p
    BY <1>11, <1>16, <2>3, NbrsIn DEF InfoInv, NotAhead
  <2> QED BY <2>1, <2>2, <2>3
<1>20. Copies'
  <2> SUFFICES ASSUME NEW r \in PE, NEW v \in Ghosts(r), ~(WhereDue(r)' /\ WhereOut(Owner[v])')
               PROVE  where'[r][v] = cur(v)'
    BY DEF Copies
  <2>1. v \in Own(Owner[v]) /\ Owner[v] \in PE /\ Owner[v] # r /\ Owner[v] \in Nbrs(r)
    BY OthersIn, OwnerIn, GhostsAre
  <2>2. Owner[v] # p
    <3> SUFFICES ASSUME Owner[v] = p PROVE FALSE
      OBVIOUS
    <3>1. r \in Nbrs(p) /\ r # p
      BY <2>1, NbrsBothWays
    <3> QED BY <1>14, <1>15, <1>16, <3>1
  <2>3. cur(v)' = cur(v) /\ (WhereOut(Owner[v])' <=> WhereOut(Owner[v]))
    BY <1>13, <1>16, <2>1, <2>2
  <2>4. where'[r][v] = where[r][v]
    BY <1>5, <1>11
  <2>5. WhereDue(r)' <=> WhereDue(r)
    BY <1>15, <1>16
  <2> QED BY <2>3, <2>4, <2>5 DEF InfoInv, Copies
<1>21. /\ \A v \in Own(p) : ckrinfo'[v] = info[v]
       /\ \A v \in Vertex : v \notin Own(p) => ckrinfo'[v] = ckrinfo[v]
  BY <1>1, <1>4
<1>22. InfoTyped'
  <2>1. \A v \in Own(p) : info[v].id \in Nat /\ info[v].ed \in Nat /\ DOMAIN info[v].nbr \subseteq Parts
    BY <1>2, <1>3, FollowsTyped
  <2> QED BY <1>21, <2>1 DEF InfoInv, InfoTyped
<1>23. Known'
  <2>1. ASSUME NEW v \in Own(p)
        PROVE  Exact(v, where[p])' /\ (v \in update'[p] \/ Counted(v, where[p])')
    <3>1. Degrees(v, Seen(p, tmp)) = Degrees(v, new)
      <4>1. \A u \in Own(p) \union Ghosts(p) : Seen(p, tmp)[u] = new[u]
        BY <1>5, SeenIs
      <4> QED BY <4>1, DegreesSeen
    <3>2. Exact(v, where[p])'
      BY <1>2, <1>11, <1>21, <3>1 DEF Exact, Follows
    <3>3. CASE v \in touched
      BY <1>11, <3>2, <3>3
    <3>4. CASE v \notin touched
      <4>1. new[v] = where[p][v] /\ \A u \in Adj[v] : new[u] = where[p][u]
        BY <1>5, <1>7, <3>4, NeighboursKnown
      <4>2. v \in Vertex
        BY <1>4
      <4>3. Degrees(v, new) = Degrees(v, where[p])
        BY <4>1, <4>2, DegreesSame
      <4>4. Counted(v, where[p])
        BY DEF InfoInv, Known
      <4>5. Counted(v, where[p])'
        BY <1>1, <1>11, <4>3, <4>4 DEF Counted
      <4> QED BY <3>2, <4>5
    <3> QED BY <3>3, <3>4
  <2>2. ASSUME NEW q \in PE, q # p, NEW v \in Own(q)
        PROVE  /\ Exact(v, Tentative(q))' <=> Exact(v, Tentative(q))
               /\ Exact(v, where[q])' <=> Exact(v, where[q])
               /\ Counted(v, where[q])' <=> Counted(v, where[q])
               /\ Asked(q, v) => Asked(q, v)'
    <3>1. ckrinfo'[v] = ckrinfo[v]
      <4>1. v \in Vertex /\ v \notin Own(p)
        BY <2>2, OwnIs
      <4> QED BY <1>21, <4>1
    <3>2. where'[q] = where[q] /\ oldEDs' = oldEDs
      BY <1>1, <1>11, <2>2
    <3>3. Tentative(q)' = Tentative(q)
      BY <1>11, <2>2 DEF Tentative
    <3>4. Asked(q, v) => Asked(q, v)'
      <4> SUFFICES ASSUME Asked(q, v) PROVE Asked(q, v)'
        OBVIOUS
      <4>0. PICK r \in Nbrs(q) : \/ pc[r] = "where" /\ v \in supdate[r]
                                 \/ AskedOut(r) /\ v \in Head(chan[r][q])
        BY DEF Asked
      <4>1. r \in PE /\ r # p
        BY <1>15, <4>0, NbrsIn
      <4>2. pc'[r] = pc[r] /\ supdate'[r] = supdate[r] /\ chan'[r][q] = chan[r][q]
            /\ (AskedOut(r)' <=> AskedOut(r))
        BY <1>11, <1>12, <1>16, <4>1
      <4> QED BY <4>0, <4>2 DEF Asked
    <3> QED BY <3>1, <3>2, <3>3, <3>4 DEF Exact, Counted
  <2> SUFFICES ASSUME NEW q \in PE, NEW v \in Own(q)
               PROVE  /\ pc'[q] \in {"one", "commit"} => Exact(v, Tentative(q))' /\ Counted(v, where[q])'
                      /\ pc'[q] = "where" => Exact(v, where[q])' /\ (v \in update'[q] \/ Counted(v, where[q])')
                      /\ pc'[q] = "supdate" => \/ v \in update'[q] \/ Asked(q, v)'
                                               \/ Exact(v, where[q])' /\ Counted(v, where[q])'
                      /\ pc'[q] \in {"sum", "start", "done"} => Exact(v, where[q])' /\ Counted(v, where[q])'
    BY DEF Known
  <2>3. CASE q = p
    BY <1>11, <2>1, <2>3
  <2>4. CASE q # p
    BY <1>11, <2>2, <2>4 DEF InfoInv, Known
  <2> QED BY <2>3, <2>4
<1>24. Moves'
  BY <1>1, <1>5, <1>11 DEF InfoInv, Moves
<1>25. PartsOwn'
  BY <1>2, <1>11 DEF InfoInv, PartsOwn, Follows
<1>26. PartsKnown'
  <2>1. ~(\A q \in PE : pc'[q] \in {"start", "done"}) /\ ~(\A q \in PE : pc'[q] = "one")
    BY <1>11
  <2>2. \A q \in PE : \A a \in Parts : gnpwgts'[q][a] \in Nat
                                     /\ (pc'[q] = "one" => lnpwgts'[q][a] <= gnpwgts'[q][a])
    BY <1>1, <1>11 DEF InfoInv, PartsKnown
  <2>3. \A q \in PE : pc'[q] = "one" /\ todo'[q] = Own(q) =>
          moved'[q] = <<>> /\ gnpwgts'[q] = ognpwgts'[q]
    BY <1>1, <1>11 DEF InfoInv, PartsKnown
  <2> QED BY <2>1, <2>2, <2>3 DEF PartsKnown
<1>27. Cuts'
  <2>1. ~(\A q \in PE : pc'[q] \in {"start", "done"})
    BY <1>11
  <2> QED BY <1>1, <2>1 DEF InfoInv, Cuts
<1>28. Passes'
  <2>1. ~(\A q \in PE : pc'[q] = "done") /\ ~(\A q \in PE : pc[q] = "done") /\ refiner' = refiner
    BY <1>1, <1>11 DEF refiner
  <2> QED BY <1>1, <2>1 DEF InfoInv, Passes
<1> QED BY <1>17, <1>18, <1>19, <1>20, <1>22, <1>23, <1>24, <1>25, <1>26, <1>27, <1>28 DEF InfoInv

LEMMA CommitInfo ==
  ASSUME IInv, IInv', InfoInv, NEW p \in PE, CommitUndone(p)
  PROVE  InfoInv'
<1>1. pc[p] \in {"one", "commit"}
      /\ Announce(p, Undone(p).tmp, Undone(p).info, Undone(p).lnp, Undone(p).kept)
  BY DEF CommitUndone
<1>2. Typed /\ where[p] \in [Own(p) \union Ghosts(p) -> Parts]
  BY DEF IInv, InfoInv, Shape
<1>3. Follows(p, tmp_where[p], ckrinfo, lnpwgts[p])
  BY <1>1, <1>2, FollowsNow
<1>4. \A v \in Own(p) : tmp_where[p][v] # where[p][v] => v \in ToSet(moved[p])
  BY DEF InfoInv, Moves
<1>5. Settled(p, Undone(p).tmp, Undone(p).info, Undone(p).lnp, Undone(p).kept)
  BY <1>2, <1>3, <1>4, UndoneSettled
<1> QED BY <1>1, <1>5, AnnounceInfo

LEMMA BalanceCommitInfo ==
  ASSUME IInv, IInv', InfoInv, NEW p \in PE, BalanceCommit(p)
  PROVE  InfoInv'
<1>1. /\ pc[p] \in {"one", "commit"}
      /\ Announce(p, tmp_where[p], ckrinfo, lnpwgts[p], ToSet(moved[p]))
  BY DEF BalanceCommit
<1>2. Follows(p, tmp_where[p], ckrinfo, lnpwgts[p])
  BY <1>1, FollowsNow DEF IInv
<1>3. ToSet(moved[p]) \subseteq Own(p)
  <2>1. moved[p] \in Seq(Own(p))
    BY DEF IInv, Typed
  <2> QED BY <2>1 DEF ToSet
<1>4. \A v \in Own(p) : tmp_where[p][v] # where[p][v] => v \in ToSet(moved[p])
  BY DEF InfoInv, Moves
<1>5. Settled(p, tmp_where[p], ckrinfo, lnpwgts[p], ToSet(moved[p]))
  BY <1>2, <1>3, <1>4 DEF Settled
<1> QED BY <1>1, <1>5, AnnounceInfo

-----------------------------------------------------------------------------
(* The ghosts are told of the moves.                                       *)

\* What p finds when the new parts have arrived from all its neighbours.
LEMMA WhereArrived ==
  ASSUME IInv, InfoInv, NEW p \in PE, pc[p] = "where", ArrivedFrom(chan, p, Nbrs(p)), NEW q \in Nbrs(p)
  PROVE  /\ q \in PE /\ q # p /\ p \in Nbrs(q) /\ WhereOut(q)
         /\ pc[q] \in {"where", "supdate"}
         /\ GoodWhere(q, p, Head(chan[q][p]))
         /\ AskedOut(q) => \E a : Tail(chan[q][p]) = <<a>> /\ a \subseteq Own(p) /\ GoodAsks(q, p, a)
         /\ ~AskedOut(q) => Tail(chan[q][p]) = <<>> /\ GoodAsks(q, p, supdate[q])
<1>1. q \in PE /\ q # p /\ p \in Nbrs(q)
  BY NbrsIn, NbrsBothWays, NbrsAre, SendIs
<1>2. Box(q, p) /\ chan[q][p] # <<>>
  BY DEF InfoInv, Boxes, ArrivedFrom
<1>3. WhereDue(p) /\ ~AskedOut(p)
  BY DEF WhereDue, AskedOut
<1>4. WhereOut(q)
  BY <1>2, <1>3 DEF Box, WhereOut, AskedOut
<1>5. pc[q] \in {"where", "supdate"}
  BY <1>1, <1>3, <1>4 DEF InfoInv, NotAhead, WhereOut
<1>6. CASE AskedOut(q)
  <2>1. PICK m, a : chan[q][p] = <<m, a>> /\ a \subseteq Own(p) /\ GoodWhere(q, p, m) /\ GoodAsks(q, p, a)
    BY <1>2, <1>3, <1>6 DEF Box
  <2>2. Head(chan[q][p]) = m /\ Tail(chan[q][p]) = <<a>>
    BY <2>1, Queues
  <2> QED BY <1>1, <1>4, <1>5, <1>6, <2>1, <2>2
<1>7. CASE ~AskedOut(q)
  <2>1. PICK m : chan[q][p] = <<m>> /\ GoodWhere(q, p, m) /\ GoodAsks(q, p, supdate[q])
    BY <1>2, <1>3, <1>4, <1>7 DEF Box
  <2>2. Head(chan[q][p]) = m /\ Tail(chan[q][p]) = <<>>
    BY <2>1, Queues
  <2> QED BY <1>1, <1>4, <1>5, <1>7, <2>1, <2>2
<1> QED BY <1>6, <1>7

\* The weights, the cut and the passes while p gives out what it has or takes
\* in what others have.
LEMMA RestStays ==
  ASSUME PartsKnown, Passes, Cuts, NEW p \in PE, pc[p] \in {"where", "supdate"},
         pc'[p] \in {"supdate", "sum"}, \A q \in PE : q # p => pc'[q] = pc[q],
         UNCHANGED <<program, pass, c, todo, moved, lnpwgts, gnpwgts, ognpwgts>>
  PROVE  PartsKnown' /\ Passes' /\ (UNCHANGED <<oldEDs, lmincut, mincut>> => Cuts')
<1>1. /\ ~(\A q \in PE : pc'[q] \in {"start", "done"}) /\ ~(\A q \in PE : pc'[q] = "one")
      /\ ~(\A q \in PE : pc'[q] = "done") /\ ~(\A q \in PE : pc[q] = "done")
  OBVIOUS
<1>2. PartsKnown'
  BY <1>1 DEF PartsKnown
<1>3. Passes'
  <2>1. refiner' = refiner
    BY DEF refiner
  <2> QED BY <1>1, <2>1 DEF Passes
<1>4. UNCHANGED <<oldEDs, lmincut, mincut>> => Cuts'
  BY <1>1 DEF Cuts
<1> QED BY <1>2, <1>3, <1>4

LEMMA AskUpdatesInfo ==
  ASSUME IInv, IInv', InfoInv, NEW p \in PE, AskUpdates(p)
  PROVE  InfoInv'
<1> DEFINE new == Exchanged(chan, p, where[p])
           msg == [q \in Nbrs(p) |-> supdate[p] \cap Own(q)]
           taken == Take(chan, p, Nbrs(p))
<1>1. /\ pc[p] = "where" /\ ArrivedFrom(chan, p, Nbrs(p))
      /\ where' = [where EXCEPT ![p] = new]
      /\ chan' = Post(taken, p, msg)
      /\ supdate' = [supdate EXCEPT ![p] = {}]
      /\ pc' = [pc EXCEPT ![p] = "supdate"]
      /\ UNCHANGED <<program, pass, c, tmp_where, ckrinfo, todo, dirty, moved, lnpwgts, gnpwgts,
                     ognpwgts, update, oldEDs, lmincut, mincut>>
  BY Zenon DEF AskUpdates
<1>2. Shape /\ Typed
  BY DEF InfoInv, IInv
<1>3. /\ where[p] \in [Own(p) \union Ghosts(p) -> Parts]
      /\ Own(p) \subseteq Vertex /\ \A v \in Ghosts(p) : v \notin Own(p) /\ v \in Vertex
  BY <1>2, OwnIs, GhostsAre DEF Shape
<1>4. \A q \in Nbrs(p) : /\ q \in PE /\ q # p /\ p \in Nbrs(q) /\ WhereOut(q)
                         /\ pc[q] \in {"where", "supdate"}
                         /\ GoodWhere(q, p, Head(chan[q][p]))
                         /\ AskedOut(q) => \E a : Tail(chan[q][p]) = <<a>> /\ a \subseteq Own(p)
                                                  /\ GoodAsks(q, p, a)
                         /\ ~AskedOut(q) => Tail(chan[q][p]) = <<>> /\ GoodAsks(q, p, supdate[q])
  BY <1>1, WhereArrived
\* Own vertices stay, and the ghosts are where they are.
<1>5. /\ new = [v \in Own(p) \union Ghosts(p) |-> new[v]]
      /\ \A v \in Own(p) : new[v] = where[p][v]
      /\ \A v \in Ghosts(p) : new[v] = cur(v)
  <2>1. DOMAIN where[p] = Own(p) \union Ghosts(p)
    BY <1>3
  <2>2. new = [v \in Own(p) \union Ghosts(p) |-> new[v]]
    BY <2>1 DEF Exchanged
  <2>3. \A v \in Own(p) : new[v] = where[p][v]
    BY <1>3, <2>1 DEF Exchanged
  <2>4. ASSUME NEW v \in Ghosts(p) PROVE new[v] = cur(v)
    <3>1. PICK m : m = Head(chan[Owner[v]][p])
      OBVIOUS
    <3>2. Owner[v] \in Nbrs(p) /\ v \in Send(Owner[v], p)
      BY GhostsAre
    <3>3. GoodWhere(Owner[v], p, m)
      BY <1>4, <3>1, <3>2
    <3>4. new[v] = IF v \in DOMAIN m THEN m[v] ELSE where[p][v]
      BY <2>1, <3>1 DEF Exchanged
    <3> HIDE DEF new
    <3> QED BY <3>2, <3>3, <3>4 DEF GoodWhere
  <2> QED BY <2>2, <2>3, <2>4
<1>6. DOMAIN msg = Nbrs(p) /\ \A q \in Nbrs(p) : msg[q] = supdate[p] \cap Own(q)
  OBVIOUS
<1>7. /\ taken = [q \in PE |-> [r \in PE |-> taken[q][r]]]
      /\ \A q, r \in PE : taken[q][r] = IF q \in Nbrs(p) /\ r = p THEN Tail(chan[q][r]) ELSE chan[q][r]
  <2>1. chan = [q \in PE |-> [r \in PE |-> chan[q][r]]]
    BY <1>2 DEF Shape
  <2> QED BY <2>1, Taken
<1> HIDE DEF new, msg, taken
<1>8. /\ chan' = [q \in PE |-> [r \in PE |-> chan'[q][r]]]
      /\ \A q, r \in PE : chan'[q][r] = IF q = p /\ r \in Nbrs(p) THEN Append(taken[q][r], msg[r])
                                        ELSE taken[q][r]
  <2>1. chan' = Post(taken, p, msg) /\ DOMAIN msg = Nbrs(p)
    BY <1>1, <1>6
  <2>2. taken = [q \in PE |-> [r \in PE |-> taken[q][r]]]
    BY <1>7
  <2> QED BY <2>1, <2>2, Posted
<1>9. /\ pc'[p] = "supdate" /\ where'[p] = new /\ supdate'[p] = {}
      /\ where' = [q \in PE |-> where'[q]] /\ supdate' = [q \in PE |-> supdate'[q]]
      /\ \A q \in PE : q # p => pc'[q] = pc[q] /\ where'[q] = where[q] /\ supdate'[q] = supdate[q]
  <2>1. /\ pc = [q \in PE |-> pc[q]] /\ where = [q \in PE |-> where[q]]
        /\ supdate = [q \in PE |-> supdate[q]]
    BY <1>2 DEF Shape, Typed
  <2>2. /\ pc' = [q \in PE |-> IF q = p THEN "supdate" ELSE pc[q]]
        /\ where' = [q \in PE |-> IF q = p THEN new ELSE where[q]]
        /\ supdate' = [q \in PE |-> IF q = p THEN {} ELSE supdate[q]]
    BY <1>1, <2>1
  <2> QED BY <2>2
<1>10. \A v \in Vertex : cur(v)' = cur(v)
  <2> SUFFICES ASSUME NEW v \in Vertex PROVE where'[Owner[v]][v] = where[Owner[v]][v]
    BY DEF cur
  <2>1. Owner[v] \in PE /\ v \in Own(Owner[v])
    BY OwnerIn
  <2> QED BY <1>5, <1>9, <2>1
<1>11. /\ WhereOut(p)' /\ AskedOut(p)' /\ ~WhereDue(p)' /\ AskedDue(p)'
       /\ WhereOut(p) /\ ~AskedOut(p) /\ WhereDue(p) /\ AskedDue(p)
  BY <1>1, <1>9 DEF WhereOut, AskedOut, WhereDue, AskedDue
<1>12. \A q \in PE : q # p =>
         /\ WhereOut(q)' <=> WhereOut(q)
         /\ AskedOut(q)' <=> AskedOut(q)
         /\ WhereDue(q)' <=> WhereDue(q)
         /\ AskedDue(q)' <=> AskedDue(q)
  <2>1. \A q \in PE : q # p => pc'[q] = pc[q]
    BY <1>9
  <2> QED BY <2>1 DEF WhereOut, AskedOut, WhereDue, AskedDue
\* What p takes and what it sends.
<1>13. \A q \in Nbrs(p) : chan'[q][p] = Tail(chan[q][p])
  BY <1>4, <1>7, <1>8
<1>14. \A r \in Nbrs(p) : chan'[p][r] = Append(chan[p][r], supdate[p] \cap Own(r))
  BY <1>4, <1>6, <1>7, <1>8
<1>15. \A q, r \in PE : q # p /\ r # p => chan'[q][r] = chan[q][r]
  BY <1>7, <1>8
<1>16. Shape'
  <2>1. /\ tmp_where' = [q \in PE |-> tmp_where'[q]] /\ ckrinfo' = [v \in Vertex |-> ckrinfo'[v]]
        /\ todo' = [q \in PE |-> todo'[q]] /\ moved' = [q \in PE |-> moved'[q]]
        /\ oldEDs' \in [Vertex -> Int] /\ lmincut' \in [PE -> Int]
        /\ update' \in [PE -> SUBSET Vertex]
        /\ \A q \in PE : /\ tmp_where'[q] \in [Own(q) -> Parts] /\ update'[q] \subseteq Own(q)
                         /\ dirty'[q] \subseteq Own(q)
    BY <1>1, <1>2, Zenon DEF Shape
  <2>2. new \in [Own(p) \union Ghosts(p) -> Parts]
    <3>1. \A v \in Own(p) : new[v] \in Parts
      BY <1>3, <1>5
    <3>2. ASSUME NEW v \in Ghosts(p) PROVE new[v] \in Parts
      <4>1. Owner[v] \in PE /\ v \in Own(Owner[v])
        BY <1>3, OwnerIn
      <4>2. where[Owner[v]][v] \in Parts
        BY <1>2, <4>1 DEF Shape
      <4> QED BY <1>5, <4>2 DEF cur
    <3> QED BY <1>5, <3>1, <3>2
  <2>3. \A q \in PE : where'[q] \in [Own(q) \union Ghosts(q) -> Parts] /\ supdate'[q] \subseteq Ghosts(q)
    BY <1>2, <1>9, <2>2 DEF Shape
  <2>4. supdate' \in [PE -> SUBSET Vertex]
    <3>1. \A q \in PE : supdate'[q] \in SUBSET Vertex
      BY <2>3, GhostsAre
    <3> QED BY <1>9, <3>1
  <2> QED BY <1>8, <1>9, <2>1, <2>3, <2>4, Zenon DEF Shape
<1>17. Boxes'
  <2> SUFFICES ASSUME NEW r \in PE, NEW q \in Nbrs(r) PROVE Box(q, r)'
    BY DEF Boxes
  <2>1. q \in PE /\ q # r /\ Box(q, r) /\ r \in Nbrs(q)
    BY NbrsIn, NbrsAre, SendIs, NbrsBothWays DEF InfoInv, Boxes
  <2>2. CASE r = p
    <3>1. (AskedOut(q)' <=> AskedOut(q)) /\ chan'[q][p] = Tail(chan[q][p])
      BY <1>12, <1>13, <2>1, <2>2
    <3>2. CASE AskedOut(q)
      BY <1>4, <1>11, <2>2, <3>1, <3>2 DEF Box
    <3>3. CASE ~AskedOut(q)
      BY <1>4, <1>11, <2>2, <3>1, <3>3 DEF Box
    <3> QED BY <3>2, <3>3
  <2>3. CASE q = p
    <3>1. r \in Nbrs(p) /\ r # p /\ pc[r] \in {"where", "supdate"} /\ pc'[r] = pc[r]
      BY <1>4, <1>9, <2>1, <2>3
    <3>2. PICK a : a = supdate[p] \cap Own(r)
      OBVIOUS
    <3>3. chan'[p][r] = Append(chan[p][r], a) /\ a \subseteq Own(r)
      BY <1>14, <3>1, <3>2
    <3>4. CASE pc[r] = "where"
      <4>1. WhereDue(r) /\ WhereDue(r)'
        BY <3>1, <3>4 DEF WhereDue
      <4>2. PICK m : chan[p][r] = <<m>> /\ GoodWhere(p, r, m) /\ GoodAsks(p, r, supdate[p])
        BY <1>11, <2>1, <2>3, <4>1 DEF Box
      <4>3. chan'[p][r] = <<m, a>>
        BY <3>3, <4>2, Queues
      <4>4. where'[r] = where[r]
        BY <1>9, <3>1
      <4>5. GoodWhere(p, r, m)'
        <5>1. \A v \in Send(p, r) : cur(v)' = cur(v)
          BY <1>10, SendIs, OwnIs
        <5> QED BY <4>2, <4>4, <5>1 DEF GoodWhere
      <4>6. GoodAsks(p, r, a)'
        <5>1. \A u \in Own(p) : cur(u)' = cur(u)
          BY <1>10, OwnIs
        <5> QED BY <3>2, <4>2, <4>4, <5>1 DEF GoodAsks
      <4> QED BY <1>11, <2>3, <3>3, <4>1, <4>3, <4>5, <4>6 DEF Box
    <3>5. CASE pc[r] = "supdate"
      <4>1. ~WhereDue(r) /\ ~WhereDue(r)' /\ AskedDue(r)'
        BY <3>1, <3>5 DEF WhereDue, AskedDue
      <4>2. chan[p][r] = <<>>
        BY <1>11, <2>1, <2>3, <4>1 DEF Box
      <4>3. chan'[p][r] = <<a>>
        BY <3>3, <4>2, Queues
      <4> QED BY <1>11, <2>3, <3>3, <4>1, <4>3 DEF Box
    <3> QED BY <3>1, <3>4, <3>5
  <2>4. CASE q # p /\ r # p
    <3>1. chan'[q][r] = chan[q][r] /\ supdate'[q] = supdate[q] /\ pc'[q] = pc[q]
      BY <1>9, <1>15, <2>1, <2>4
    <3>2. (WhereDue(r)' <=> WhereDue(r)) /\ (AskedDue(r)' <=> AskedDue(r))
      BY <1>12, <2>4
    <3>3. \A v \in Own(q) : cur(v)' = cur(v)
      BY <1>10, <2>1, OwnIs
    <3>4. \A v \in Send(q, r) : where'[r][v] = where[r][v]
      BY <1>9, <2>4
    <3> QED BY <2>1, <3>1, <3>2, <3>3, <3>4, SameBox
  <2> QED BY <2>2, <2>3, <2>4
<1>18. NotAhead'
  <2> SUFFICES ASSUME NEW r \in PE, NEW q \in Nbrs(r)
               PROVE  /\ pc'[r] = "supdate" => WhereOut(q)'
                      /\ pc'[r] = "sum" => AskedOut(q)'
    BY DEF NotAhead
  <2>1. q \in PE
    BY NbrsIn
  <2>2. CASE q = p
    BY <1>11, <2>2
  <2>3. CASE q # p /\ r = p
    BY <1>4, <1>9, <1>12, <2>1, <2>3
  <2>4. CASE q # p /\ r # p
    BY <1>9, <1>12, <2>1, <2>4 DEF InfoInv, NotAhead
  <2> QED BY <2>2, <2>3, <2>4
<1>19. Copies'
  <2> SUFFICES ASSUME NEW r \in PE, NEW v \in Ghosts(r), ~(WhereDue(r)' /\ WhereOut(Owner[v])')
               PROVE  where'[r][v] = cur(v)'
    BY DEF Copies
  <2>1. v \in Vertex /\ Owner[v] \in PE /\ Owner[v] # r
    BY OthersIn
  <2>2. cur(v)' = cur(v)
    BY <1>10, <2>1
  <2>3. CASE r = p
    BY <1>5, <1>9, <2>2, <2>3
  <2>4. CASE r # p
    <3>1. ~(WhereDue(r) /\ WhereOut(Owner[v]))
      BY <1>11, <1>12, <2>1, <2>4
    <3> QED BY <1>9, <2>2, <2>4, <3>1 DEF InfoInv, Copies
  <2> QED BY <2>3, <2>4
<1>20. InfoTyped' /\ PartsOwn'
  BY <1>1 DEF InfoInv, InfoTyped, PartsOwn
<1>21. Known'
  <2>1. ASSUME NEW v \in Own(p)
        PROVE  v \in update'[p] \/ Asked(p, v)' \/ (Exact(v, where[p])' /\ Counted(v, where[p])')
    <3> SUFFICES ASSUME v \notin update[p], ~Asked(p, v)'
                 PROVE  Exact(v, where[p])' /\ Counted(v, where[p])'
      BY <1>1
    <3>1. Exact(v, where[p]) /\ Counted(v, where[p])
      BY <1>1 DEF InfoInv, Known
    <3>2. v \in Vertex
      BY OwnIs
    <3>3. ASSUME NEW u \in Adj[v] PROVE new[u] = where[p][u]
      <4>1. u \in Own(p) \union Ghosts(p)
        BY NeighboursKnown
      <4>2. CASE u \in Own(p)
        BY <1>5, <4>2
      <4>3. CASE u \in Ghosts(p)
        <5> SUFFICES ASSUME where[p][u] # cur(u) PROVE FALSE
          BY <1>5, <4>3
        <5>1. PICK q : q = Owner[u] /\ q \in Nbrs(p) /\ q \in PE /\ q # p /\ u \in Own(q)
          BY <4>3, GhostsAre, OwnIs, OthersIn
        <5>2. CASE AskedOut(q)
          <6>1. PICK a : Tail(chan[q][p]) = <<a>> /\ GoodAsks(q, p, a)
            BY <1>4, <5>1, <5>2
          <6>2. v \in a
            BY <5>1, <6>1 DEF GoodAsks
          <6>3. AskedOut(q)' /\ Head(chan'[q][p]) = a
            BY <1>12, <1>13, <5>1, <5>2, <6>1, Queues
          <6> QED BY <5>1, <6>2, <6>3 DEF Asked
        <5>3. CASE ~AskedOut(q)
          <6>1. v \in supdate[q]
            BY <1>4, <5>1, <5>3 DEF GoodAsks
          <6>2. pc'[q] = "where" /\ supdate'[q] = supdate[q]
            BY <1>4, <1>9, <5>1, <5>3 DEF AskedOut
          <6> QED BY <5>1, <6>1, <6>2 DEF Asked
        <5> QED BY <5>2, <5>3
      <4> QED BY <4>1, <4>2, <4>3
    <3>4. Degrees(v, new) = Degrees(v, where[p])
      BY <1>5, <3>2, <3>3, DegreesSame
    <3> QED BY <1>1, <1>9, <3>1, <3>4 DEF Exact, Counted
  <2>2. ASSUME NEW q \in PE, q # p, NEW v \in Own(q)
        PROVE  /\ Exact(v, Tentative(q))' <=> Exact(v, Tentative(q))
               /\ Exact(v, where[q])' <=> Exact(v, where[q])
               /\ Counted(v, where[q])' <=> Counted(v, where[q])
               /\ pc[q] = "supdate" /\ Asked(q, v) => Asked(q, v)'
    <3>1. where'[q] = where[q] /\ oldEDs' = oldEDs /\ ckrinfo' = ckrinfo
      BY <1>1, <1>9, <2>2
    <3>2. Tentative(q)' = Tentative(q)
      BY <1>1, <3>1 DEF Tentative
    <3>3. ASSUME pc[q] = "supdate", Asked(q, v) PROVE Asked(q, v)'
      <4>0. PICK r \in Nbrs(q) : \/ pc[r] = "where" /\ v \in supdate[r]
                                 \/ AskedOut(r) /\ v \in Head(chan[r][q])
        BY <3>3 DEF Asked
      <4>1. r \in PE
        BY NbrsIn
      <4>2. CASE r # p
        <5>1. pc'[r] = pc[r] /\ supdate'[r] = supdate[r] /\ chan'[r][q] = chan[r][q]
              /\ (AskedOut(r)' <=> AskedOut(r))
          BY <1>9, <1>12, <1>15, <2>2, <4>1, <4>2
        <5> QED BY <4>0, <5>1 DEF Asked
      <4>3. CASE r = p
        <5>1. v \in supdate[p] \cap Own(q) /\ q \in Nbrs(p)
          BY <1>11, <4>0, <4>3, NbrsBothWays
        <5>2. chan[p][q] = <<>>
          <6>1. Box(p, q) /\ ~WhereDue(q)
            BY <3>3, <4>0, <4>3 DEF InfoInv, Boxes, WhereDue
          <6> QED BY <1>11, <6>1 DEF Box
        <5>3. chan'[p][q] = <<supdate[p] \cap Own(q)>>
          BY <1>14, <5>1, <5>2, Queues
        <5>4. v \in Head(chan'[p][q])
          BY <5>1, <5>3, Queues
        <5> QED BY <1>11, <4>0, <4>3, <5>4 DEF Asked
      <4> QED BY <4>2, <4>3
    <3> QED BY <3>1, <3>2, <3>3 DEF Exact, Counted
  <2> SUFFICES ASSUME NEW q \in PE, NEW v \in Own(q)
               PROVE  /\ pc'[q] \in {"one", "commit"} => Exact(v, Tentative(q))' /\ Counted(v, where[q])'
                      /\ pc'[q] = "where" => Exact(v, where[q])' /\ (v \in update'[q] \/ Counted(v, where[q])')
                      /\ pc'[q] = "supdate" => \/ v \in update'[q] \/ Asked(q, v)'
                                               \/ Exact(v, where[q])' /\ Counted(v, where[q])'
                      /\ pc'[q] \in {"sum", "start", "done"} => Exact(v, where[q])' /\ Counted(v, where[q])'
    BY DEF Known
  <2>3. CASE q = p
    BY <1>9, <2>1, <2>3
  <2>4. CASE q # p
    BY <1>1, <1>9, <2>2, <2>4 DEF InfoInv, Known
  <2> QED BY <2>3, <2>4
<1>22. Moves'
  <2>1. \A q \in PE : \A v \in Own(q) : where'[q][v] = where[q][v]
    BY <1>5, <1>9
  <2> QED BY <1>1, <1>9, <2>1 DEF InfoInv, Moves
<1>23. PartsKnown' /\ Cuts' /\ Passes'
  BY <1>1, <1>9, RestStays DEF InfoInv
<1> QED BY <1>16, <1>17, <1>18, <1>19, <1>20, <1>21, <1>22, <1>23 DEF InfoInv

-----------------------------------------------------------------------------
(* The degrees are recomputed.                                             *)

\* A sum is corrected by the differences of what has changed.
LEMMA SumCorrected ==
  ASSUME NEW S, IsFiniteSet(S), NEW T \in SUBSET S, NEW f, NEW g, NEW d,
         \A x \in S : f[x] \in Int /\ g[x] \in Int,
         \A x \in T : d[x] = g[x] - f[x],
         \A x \in S : x \notin T => g[x] = f[x]
  PROVE  SumFunctionOnSet(g, S) = SumFunctionOnSet(f, S) + SumFunctionOnSet(d, T)
<1> DEFINE R == S \ T
<1>1. IsFiniteSet(T) /\ IsFiniteSet(R) /\ T \union R = S /\ T \intersect R = {}
  BY FS_Subset
<1>2. /\ \A x \in T : f[x] \in Int /\ g[x] \in Int /\ d[x] \in Int /\ g[x] = f[x] + d[x]
      /\ \A x \in R : f[x] \in Int /\ g[x] \in Int /\ g[x] = f[x]
  OBVIOUS
<1>3. /\ \A x \in T \union R : f[x] \in Int
      /\ \A x \in T \union R : g[x] \in Int
  BY <1>1
<1> HIDE DEF R
<1>4. SumFunctionOnSet(f, T \union R) = SumFunctionOnSet(f, T) + SumFunctionOnSet(f, R)
  BY <1>1, <1>3, SumUnion
<1>5. SumFunctionOnSet(g, T \union R) = SumFunctionOnSet(g, T) + SumFunctionOnSet(g, R)
  BY <1>1, <1>3, SumUnion
<1>6. SumFunctionOnSet(g, T) = SumFunctionOnSet(f, T) + SumFunctionOnSet(d, T)
  BY <1>1, <1>2, SumPlus
<1>7. SumFunctionOnSet(g, R) = SumFunctionOnSet(f, R)
  BY <1>1, <1>2, SumSame
<1>8. /\ SumFunctionOnSet(f, T) \in Int /\ SumFunctionOnSet(f, R) \in Int
      /\ SumFunctionOnSet(d, T) \in Int
  <2>1. SumFunctionOnSet(f, T) \in Int
    BY <1>1, <1>2, SumType
  <2>2. SumFunctionOnSet(f, R) \in Int
    BY <1>1, <1>2, SumType
  <2>3. SumFunctionOnSet(d, T) \in Int
    BY <1>1, <1>2, SumType
  <2> QED BY <2>1, <2>2, <2>3
<1>9. /\ SumFunctionOnSet(f, S) = SumFunctionOnSet(f, T \union R)
      /\ SumFunctionOnSet(g, S) = SumFunctionOnSet(g, T \union R)
  BY <1>1
<1> QED BY <1>4, <1>5, <1>6, <1>7, <1>8, <1>9

LEMMA AsksArrived ==
  ASSUME IInv, InfoInv, NEW p \in PE, pc[p] = "supdate", ArrivedFrom(chan, p, Nbrs(p)), NEW q \in Nbrs(p)
  PROVE  /\ q \in PE /\ q # p /\ AskedOut(q)
         /\ Head(chan[q][p]) \subseteq Own(p) /\ Tail(chan[q][p]) = <<>>
<1>1. q \in PE /\ q # p
  BY NbrsIn, NbrsAre, SendIs
<1>2. Box(q, p) /\ chan[q][p] # <<>>
  BY DEF InfoInv, Boxes, ArrivedFrom
<1>3. ~WhereDue(p) /\ AskedDue(p)
  BY DEF WhereDue, AskedDue
<1>4. AskedOut(q)
  BY <1>2, <1>3 DEF Box
<1>5. PICK a : chan[q][p] = <<a>> /\ a \subseteq Own(p)
  BY <1>2, <1>3, <1>4 DEF Box
<1>6. Head(chan[q][p]) = a /\ Tail(chan[q][p]) = <<>>
  BY <1>5, Queues
<1> QED BY <1>1, <1>4, <1>5, <1>6

LEMMA UpdateInfo ==
  ASSUME IInv, IInv', InfoInv, NEW p \in PE, Update(p)
  PROVE  InfoInv'
<1> DEFINE todate == update[p] \union UNION {Head(chan[q][p]) : q \in Nbrs(p)}
           diff == [v \in todate |-> Degrees(v, where[p]).ed - oldEDs[v]]
<1>1. /\ pc[p] = "supdate" /\ ArrivedFrom(chan, p, Nbrs(p))
      /\ ckrinfo' = [v \in Vertex |-> IF v \in todate THEN Degrees(v, where[p]) ELSE ckrinfo[v]]
      /\ oldEDs' = [v \in Vertex |-> IF v \in todate THEN Degrees(v, where[p]).ed ELSE oldEDs[v]]
      /\ lmincut' = [lmincut EXCEPT ![p] = @ + SumFunction(diff)]
      /\ chan' = Take(chan, p, Nbrs(p))
      /\ update' = [update EXCEPT ![p] = {}]
      /\ pc' = [pc EXCEPT ![p] = "sum"]
      /\ UNCHANGED <<program, pass, c, where, tmp_where, todo, dirty, moved, lnpwgts, gnpwgts,
                     ognpwgts, supdate, mincut>>
  BY Zenon DEF Update
<1>2. Shape /\ Typed
  BY DEF InfoInv, IInv
<1>3. \A q \in Nbrs(p) : /\ q \in PE /\ q # p /\ AskedOut(q)
                         /\ Head(chan[q][p]) \subseteq Own(p) /\ Tail(chan[q][p]) = <<>>
  BY <1>1, AsksArrived
<1>4. /\ todate \subseteq Own(p)
      /\ \A v : v \in update[p] => v \in todate
      /\ \A v : \A q \in Nbrs(p) : v \in Head(chan[q][p]) => v \in todate
  <2>1. update[p] \subseteq Own(p)
    BY <1>2 DEF Shape
  <2> QED BY <1>3, <2>1
<1>5. DOMAIN diff = todate /\ \A v \in todate : diff[v] = Degrees(v, where[p]).ed - oldEDs[v]
  OBVIOUS
<1> HIDE DEF todate, diff
<1>6. ASSUME NEW v \in Own(p)
      PROVE  /\ v \in Vertex
             /\ Degrees(v, where[p]).id \in Nat /\ Degrees(v, where[p]).ed \in Nat
             /\ DOMAIN Degrees(v, where[p]).nbr \subseteq Parts
  <2>1. where[p] \in [Own(p) \union Ghosts(p) -> Parts] /\ v \in Vertex
    BY <1>2, OwnIs DEF Shape
  <2>2. where[p][v] \in Parts /\ \A u \in Adj[v] : where[p][u] \in Parts
    BY <2>1, NeighboursKnown
  <2> QED BY <2>1, <2>2, DegreesTyped
<1>7. \A v \in Own(p) :
        /\ v \in todate => ckrinfo'[v] = Degrees(v, where[p]) /\ oldEDs'[v] = Degrees(v, where[p]).ed
        /\ v \notin todate => ckrinfo'[v] = ckrinfo[v] /\ oldEDs'[v] = oldEDs[v]
  BY <1>1, <1>6
<1>8. \A v \in Vertex : v \notin Own(p) => ckrinfo'[v] = ckrinfo[v] /\ oldEDs'[v] = oldEDs[v]
  BY <1>1, <1>4
<1>9. /\ pc'[p] = "sum" /\ update'[p] = {} /\ lmincut'[p] = lmincut[p] + SumFunction(diff)
      /\ update' = [q \in PE |-> update'[q]] /\ lmincut' = [q \in PE |-> lmincut'[q]]
      /\ \A q \in PE : q # p => pc'[q] = pc[q] /\ update'[q] = update[q] /\ lmincut'[q] = lmincut[q]
  <2>1. /\ pc = [q \in PE |-> pc[q]] /\ update = [q \in PE |-> update[q]]
        /\ lmincut = [q \in PE |-> lmincut[q]]
    BY <1>2 DEF Shape, Typed
  <2>2. /\ pc' = [q \in PE |-> IF q = p THEN "sum" ELSE pc[q]]
        /\ update' = [q \in PE |-> IF q = p THEN {} ELSE update[q]]
        /\ lmincut' = [q \in PE |-> IF q = p THEN lmincut[p] + SumFunction(diff) ELSE lmincut[q]]
    BY <1>1, <2>1
  <2> QED BY <2>2
<1>10. /\ chan' = [q \in PE |-> [r \in PE |-> chan'[q][r]]]
       /\ \A q, r \in PE : chan'[q][r] = IF q \in Nbrs(p) /\ r = p THEN Tail(chan[q][r]) ELSE chan[q][r]
  <2>1. chan = [q \in PE |-> [r \in PE |-> chan[q][r]]]
    BY <1>2 DEF Shape
  <2>2. chan' = Take(chan, p, Nbrs(p))
    BY <1>1
  <2> QED BY <2>1, <2>2, Taken
\* p's part of the cut.
<1>11. lmincut'[p] = SumFunction([v \in Own(p) |-> oldEDs'[v]]) /\ lmincut'[p] \in Int
  <2> DEFINE S == Own(p)
             f == [v \in S |-> oldEDs[v]]
             g == [v \in S |-> oldEDs'[v]]
  <2>1. IsFiniteSet(S) /\ todate \in SUBSET S
    <3>1. S \subseteq Vertex
      BY OwnIs
    <3> QED BY <1>4, <3>1, FiniteAssumption, FS_Subset
  <2>2. \A v \in S : f[v] = oldEDs[v] /\ g[v] = oldEDs'[v] /\ f[v] \in Int /\ g[v] \in Int
    <3>1. ASSUME NEW v \in S PROVE oldEDs[v] \in Int /\ oldEDs'[v] \in Int
      <4>1. oldEDs[v] \in Int
        BY <1>2, <1>6 DEF Shape
      <4> QED BY <1>6, <1>7, <4>1
    <3> QED BY <3>1
  <2>3. SumFunction(g) = SumFunctionOnSet(g, S) /\ SumFunction(f) = SumFunctionOnSet(f, S)
        /\ SumFunction(diff) = SumFunctionOnSet(diff, todate)
    BY <1>5 DEF SumFunction
  <2>4. lmincut[p] = SumFunction(f)
    BY DEF InfoInv, Cuts
  <2> HIDE DEF S, f, g
  <2>5. \A v \in todate : diff[v] = g[v] - f[v]
    BY <1>4, <1>5, <1>7, <2>2 DEF S
  <2>6. \A v \in S : v \notin todate => g[v] = f[v]
    BY <1>7, <2>2 DEF S
  <2>7. \A v \in S : f[v] \in Int /\ g[v] \in Int
    BY <2>2
  <2>8. SumFunctionOnSet(g, S) = SumFunctionOnSet(f, S) + SumFunctionOnSet(diff, todate)
    BY <2>1, <2>5, <2>6, <2>7, SumCorrected
  <2>9. SumFunctionOnSet(g, S) \in Int
    BY <2>1, <2>7, SumType
  <2>10. lmincut'[p] = SumFunction(g) /\ lmincut'[p] \in Int
    BY <1>9, <2>3, <2>4, <2>8, <2>9
  <2> QED BY <2>10 DEF g, S
<1>12. \A q \in PE : q # p => \A v \in Own(q) : ckrinfo'[v] = ckrinfo[v] /\ oldEDs'[v] = oldEDs[v]
  BY <1>8, OwnIs
<1>13. Shape'
  <2>1. /\ where' = [q \in PE |-> where'[q]] /\ tmp_where' = [q \in PE |-> tmp_where'[q]]
        /\ todo' = [q \in PE |-> todo'[q]] /\ moved' = [q \in PE |-> moved'[q]]
        /\ supdate' \in [PE -> SUBSET Vertex]
        /\ \A q \in PE : /\ where'[q] \in [Own(q) \union Ghosts(q) -> Parts]
                         /\ tmp_where'[q] \in [Own(q) -> Parts] /\ supdate'[q] \subseteq Ghosts(q)
                         /\ dirty'[q] \subseteq Own(q)
    BY <1>1, <1>2, Zenon DEF Shape
  <2>2. ckrinfo' = [v \in Vertex |-> ckrinfo'[v]]
    BY <1>1
  <2>3. oldEDs' \in [Vertex -> Int]
    <3>1. \A v \in Vertex : oldEDs'[v] \in Int
      <4>1. \A v \in Vertex : oldEDs[v] \in Int
        BY <1>2 DEF Shape
      <4> QED BY <1>6, <1>7, <1>8, <4>1
    <3> QED BY <1>1, <3>1
  <2>4. lmincut' \in [PE -> Int]
    <3>1. \A q \in PE : lmincut[q] \in Int
      BY <1>2 DEF Shape
    <3>2. \A q \in PE : lmincut'[q] \in Int
      BY <1>9, <1>11, <3>1
    <3> QED BY <1>9, <3>2
  <2>5. update' \in [PE -> SUBSET Vertex] /\ \A q \in PE : update'[q] \subseteq Own(q)
    <3>1. update \in [PE -> SUBSET Vertex] /\ \A q \in PE : update[q] \subseteq Own(q)
      BY <1>2 DEF Shape
    <3>2. \A q \in PE : update'[q] \subseteq Own(q) /\ update'[q] \in SUBSET Vertex
      BY <1>9, <3>1
    <3> QED BY <1>9, <3>2
  <2> QED BY <1>10, <2>1, <2>2, <2>3, <2>4, <2>5, Zenon DEF Shape
<1>14. \A q \in PE : /\ WhereOut(q)' <=> WhereOut(q)
                     /\ AskedOut(q)' <=> AskedOut(q)
                     /\ WhereDue(q)' <=> WhereDue(q)
                     /\ q # p => (AskedDue(q)' <=> AskedDue(q))
  <2>1. \A q \in PE : pc'[q] = IF q = p THEN "sum" ELSE pc[q]
    BY <1>9
  <2> QED BY <1>1, <2>1 DEF WhereOut, AskedOut, WhereDue, AskedDue
<1>15. /\ \A v : cur(v)' = cur(v)
       /\ \A q, r, m : GoodWhere(q, r, m)' <=> GoodWhere(q, r, m)
       /\ \A q, r, a : GoodAsks(q, r, a)' <=> GoodAsks(q, r, a)
  BY <1>1 DEF cur, GoodWhere, GoodAsks
<1>16. Boxes'
  <2> SUFFICES ASSUME NEW r \in PE, NEW q \in Nbrs(r) PROVE Box(q, r)'
    BY DEF Boxes
  <2>1. q \in PE /\ Box(q, r)
    BY NbrsIn DEF InfoInv, Boxes
  <2>2. CASE r = p
    <3>1. chan'[q][p] = <<>>
      BY <1>3, <1>10, <2>2
    <3>2. ~WhereDue(p)' /\ ~AskedDue(p)'
      BY <1>9 DEF WhereDue, AskedDue
    <3> QED BY <2>2, <3>1, <3>2 DEF Box
  <2>3. CASE r # p
    <3>1. chan'[q][r] = chan[q][r] /\ supdate'[q] = supdate[q]
      BY <1>1, <1>10, <2>1, <2>3
    <3> QED BY <1>14, <1>15, <2>1, <2>3, <3>1 DEF Box
  <2> QED BY <2>2, <2>3
<1>17. NotAhead'
  <2> SUFFICES ASSUME NEW r \in PE, NEW q \in Nbrs(r)
               PROVE  /\ pc'[r] = "supdate" => WhereOut(q)'
                      /\ pc'[r] = "sum" => AskedOut(q)'
    BY DEF NotAhead
  <2>1. q \in PE
    BY NbrsIn
  <2>2. CASE r = p
    BY <1>3, <1>9, <1>14, <2>1, <2>2
  <2>3. CASE r # p
    BY <1>9, <1>14, <2>1, <2>3 DEF InfoInv, NotAhead
  <2> QED BY <2>2, <2>3
<1>18. Copies'
  BY <1>1, <1>14, <1>15, OthersIn DEF InfoInv, Copies
<1>19. InfoTyped'
  BY <1>6, <1>7, <1>8 DEF InfoInv, InfoTyped
<1>20. Known'
  <2>1. ASSUME NEW v \in Own(p)
        PROVE  Exact(v, where[p])' /\ Counted(v, where[p])'
    <3>1. CASE v \in todate
      BY <1>1, <1>7, <3>1 DEF Exact, Counted
    <3>2. CASE v \notin todate
      <4>1. v \notin update[p] /\ ~Asked(p, v)
        BY <1>3, <1>4, <3>2 DEF Asked, AskedOut
      <4>2. Exact(v, where[p]) /\ Counted(v, where[p])
        BY <1>1, <4>1 DEF InfoInv, Known
      <4> QED BY <1>1, <1>7, <3>2, <4>2 DEF Exact, Counted
    <3> QED BY <3>1, <3>2
  <2>2. ASSUME NEW q \in PE, q # p, NEW v \in Own(q)
        PROVE  /\ Exact(v, Tentative(q))' <=> Exact(v, Tentative(q))
               /\ Exact(v, where[q])' <=> Exact(v, where[q])
               /\ Counted(v, where[q])' <=> Counted(v, where[q])
               /\ Asked(q, v) => Asked(q, v)'
    <3>1. /\ where' = where /\ tmp_where' = tmp_where
          /\ ckrinfo'[v] = ckrinfo[v] /\ oldEDs'[v] = oldEDs[v]
      BY <1>1, <1>12, <2>2
    <3>2. Tentative(q)' = Tentative(q)
      BY <3>1 DEF Tentative
    <3>3. ASSUME Asked(q, v) PROVE Asked(q, v)'
      <4>0. PICK r \in Nbrs(q) : \/ pc[r] = "where" /\ v \in supdate[r]
                                 \/ AskedOut(r) /\ v \in Head(chan[r][q])
        BY <3>3 DEF Asked
      <4>1. r \in PE
        BY NbrsIn
      <4>2. chan'[r][q] = chan[r][q] /\ supdate'[r] = supdate[r] /\ (AskedOut(r)' <=> AskedOut(r))
            /\ (pc[r] = "where" => pc'[r] = "where")
        BY <1>1, <1>9, <1>10, <1>14, <2>2, <4>1
      <4> QED BY <4>0, <4>2 DEF Asked
    <3> QED BY <3>1, <3>2, <3>3 DEF Exact, Counted
  <2> SUFFICES ASSUME NEW q \in PE, NEW v \in Own(q)
               PROVE  /\ pc'[q] \in {"one", "commit"} => Exact(v, Tentative(q))' /\ Counted(v, where[q])'
                      /\ pc'[q] = "where" => Exact(v, where[q])' /\ (v \in update'[q] \/ Counted(v, where[q])')
                      /\ pc'[q] = "supdate" => \/ v \in update'[q] \/ Asked(q, v)'
                                               \/ Exact(v, where[q])' /\ Counted(v, where[q])'
                      /\ pc'[q] \in {"sum", "start", "done"} => Exact(v, where[q])' /\ Counted(v, where[q])'
    BY DEF Known
  <2>3. CASE q = p
    BY <1>9, <2>1, <2>3
  <2>4. CASE q # p
    BY <1>9, <2>2, <2>4 DEF InfoInv, Known
  <2> QED BY <2>3, <2>4
<1>21. Moves' /\ PartsOwn'
  BY <1>1, <1>9 DEF InfoInv, Moves, PartsOwn
<1>22. PartsKnown' /\ Passes'
  BY <1>1, <1>9, RestStays DEF InfoInv
<1>23. Cuts'
  <2>1. ~(\A q \in PE : pc'[q] \in {"start", "done"})
    BY <1>9
  <2>2. ASSUME NEW q \in PE PROVE lmincut'[q] = SumFunction([v \in Own(q) |-> oldEDs'[v]])
    <3>1. CASE q = p
      BY <1>11, <3>1
    <3>2. CASE q # p
      <4>1. [v \in Own(q) |-> oldEDs'[v]] = [v \in Own(q) |-> oldEDs[v]]
        BY <1>12, <3>2
      <4>2. lmincut'[q] = lmincut[q] /\ lmincut[q] = SumFunction([v \in Own(q) |-> oldEDs[v]])
        BY <1>9, <3>2 DEF InfoInv, Cuts
      <4> QED BY <4>1, <4>2
    <3> QED BY <3>1, <3>2
  <2> QED BY <2>1, <2>2 DEF Cuts
<1> QED BY <1>13, <1>16, <1>17, <1>18, <1>19, <1>20, <1>21, <1>22, <1>23 DEF InfoInv

-----------------------------------------------------------------------------
(* The invariant.                                                          *)

LEMMA BeginsInfo ==
  ASSUME Init
  PROVE  InfoInv
<1>1. PICK start \in Starts :
        /\ program = start.program /\ pc = [p \in PE |-> "start"] /\ pass = 0 /\ c = 0
        /\ where = [p \in PE |-> [v \in Own(p) \cup Ghosts(p) |-> start.where[v]]]
        /\ tmp_where = [p \in PE |-> [v \in Own(p) |-> start.where[v]]]
        /\ ckrinfo = [v \in Vertex |-> Degrees(v, start.where)]
        /\ oldEDs = [v \in Vertex |-> Degrees(v, start.where).ed]
        /\ lnpwgts = [p \in PE |-> [a \in Parts |-> PartWeight(Own(p), start.where, a)]]
        /\ gnpwgts = [p \in PE |-> [a \in Parts |-> PartWeight(Vertex, start.where, a)]]
        /\ lmincut = [p \in PE |-> SumFunction([v \in Own(p) |-> Degrees(v, start.where).ed])]
        /\ mincut = SumFunction(lmincut) \div 2
        /\ todo = [p \in PE |-> {}] /\ moved = [p \in PE |-> <<>>]
        /\ dirty = [p \in PE |-> {}]
        /\ update = [p \in PE |-> {}] /\ supdate = [p \in PE |-> {}]
        /\ chan = NoMessages
  BY Zenon DEF Init
<1>2. PICK w \in [Vertex -> Parts] : w = start.where
  BY StartsAssumption
<1>3. program \in Programs
  BY <1>1, StartsAssumption
<1>4. /\ \A p \in PE : pc[p] = "start" /\ where[p] = [v \in Own(p) \union Ghosts(p) |-> w[v]]
                       /\ tmp_where[p] = [v \in Own(p) |-> w[v]]
                       /\ update[p] = {} /\ supdate[p] = {} /\ dirty[p] = {}
      /\ \A v \in Vertex : ckrinfo[v] = Degrees(v, w) /\ oldEDs[v] = Degrees(v, w).ed
  BY <1>1, <1>2
<1>5. \A p \in PE : \A v \in Own(p) : v \in Vertex /\ tmp_where[p][v] = w[v] /\ where[p][v] = w[v]
  <2> SUFFICES ASSUME NEW p \in PE, NEW v \in Own(p)
               PROVE  v \in Vertex /\ tmp_where[p][v] = w[v] /\ where[p][v] = w[v]
    OBVIOUS
  <2>1. where[p] = [u \in Own(p) \union Ghosts(p) |-> w[u]] /\ tmp_where[p] = [u \in Own(p) |-> w[u]]
    BY <1>4
  <2>2. where[p][v] = w[v] /\ tmp_where[p][v] = w[v]
    BY <2>1
  <2> QED BY <2>2, OwnIs
<1>6. \A p \in PE : \A v \in Ghosts(p) : v \in Vertex /\ where[p][v] = w[v]
  <2> SUFFICES ASSUME NEW p \in PE, NEW v \in Ghosts(p)
               PROVE  v \in Vertex /\ where[p][v] = w[v]
    OBVIOUS
  <2>1. where[p] = [u \in Own(p) \union Ghosts(p) |-> w[u]]
    BY <1>4
  <2>2. where[p][v] = w[v]
    BY <2>1
  <2> QED BY <2>2, GhostsAre
<1>7. \A v \in Vertex : cur(v) = w[v]
  BY <1>5, OwnerIn DEF cur
<1>8. ASSUME NEW v \in Vertex
      PROVE  /\ Degrees(v, w).id \in Nat /\ Degrees(v, w).ed \in Nat
             /\ DOMAIN Degrees(v, w).nbr \subseteq Parts
  <2>1. w[v] \in Parts /\ \A u \in Adj[v] : w[u] \in Parts
    BY EdgesBothWays
  <2> QED BY <2>1, DegreesTyped
<1>9. ASSUME NEW p \in PE PROVE lmincut[p] = SumFunction([v \in Own(p) |-> oldEDs[v]]) /\ lmincut[p] \in Int
  <2> DEFINE f == [v \in Own(p) |-> oldEDs[v]]
             S == Own(p)
  <2>1. f = [v \in Own(p) |-> Degrees(v, w).ed]
    BY <1>4, <1>5
  <2>2. lmincut[p] = SumFunction(f)
    BY <1>1, <1>2, <2>1
  <2>3. IsFiniteSet(S) /\ \A v \in S : f[v] \in Int
    <3>1. S \subseteq Vertex
      BY OwnIs
    <3> QED BY <1>4, <1>8, <3>1, FiniteAssumption, FS_Subset
  <2>4. SumFunction(f) = SumFunctionOnSet(f, S)
    BY DEF SumFunction
  <2> HIDE DEF f, S
  <2>5. SumFunctionOnSet(f, S) \in Int
    BY <2>3, SumType
  <2>6. lmincut[p] = SumFunction(f) /\ lmincut[p] \in Int
    BY <2>2, <2>4, <2>5
  <2> QED BY <2>6 DEF f
<1>10. Shape
  <2>1. /\ where = [p \in PE |-> where[p]] /\ tmp_where = [p \in PE |-> tmp_where[p]]
        /\ todo = [p \in PE |-> todo[p]] /\ moved = [p \in PE |-> moved[p]]
        /\ ckrinfo = [v \in Vertex |-> ckrinfo[v]]
        /\ chan = [q \in PE |-> [p \in PE |-> chan[q][p]]]
    BY <1>1 DEF NoMessages
  <2>2. \A p \in PE : /\ where[p] \in [Own(p) \union Ghosts(p) -> Parts]
                      /\ tmp_where[p] \in [Own(p) -> Parts]
                      /\ update[p] \subseteq Own(p) /\ supdate[p] \subseteq Ghosts(p)
                      /\ dirty[p] \subseteq Own(p)
    BY <1>4, <1>5, <1>6
  <2>3. oldEDs \in [Vertex -> Int] /\ lmincut \in [PE -> Int]
        /\ update \in [PE -> SUBSET Vertex] /\ supdate \in [PE -> SUBSET Vertex]
    <3>1. oldEDs = [v \in Vertex |-> oldEDs[v]] /\ \A v \in Vertex : oldEDs[v] \in Int
      BY <1>1, <1>4, <1>8
    <3>2. lmincut = [p \in PE |-> lmincut[p]]
      BY <1>1
    <3> QED BY <1>1, <1>9, <3>1, <3>2
  <2> QED BY <2>1, <2>2, <2>3, Zenon DEF Shape
<1>11. Boxes /\ NotAhead /\ Copies
  <2>1. \A p, q \in PE : chan[q][p] = <<>> /\ ~WhereOut(p) /\ ~AskedOut(p)
    BY <1>1, <1>4 DEF NoMessages, WhereOut, AskedOut
  <2> QED BY <1>4, <1>6, <1>7, <2>1, NbrsIn DEF Boxes, Box, NotAhead, Copies
<1>12. InfoTyped
  BY <1>4, <1>8 DEF InfoTyped
<1>13. Known
  <2> SUFFICES ASSUME NEW p \in PE, NEW v \in Own(p) PROVE Exact(v, where[p]) /\ Counted(v, where[p])
    BY <1>4 DEF Known
  <2>1. \A u \in Own(p) \union Ghosts(p) : w[u] = where[p][u]
    BY <1>5, <1>6
  <2>2. Degrees(v, w) = Degrees(v, where[p])
    BY <2>1, DegreesSeen
  <2> QED BY <1>4, <1>5, <2>2 DEF Exact, Counted
<1>14. Moves
  BY <1>5 DEF Moves
<1>15. PartsOwn
  <2> SUFFICES ASSUME NEW p \in PE, NEW a \in Parts
               PROVE  lnpwgts[p][a] = PartWeight(Own(p), tmp_where[p], a)
    BY DEF PartsOwn
  <2>1. PartWeight(Own(p), tmp_where[p], a) = PartWeight(Own(p), w, a)
    BY <1>5, PartWeightSame
  <2> QED BY <1>1, <1>2, <2>1
<1>16. PartsKnown
  <2>1. ASSUME NEW p \in PE, NEW a \in Parts
        PROVE  gnpwgts[p][a] = PartWeight(Vertex, Current, a) /\ gnpwgts[p][a] \in Nat
    <3>1. \A v \in Vertex : Current[v] = w[v]
      BY <1>7 DEF Current, cur
    <3>2. PartWeight(Vertex, Current, a) = PartWeight(Vertex, w, a)
      BY <3>1, PartWeightSame
    <3>3. gnpwgts[p][a] = PartWeight(Vertex, w, a)
      BY <1>1, <1>2
    <3>4. PartWeight(Vertex, w, a) \in Nat
      BY PartIs
    <3> QED BY <3>2, <3>3, <3>4
  <2> QED BY <1>4, <2>1, PEsFinite DEF PartsKnown
<1>17. Cuts
  BY <1>1, <1>9 DEF Cuts
<1>18. Passes
  <2>1. ~(\A p \in PE : pc[p] = "done")
    BY <1>4, PEsFinite
  <2> QED BY <1>1, <1>3, <2>1, PassesAssumption DEF Passes
<1> QED BY <1>10, <1>11, <1>12, <1>13, <1>14, <1>15, <1>16, <1>17, <1>18 DEF InfoInv

LEMMA VisitInfo ==
  ASSUME IInv, IInv', InfoInv, NEW p \in PE, FMVisit(p) \/ BalanceVisit(p) \/ AdaptiveVisit(p)
  PROVE  InfoInv'
<1>1. \E v \in todo[p] : \E goals : Attempt(p, v, goals) /\ goals \subseteq DOMAIN ckrinfo[v].nbr
  <2>1. CASE FMVisit(p)
    BY <2>1, GoalsListed DEF FMVisit
  <2>2. CASE BalanceVisit(p)
    BY <2>2, GoalsListed DEF BalanceVisit
  <2>3. CASE AdaptiveVisit(p)
    <3>1. PICK v \in todo[p] : Attempt(p, v, AdaptiveGoals(p, v))
      BY <2>3, Zenon DEF AdaptiveVisit
    <3> QED BY <3>1, GoalsListed
  <2> QED BY <2>1, <2>2, <2>3
<1> QED BY <1>1, AttemptInfo

LEMMA RecomputeInfo ==
  ASSUME IInv, IInv', InfoInv, NEW p \in PE, Recompute(p)
  PROVE  InfoInv'
BY AskUpdatesInfo, UpdateInfo DEF Recompute

LEMMA StutterInfo ==
  ASSUME InfoInv, UNCHANGED vars
  PROVE  InfoInv'
<1>1. /\ program' = program /\ pc' = pc /\ pass' = pass /\ c' = c
      /\ where' = where /\ tmp_where' = tmp_where /\ ckrinfo' = ckrinfo /\ todo' = todo
      /\ dirty' = dirty /\ moved' = moved /\ lnpwgts' = lnpwgts /\ gnpwgts' = gnpwgts
      /\ ognpwgts' = ognpwgts /\ update' = update /\ supdate' = supdate /\ oldEDs' = oldEDs
      /\ lmincut' = lmincut /\ mincut' = mincut /\ chan' = chan
  BY DEF vars
<1>2. Shape' /\ InfoTyped' /\ Moves' /\ PartsOwn' /\ Cuts'
  <2>1. Shape'
    BY <1>1, Zenon DEF InfoInv, Shape
  <2>2. InfoTyped' /\ Moves'
    BY <1>1 DEF InfoInv, InfoTyped, Moves
  <2>3. PartsOwn' /\ Cuts'
    BY <1>1 DEF InfoInv, PartsOwn, Cuts
  <2> QED BY <2>1, <2>2, <2>3
<1>3. /\ Boxes' /\ NotAhead' /\ Copies'
      /\ \A q \in PE : \A v : Asked(q, v)' <=> Asked(q, v)
  BY <1>1, NothingSent DEF InfoInv
<1>4. Known'
  BY <1>1, <1>3 DEF InfoInv, Known, Exact, Counted, Tentative
<1>5. PartsKnown'
  BY <1>1 DEF InfoInv, PartsKnown, Current
<1>6. Passes'
  BY <1>1 DEF InfoInv, Passes, refiner
<1> QED BY <1>2, <1>3, <1>4, <1>5, <1>6 DEF InfoInv

LEMMA InfoSteps ==
  ASSUME IInv, IInv', InfoInv, [Next]_vars
  PROVE  InfoInv'
<1>1. ASSUME NEW p \in PE, FMStep(p)
      PROVE  InfoInv'
  BY <1>1, VisitInfo, CommitInfo, RecomputeInfo DEF FMStep, FMCommit, FMRecompute
<1>2. ASSUME NEW p \in PE, BalanceStep(p)
      PROVE  InfoInv'
  BY <1>2, VisitInfo, BalanceCommitInfo, RecomputeInfo DEF BalanceStep, BalanceRecompute
<1>3. ASSUME NEW p \in PE, AdaptiveStep(p)
      PROVE  InfoInv'
  BY <1>3, VisitInfo, CommitInfo, RecomputeInfo
     DEF AdaptiveStep, AdaptiveCommit, AdaptiveRecompute
<1>4. ASSUME FMReduce \/ AdaptiveReduce
      PROVE  InfoInv'
  BY <1>4, SumsInfo DEF FMReduce, AdaptiveReduce
<1>5. ASSUME FMEndPass \/ BalanceEndPass \/ AdaptiveEndPass
      PROVE  InfoInv'
  <2>1. PICK passes : /\ EndPass(passes)
                      /\ refiner = "KWayBalance" => passes = 1
                      /\ refiner # "KWayBalance" => passes = npasses
    BY <1>5 DEF FMEndPass, BalanceEndPass, AdaptiveEndPass
  <2> QED BY <2>1, EndInfo
<1> QED BY <1>1, <1>2, <1>3, <1>4, <1>5, StartInfo, NextInfo, StutterInfo DEF Next

\* The bookkeeping invariant holds in every state, for any number of PEs and
\* parts, any graph without loops, any weights, targets and sequence of refiners.
THEOREM InfoInvariance == Spec => [](IInv /\ InfoInv)
<1>1. Init => IInv /\ InfoInv
  BY Begins, BeginsInfo
<1>2. (IInv /\ InfoInv) /\ [Next]_vars => (IInv /\ InfoInv)'
  BY Steps, InfoSteps
<1> QED BY <1>1, <1>2, PTL DEF Spec

-----------------------------------------------------------------------------
(* The cut.                                                                *)

\* The edges, from both ends, that leave a part of w, for a set of first ends.
Cutting(S, w) == {e \in S \X Vertex : e[2] \in Adj[e[1]] /\ w[e[1]] # w[e[2]]}
EdgeWgt == [e \in Vertex \X Vertex |-> AdjWgt[e[1]][e[2]]]

LEMMA CuttingIs ==
  ASSUME NEW S \in SUBSET Vertex, NEW w
  PROVE  /\ IsFiniteSet(Cutting(S, w)) /\ Cutting(S, w) \subseteq Vertex \X Vertex
         /\ \A e \in Cutting(S, w) : EdgeWgt[e] \in Nat /\ EdgeWgt[e] \in Int
<1>1. Cutting(S, w) \subseteq Vertex \X Vertex
  BY DEF Cutting
<1>2. IsFiniteSet(Vertex \X Vertex)
  BY FiniteAssumption, FS_Product
<1>3. IsFiniteSet(Cutting(S, w))
  BY <1>1, <1>2, FS_Subset
<1>4. ASSUME NEW e \in Cutting(S, w) PROVE EdgeWgt[e] \in Nat
  <2>1. e \in Vertex \X Vertex /\ e[1] \in Vertex /\ e[2] \in Adj[e[1]]
    BY <1>1 DEF Cutting
  <2>2. EdgeWgt[e] = AdjWgt[e[1]][e[2]]
    BY <2>1 DEF EdgeWgt
  <2> QED BY <2>1, <2>2, AdjFinite
<1> QED BY <1>1, <1>3, <1>4

\* The external degrees of a set of vertices add up to the weight of these.
LEMMA ExternalDegreesAdd ==
  ASSUME NEW S \in SUBSET Vertex, NEW w, NEW f, \A v \in S : f[v] = Degrees(v, w).ed
  PROVE  SumFunctionOnSet(f, S) = SumFunctionOnSet(EdgeWgt, Cutting(S, w))
<1> DEFINE out(v) == {u \in Adj[v] : w[u] # w[v]}
           part == [v \in S |-> {<<v, u>> : u \in out(v)}]
<1>1. ASSUME NEW v \in S
      PROVE  /\ IsFiniteSet(part[v]) /\ \A e \in part[v] : EdgeWgt[e] \in Int
             /\ f[v] = SumFunctionOnSet(EdgeWgt, part[v])
  <2> DEFINE R == out(v)
             h == [u \in R |-> <<v, u>>]
             g == AdjWgt[v]
  <2>1. v \in Vertex /\ IsFiniteSet(R)
    BY AdjFinite, FS_Subset
  <2>2. \A u \in R : u \in Vertex /\ g[u] \in Int
    BY AdjFinite
  <2>3. \A u \in R : g[u] = EdgeWgt[h[u]] /\ g[u] \in Int /\ h[u] \in Vertex \X Vertex
    BY <2>1, <2>2 DEF EdgeWgt
  <2>4. \A u, x \in R : h[u] = h[x] => u = x
    OBVIOUS
  <2>5. part[v] = {h[u] : u \in R}
    OBVIOUS
  <2>6. f[v] = SumFunctionOnSet(g, R)
    BY DEF Degrees
  <2> HIDE DEF R, h, g, part
  <2>7. IsFiniteSet({h[u] : u \in R})
    <3>1. {h[u] : u \in R} \subseteq Vertex \X Vertex /\ IsFiniteSet(Vertex \X Vertex)
      BY <2>3, FiniteAssumption, FS_Product
    <3> QED BY <3>1, FS_Subset
  <2>8. SumFunctionOnSet(EdgeWgt, {h[u] : u \in R}) = SumFunctionOnSet(g, R)
    BY <2>1, <2>3, <2>4, SumRenamed
  <2>9. \A e \in {h[u] : u \in R} : EdgeWgt[e] \in Int
    BY <2>3
  <2> QED BY <2>5, <2>6, <2>7, <2>8, <2>9
<1>2. \A u, v \in S : u # v => part[u] \intersect part[v] = {}
  OBVIOUS
<1>3. UNION {part[v] : v \in S} = Cutting(S, w)
  <2>1. ASSUME NEW e \in Cutting(S, w) PROVE e \in UNION {part[v] : v \in S}
    <3>1. e[1] \in S /\ e[2] \in out(e[1]) /\ e = <<e[1], e[2]>>
      BY DEF Cutting
    <3>2. e \in part[e[1]]
      BY <3>1
    <3> QED BY <3>1, <3>2
  <2>2. ASSUME NEW v \in S, NEW e \in part[v] PROVE e \in Cutting(S, w)
    <3>1. PICK u \in out(v) : e = <<v, u>>
      OBVIOUS
    <3>2. u \in Vertex
      BY EdgesBothWays
    <3> QED BY <3>1, <3>2 DEF Cutting
  <2> HIDE DEF part
  <2> QED BY <2>1, <2>2
<1>4. IsFiniteSet(S)
  BY FiniteAssumption, FS_Subset
<1> HIDE DEF part
<1>5. SumFunctionOnSet(EdgeWgt, UNION {part[v] : v \in S}) = SumFunctionOnSet(f, S)
  <2>1. \A v \in S : /\ IsFiniteSet(part[v])
                     /\ \A e \in part[v] : EdgeWgt[e] \in Int
                     /\ f[v] = SumFunctionOnSet(EdgeWgt, part[v])
    BY <1>1
  <2>2. \A u, v \in S : u # v => part[u] \intersect part[v] = {}
    BY <1>2
  <2>3. DOMAIN part = S
    BY DEF part
  <2> QED BY ONLY <2>1, <2>2, <2>3, <1>4, SumOfParts
<1> QED BY <1>3, <1>5

\* Every edge of the cut is counted at both of its ends.
LEMMA CutCountedTwice ==
  ASSUME NEW w, NEW L, L = {e \in Vertex \X Vertex : e[1] < e[2] /\ e[1] \in Adj[e[2]] /\ w[e[1]] # w[e[2]]}
  PROVE  /\ WeightOf(L) \in Nat
         /\ SumFunctionOnSet(EdgeWgt, Cutting(Vertex, w)) = WeightOf(L) + WeightOf(L)
<1> DEFINE C == Cutting(Vertex, w)
           h == [e \in L |-> <<e[2], e[1]>>]
           G == {h[e] : e \in L}
<1>1. IsFiniteSet(C) /\ C \subseteq Vertex \X Vertex /\ \A e \in C : EdgeWgt[e] \in Nat /\ EdgeWgt[e] \in Int
  BY CuttingIs
<1>2. L \subseteq C
  BY EdgesBothWays DEF Cutting
<1>3. ASSUME NEW e \in L
      PROVE  h[e] = <<e[2], e[1]>> /\ h[e] \in C /\ h[e] \notin L /\ EdgeWgt[e] = EdgeWgt[h[e]]
  <2>1. /\ e \in Vertex \X Vertex /\ e[1] < e[2] /\ e[1] \in Adj[e[2]] /\ w[e[1]] # w[e[2]]
        /\ e[1] \in Vertex /\ e[2] \in Vertex /\ e[1] \in Int /\ e[2] \in Int
    BY NumberAssumption
  <2>2. h[e] = <<e[2], e[1]>> /\ h[e] \in Vertex \X Vertex
    BY <2>1
  <2>3. h[e] \in C /\ h[e] \notin L
    BY <2>1, <2>2 DEF Cutting
  <2>4. EdgeWgt[e] = AdjWgt[e[1]][e[2]] /\ EdgeWgt[h[e]] = AdjWgt[e[2]][e[1]]
    BY <2>1, <2>2 DEF EdgeWgt
  <2>5. AdjWgt[e[1]][e[2]] = AdjWgt[e[2]][e[1]]
    BY <2>1, WeightAssumption
  <2> QED BY <2>2, <2>3, <2>4, <2>5
<1>4. C \subseteq L \union G
  <2> SUFFICES ASSUME NEW e \in C, e \notin L PROVE e \in G
    OBVIOUS
  <2>1. e = <<e[1], e[2]>> /\ e[1] \in Vertex /\ e[2] \in Vertex /\ e[2] \in Adj[e[1]] /\ w[e[1]] # w[e[2]]
    BY DEF Cutting
  <2>2. e[1] \in Adj[e[2]] /\ e[1] # e[2] /\ e[1] \in Int /\ e[2] \in Int
    BY <2>1, EdgesBothWays, NumberAssumption
  <2>3. e[2] < e[1]
    BY <2>1, <2>2
  <2>4. PICK d : d = <<e[2], e[1]>>
    OBVIOUS
  <2>5. d \in L /\ h[d] = e
    BY <2>1, <2>2, <2>3, <2>4
  <2> QED BY <2>5
<1>5. \A d, e \in L : h[d] = h[e] => d = e
  <2> SUFFICES ASSUME NEW d \in L, NEW e \in L, h[d] = h[e] PROVE d = e
    OBVIOUS
  <2>1. d = <<d[1], d[2]>> /\ e = <<e[1], e[2]>>
    OBVIOUS
  <2>2. d[2] = e[2] /\ d[1] = e[1]
    BY <1>3
  <2> QED BY <2>1, <2>2
<1>6. WeightOf(L) = SumFunctionOnSet(EdgeWgt, L)
  <2> DEFINE f == [e \in L |-> AdjWgt[e[1]][e[2]]]
  <2>1. WeightOf(L) = SumFunctionOnSet(f, L)
    BY DEF WeightOf, SumFunction
  <2>2. \A e \in L : f[e] = EdgeWgt[e]
    BY DEF EdgeWgt
  <2>3. IsFiniteSet(L)
    BY <1>1, <1>2, FS_Subset
  <2> HIDE DEF f
  <2> QED BY <2>1, <2>2, <2>3, SumSame
<1>7. G \subseteq C /\ G \intersect L = {} /\ C = L \union G
  BY <1>2, <1>3, <1>4
<1>8. IsFiniteSet(L) /\ IsFiniteSet(G) /\ \A e \in L : EdgeWgt[e] \in Nat /\ EdgeWgt[e] \in Int
  BY <1>1, <1>2, <1>7, FS_Subset
<1>9. SumFunctionOnSet(EdgeWgt, G) = SumFunctionOnSet(EdgeWgt, L)
  <2>1. \A e \in L : EdgeWgt[e] = EdgeWgt[h[e]] /\ EdgeWgt[e] \in Int
    BY <1>3, <1>8
  <2>2. \A d, e \in L : h[d] = h[e] => d = e
    BY <1>5
  <2>3. IsFiniteSet(L)
    BY <1>8
  <2> HIDE DEF h
  <2> QED BY ONLY <2>1, <2>2, <2>3, SumRenamed
<1> HIDE DEF C, G
<1>10. SumFunctionOnSet(EdgeWgt, G \union L) = SumFunctionOnSet(EdgeWgt, G) + SumFunctionOnSet(EdgeWgt, L)
  <2>1. \A e \in G \union L : EdgeWgt[e] \in Int
    BY <1>1, <1>7
  <2>2. G \intersect L = {}
    BY <1>7
  <2> QED BY <1>8, <2>1, <2>2, SumUnion
<1>11. G \union L = C
  BY <1>7
<1>12. SumFunctionOnSet(EdgeWgt, L) \in Nat
  BY <1>8, SumNat
<1>13. SumFunctionOnSet(EdgeWgt, C) = WeightOf(L) + WeightOf(L)
  BY <1>6, <1>9, <1>10, <1>11
<1> QED BY <1>6, <1>12, <1>13 DEF C

\* What the PEs count for their vertices adds up to the edges of the cut.
LEMMA LocalCutsAdd ==
  ASSUME NEW w, lmincut = [p \in PE |-> lmincut[p]],
         \A p \in PE : lmincut[p] = SumFunction([v \in Own(p) |-> Degrees(v, w).ed])
  PROVE  SumFunction(lmincut) = SumFunctionOnSet(EdgeWgt, Cutting(Vertex, w))
<1> DEFINE part == [p \in PE |-> Cutting(Own(p), w)]
<1>1. ASSUME NEW p \in PE
      PROVE  /\ IsFiniteSet(part[p]) /\ \A e \in part[p] : EdgeWgt[e] \in Int
             /\ lmincut[p] = SumFunctionOnSet(EdgeWgt, part[p])
  <2> DEFINE f == [v \in Own(p) |-> Degrees(v, w).ed]
             S == Own(p)
  <2>1. S \in SUBSET Vertex /\ part[p] = Cutting(S, w)
    BY OwnIs
  <2>2. lmincut[p] = SumFunctionOnSet(f, S) /\ \A v \in S : f[v] = Degrees(v, w).ed
    BY DEF SumFunction
  <2> HIDE DEF f, S, part
  <2>3. SumFunctionOnSet(f, S) = SumFunctionOnSet(EdgeWgt, Cutting(S, w))
    BY <2>1, <2>2, ExternalDegreesAdd
  <2>4. IsFiniteSet(Cutting(S, w)) /\ \A e \in Cutting(S, w) : EdgeWgt[e] \in Int
    BY <2>1, CuttingIs
  <2> QED BY <2>1, <2>2, <2>3, <2>4
<1>2. \A p, q \in PE : p # q => part[p] \intersect part[q] = {}
  <2> SUFFICES ASSUME NEW p \in PE, NEW q \in PE, NEW e \in part[p] \intersect part[q] PROVE p = q
    OBVIOUS
  <2>1. e[1] \in Own(p) /\ e[1] \in Own(q)
    BY DEF Cutting
  <2> QED BY <2>1, OwnIs
<1>3. UNION {part[p] : p \in PE} = Cutting(Vertex, w)
  <2>1. ASSUME NEW e \in Cutting(Vertex, w) PROVE e \in UNION {part[p] : p \in PE}
    <3>1. e \in Vertex \X Vertex /\ e[1] \in Vertex /\ e[2] \in Adj[e[1]] /\ w[e[1]] # w[e[2]]
      BY DEF Cutting
    <3>2. PICK p \in PE : e[1] \in Own(p)
      BY <3>1, OwnerIn
    <3>3. e \in Own(p) \X Vertex
      BY <3>1, <3>2
    <3>4. e \in part[p]
      BY <3>1, <3>3 DEF Cutting
    <3> QED BY <3>4
  <2>2. ASSUME NEW p \in PE, NEW e \in part[p] PROVE e \in Cutting(Vertex, w)
    BY OwnIs DEF Cutting
  <2> HIDE DEF part
  <2> QED BY <2>1, <2>2
<1> HIDE DEF part
<1>4. SumFunctionOnSet(EdgeWgt, UNION {part[p] : p \in PE}) = SumFunctionOnSet(lmincut, PE)
  BY <1>1, <1>2, PEsFinite, SumOfParts
<1>5. SumFunction(lmincut) = SumFunctionOnSet(lmincut, PE)
  <2>1. DOMAIN lmincut = PE
    OBVIOUS
  <2> QED BY <2>1 DEF SumFunction
<1> QED BY <1>3, <1>4, <1>5

-----------------------------------------------------------------------------
(* What the invariant is for.                                              *)

\* Between two directions the PEs agree.
LEMMA BetweenDirections ==
  ASSUME IInv, InfoInv,
         \A p \in PE : pc[p] \in {"start", "done"} \/ (pc[p] = "one" /\ todo[p] = Own(p))
  PROVE  \A p \in PE :
           /\ \A v \in Own(p) : ckrinfo[v] = Degrees(v, Current) /\ tmp_where[p][v] = Current[v]
                                /\ oldEDs[v] = Degrees(v, Current).ed
           /\ lmincut[p] = SumFunction([v \in Own(p) |-> ckrinfo[v].ed])
           /\ \A v \in Ghosts(p) : where[p][v] = Current[v]
           /\ \A a \in Parts : gnpwgts[p][a] = PartWeight(Vertex, Current, a)
<1> SUFFICES ASSUME NEW p \in PE
             PROVE  /\ \A v \in Own(p) : ckrinfo[v] = Degrees(v, Current) /\ tmp_where[p][v] = Current[v]
                                         /\ oldEDs[v] = Degrees(v, Current).ed
                    /\ lmincut[p] = SumFunction([v \in Own(p) |-> ckrinfo[v].ed])
                    /\ \A v \in Ghosts(p) : where[p][v] = Current[v]
                    /\ \A a \in Parts : gnpwgts[p][a] = PartWeight(Vertex, Current, a)
  OBVIOUS
<1>1. \A v \in Vertex : Current[v] = cur(v)
  BY DEF Current, cur
<1>2. \A q \in PE : ~WhereOut(q)
  BY DEF WhereOut
<1>3. \A v \in Ghosts(p) : where[p][v] = Current[v]
  BY <1>1, <1>2, OthersIn DEF InfoInv, Copies
<1>4. \A v \in Own(p) : v \in Vertex /\ where[p][v] = Current[v]
  BY <1>1, CurIs
<1>5. pc[p] = "one" => moved[p] = <<>> /\ gnpwgts[p] = ognpwgts[p]
  BY DEF InfoInv, PartsKnown
<1>6. \A v \in Own(p) : tmp_where[p][v] = where[p][v]
  <2>1. CASE pc[p] = "one"
    <3>1. ToSet(moved[p]) = {}
      BY <1>5, <2>1 DEF ToSet
    <3> QED BY <3>1 DEF InfoInv, Moves
  <2>2. CASE pc[p] # "one"
    <3>1. pc[p] \notin {"one", "commit"}
      BY <2>2
    <3> QED BY <3>1, NothingTentative
  <2> QED BY <2>1, <2>2
<1>7. \A v \in Own(p) \union Ghosts(p) : where[p][v] = Current[v] /\ Tentative(p)[v] = Current[v]
  BY <1>3, <1>4, <1>6 DEF Tentative
<1>8. \A v \in Own(p) : /\ Degrees(v, where[p]) = Degrees(v, Current)
                        /\ Degrees(v, Tentative(p)) = Degrees(v, Current)
  <2>1. \A v \in Own(p) : Degrees(v, where[p]) = Degrees(v, Current)
    BY <1>7, DegreesSeen
  <2>2. \A v \in Own(p) : Degrees(v, Tentative(p)) = Degrees(v, Current)
    BY <1>7, DegreesSeen
  <2> QED BY <2>1, <2>2
<1>9. \A v \in Own(p) : ckrinfo[v] = Degrees(v, Current) /\ oldEDs[v] = Degrees(v, Current).ed
  <2> SUFFICES ASSUME NEW v \in Own(p)
               PROVE  ckrinfo[v] = Degrees(v, Current) /\ oldEDs[v] = Degrees(v, Current).ed
    OBVIOUS
  <2>1. (Exact(v, where[p]) \/ Exact(v, Tentative(p))) /\ Counted(v, where[p])
    BY DEF InfoInv, Known
  <2> QED BY <1>8, <2>1 DEF Exact, Counted
<1>10. lmincut[p] = SumFunction([v \in Own(p) |-> ckrinfo[v].ed])
  <2>1. [v \in Own(p) |-> ckrinfo[v].ed] = [v \in Own(p) |-> oldEDs[v]]
    BY <1>9
  <2> QED BY <2>1 DEF InfoInv, Cuts
<1>11. \A a \in Parts : gnpwgts[p][a] = PartWeight(Vertex, Current, a)
  <2>1. CASE \A q \in PE : pc[q] \in {"start", "done"}
    BY <2>1 DEF InfoInv, PartsKnown
  <2>2. CASE \E q \in PE : pc[q] \notin {"start", "done"}
    <3>1. \A q \in PE : pc[q] \in DirectionPhases
      BY <2>2 DEF IInv, Together
    <3>2. \A q \in PE : pc[q] = "one"
      BY <3>1 DEF DirectionPhases
    <3>3. ognpwgts[p] = gnpwgts[p]
      BY <1>5, <3>2
    <3> QED BY <3>2, <3>3 DEF InfoInv, PartsKnown
  <2> QED BY <2>1, <2>2
<1> QED BY <1>3, <1>4, <1>6, <1>9, <1>10, <1>11

LEMMA CutRight ==
  ASSUME IInv, InfoInv, \A p \in PE : pc[p] \in {"start", "done"}
  PROVE  mincut = WeightOf({e \in Vertex \X Vertex : e[1] < e[2] /\ e[1] \in Adj[e[2]]
                                                     /\ Current[e[1]] # Current[e[2]]})
<1> DEFINE w == Current
           L == {e \in Vertex \X Vertex : e[1] < e[2] /\ e[1] \in Adj[e[2]] /\ w[e[1]] # w[e[2]]}
           A == WeightOf(L)
<1>1. mincut = SumFunction(lmincut) \div 2 /\ lmincut = [p \in PE |-> lmincut[p]]
  BY DEF InfoInv, Cuts, Shape
<1>2. ASSUME NEW p \in PE PROVE lmincut[p] = SumFunction([v \in Own(p) |-> Degrees(v, w).ed])
  <2>1. [v \in Own(p) |-> oldEDs[v]] = [v \in Own(p) |-> Degrees(v, w).ed]
    BY BetweenDirections
  <2> QED BY <2>1 DEF InfoInv, Cuts
<1> HIDE DEF w
<1>3. SumFunction(lmincut) = SumFunctionOnSet(EdgeWgt, Cutting(Vertex, w))
  BY <1>1, <1>2, LocalCutsAdd
<1>4. A \in Nat /\ SumFunctionOnSet(EdgeWgt, Cutting(Vertex, w)) = A + A
  BY CutCountedTwice
<1> HIDE DEF A
<1>5. (A + A) \div 2 = A
  BY <1>4
<1>6. mincut = A
  BY <1>1, <1>3, <1>4, <1>5
<1> QED BY <1>6 DEF A, w

\* Everything the PEs keep incrementally is what it would be if computed anew,
\* whatever the PEs move, undo and tell each other in whatever order.
THEOREM InfoIsExact == Spec => []InfoExact
<1>1. IInv /\ InfoInv => InfoExact
  <2> SUFFICES ASSUME IInv, InfoInv PROVE InfoExact
    OBVIOUS
  <2>1. ASSUME NEW p \in PE, pc[p] \in {"one", "commit"}, NEW v \in Own(p)
        PROVE  ckrinfo[v] = Degrees(v, Tentative(p))
    BY <2>1 DEF InfoInv, Known, Exact
  <2> QED BY <2>1, BetweenDirections, CutRight DEF InfoExact
<1> QED BY <1>1, InfoInvariance, PTL

\* The type invariant: part weights and degrees never go below zero, and PEs
\* ask owners of their ghosts only.
THEOREM TypeCorrect == Spec => []TypeOK
<1>1. IInv /\ InfoInv => TypeOK
  <2> SUFFICES ASSUME IInv, InfoInv PROVE TypeOK
    OBVIOUS
  <2>1. pc \in [PE -> {"start", "one", "commit", "where", "supdate", "sum", "done"}]
    BY DEF IInv, Typed, DirectionPhases
  <2>2. program \in Programs \union {<<"KWayAdaptiveRefine">>} /\ pass \in 0..npasses /\ c \in {0, 1}
    <3>1. pass \in Nat /\ npasses \in Nat /\ npasses > 0
      BY PassesAssumption DEF InfoInv, Passes
    <3>2. pass <= npasses
      BY <3>1 DEF InfoInv, Passes
    <3> QED BY <3>1, <3>2 DEF InfoInv, Passes
  <2>3. ASSUME NEW p \in PE
        PROVE  /\ where[p] \in [Own(p) \union Ghosts(p) -> Parts]
               /\ tmp_where[p] \in [Own(p) -> Parts]
               /\ todo[p] \subseteq Own(p) /\ dirty[p] \subseteq Own(p) /\ moved[p] \in Seq(Own(p))
               /\ update[p] \subseteq Own(p) /\ supdate[p] \subseteq Ghosts(p)
    BY DEF InfoInv, Shape, IInv, Typed
  <2>4. ASSUME NEW p \in PE, NEW a \in Parts
        PROVE  lnpwgts[p][a] \in Nat /\ gnpwgts[p][a] \in Nat
    <3>1. Own(p) \in SUBSET Vertex
      BY OwnIs
    <3>2. PartWeight(Own(p), tmp_where[p], a) \in Nat
      BY <3>1, PartIs
    <3> QED BY <3>2 DEF InfoInv, PartsOwn, PartsKnown
  <2>5. \A v \in Vertex : /\ ckrinfo[v].id \in Nat /\ ckrinfo[v].ed \in Nat
                          /\ DOMAIN ckrinfo[v].nbr \subseteq Parts
    BY DEF InfoInv, InfoTyped
  <2> QED BY <2>1, <2>2, <2>3, <2>4, <2>5 DEF TypeOK
<1> QED BY <1>1, InfoInvariance, PTL

-----------------------------------------------------------------------------
(* What a move costs as far as a PE sees.                                  *)

\* The edges of the cut that p sees, and those of them that do not end at v.
Border(p, w) == {e \in Own(p) \X (Own(p) \union Ghosts(p)) :
  e[1] \in Adj[e[2]] /\ w[e[1]] # w[e[2]] /\ (e[2] \in Own(p) => e[1] < e[2])}
BorderOff(p, v, w) == {e \in Border(p, w) : e[1] # v /\ e[2] # v}

LEMMA BorderIs ==
  ASSUME NEW p \in PE, NEW w
  PROVE  /\ IsFiniteSet(Border(p, w)) /\ Border(p, w) \subseteq Vertex \X Vertex
         /\ \A e \in Border(p, w) : EdgeWgt[e] \in Nat /\ EdgeWgt[e] \in Int
         /\ SeenCut(p, w) = SumFunctionOnSet(EdgeWgt, Border(p, w))
<1> DEFINE B == Border(p, w)
           f == [e \in B |-> AdjWgt[e[1]][e[2]]]
<1>1. B \subseteq Vertex \X Vertex
  <2>1. \A u \in Own(p) \union Ghosts(p) : u \in Vertex
    BY OwnIs, GhostsAre
  <2> QED BY <2>1 DEF Border
<1>2. IsFiniteSet(B)
  <2>1. IsFiniteSet(Vertex \X Vertex)
    BY FiniteAssumption, FS_Product
  <2> QED BY <1>1, <2>1, FS_Subset
<1>3. ASSUME NEW e \in B PROVE EdgeWgt[e] \in Nat /\ f[e] = EdgeWgt[e]
  <2>1. e \in Vertex \X Vertex /\ e[1] \in Vertex /\ e[2] \in Vertex /\ e[1] \in Adj[e[2]]
    BY <1>1 DEF Border
  <2>2. EdgeWgt[e] = AdjWgt[e[1]][e[2]] /\ e[2] \in Adj[e[1]]
    BY <2>1, EdgesBothWays DEF EdgeWgt
  <2> QED BY <2>1, <2>2, AdjFinite
<1>4. SeenCut(p, w) = SumFunctionOnSet(f, B)
  BY DEF SeenCut, WeightOf, SumFunction, Border
<1> HIDE DEF B, f
<1>5. SumFunctionOnSet(f, B) = SumFunctionOnSet(EdgeWgt, B)
  BY <1>2, <1>3, SumSame
<1>6. SeenCut(p, w) = SumFunctionOnSet(EdgeWgt, B)
  BY <1>4, <1>5
<1> QED BY <1>1, <1>2, <1>3, <1>6 DEF B

\* The part of it that ends at v weighs v's external degree.
LEMMA SeenCutTakes ==
  ASSUME NEW p \in PE, NEW v \in Own(p), NEW w
  PROVE  /\ SumFunctionOnSet(EdgeWgt, BorderOff(p, v, w)) \in Int
         /\ SeenCut(p, w) = Degrees(v, w).ed + SumFunctionOnSet(EdgeWgt, BorderOff(p, v, w))
<1> DEFINE B == Border(p, w)
           O == BorderOff(p, v, w)
           R == {u \in Adj[v] : w[u] # w[v]}
           g == AdjWgt[v]
           h == [u \in R |-> IF u \in Own(p) /\ u < v THEN <<u, v>> ELSE <<v, u>>]
           N == {h[u] : u \in R}
<1>1. /\ IsFiniteSet(B) /\ \A e \in B : EdgeWgt[e] \in Nat /\ EdgeWgt[e] \in Int
      /\ SeenCut(p, w) = SumFunctionOnSet(EdgeWgt, B)
  BY BorderIs
<1>2. v \in Vertex /\ v \in Int /\ v \notin Ghosts(p)
  BY OwnIs, GhostsAre, NumberAssumption
<1>3. ASSUME NEW u \in R
      PROVE  /\ u \in Vertex /\ u \in Int /\ u # v /\ v \in Adj[u] /\ u \in Own(p) \union Ghosts(p)
             /\ g[u] \in Int
  BY <1>2, EdgesBothWays, NumberAssumption, NeighboursKnown, AdjFinite
<1>4. ASSUME NEW u \in R
      PROVE  /\ \/ u \in Own(p) /\ u < v /\ h[u] = <<u, v>>
                \/ (u \in Own(p) => v < u) /\ h[u] = <<v, u>>
             /\ h[u] \in B /\ h[u] \notin O /\ EdgeWgt[h[u]] = g[u]
  <2>1. CASE u \in Own(p) /\ u < v
    <3>1. h[u] = <<u, v>>
      BY <2>1
    <3>2. h[u] \in B /\ h[u] \notin O
      BY <1>2, <1>3, <2>1, <3>1 DEF Border, BorderOff
    <3>3. EdgeWgt[<<u, v>>] = AdjWgt[u][v] /\ AdjWgt[u][v] = AdjWgt[v][u]
      BY <1>2, <1>3, WeightAssumption DEF EdgeWgt
    <3> QED BY <2>1, <3>1, <3>2, <3>3
  <2>2. CASE ~(u \in Own(p) /\ u < v)
    <3>1. h[u] = <<v, u>> /\ (u \in Own(p) => v < u)
      BY <1>2, <1>3, <2>2
    <3>2. h[u] \in B /\ h[u] \notin O
      BY <1>2, <1>3, <3>1 DEF Border, BorderOff
    <3>3. EdgeWgt[<<v, u>>] = AdjWgt[v][u]
      BY <1>2, <1>3 DEF EdgeWgt
    <3> QED BY <3>1, <3>2, <3>3
  <2> QED BY <2>1, <2>2
<1>5. ASSUME NEW e \in B, e \notin O PROVE e \in N
  <2>1. /\ e = <<e[1], e[2]>> /\ e[1] \in Own(p) /\ e[2] \in Own(p) \union Ghosts(p)
        /\ e[1] \in Adj[e[2]] /\ w[e[1]] # w[e[2]] /\ (e[2] \in Own(p) => e[1] < e[2])
        /\ (e[1] = v \/ e[2] = v)
    BY <1>5 DEF Border, BorderOff
  <2>2. CASE e[2] = v
    <3>1. e[1] \in R /\ e[1] < v
      BY <2>1, <2>2
    <3>2. h[e[1]] = e
      BY <2>1, <2>2, <3>1
    <3> QED BY <3>1, <3>2
  <2>3. CASE e[1] = v /\ e[2] # v
    <3>1. e[2] \in R
      <4>1. e[2] \in Vertex
        BY <2>1, OwnIs, GhostsAre
      <4>2. e[2] \in Adj[v]
        BY <2>1, <2>3, <4>1, EdgesBothWays
      <4> QED BY <2>1, <2>3, <4>2
    <3>2. ~(e[2] \in Own(p) /\ e[2] < v)
      BY <1>2, <1>3, <2>1, <2>3, <3>1
    <3>3. h[e[2]] = e
      BY <2>1, <2>3, <3>1, <3>2
    <3> QED BY <3>1, <3>3
  <2> QED BY <2>1, <2>2, <2>3
<1>6. \A u, y \in R : h[u] = h[y] => u = y
  <2> SUFFICES ASSUME NEW u \in R, NEW y \in R, h[u] = h[y] PROVE u = y
    OBVIOUS
  <2>1. (h[u] = <<u, v>> \/ h[u] = <<v, u>>) /\ (h[y] = <<y, v>> \/ h[y] = <<v, y>>)
    BY <1>4
  <2>2. u # v /\ y # v
    BY <1>3
  <2> HIDE DEF h
  <2> QED BY <2>1, <2>2
<1>7. Degrees(v, w).ed = SumFunctionOnSet(g, R)
  BY DEF Degrees
<1>8. IsFiniteSet(R)
  BY <1>2, AdjFinite, FS_Subset
<1>9. O \subseteq B
  BY DEF BorderOff
<1>10. SumFunctionOnSet(EdgeWgt, N) = SumFunctionOnSet(g, R)
  <2>1. \A u \in R : g[u] = EdgeWgt[h[u]] /\ g[u] \in Int
    BY <1>3, <1>4
  <2> HIDE DEF h, g, R
  <2> QED BY <1>6, <1>8, <2>1, SumRenamed
<1>11. N \subseteq B /\ N \intersect O = {}
  BY <1>4
<1> HIDE DEF B, O, R, g, h, N
<1>12. N \union O = B
  BY <1>5, <1>9, <1>11
<1>13. /\ IsFiniteSet(N) /\ IsFiniteSet(O) /\ \A e \in N \union O : EdgeWgt[e] \in Int
       /\ \A e \in O : EdgeWgt[e] \in Int
  BY <1>1, <1>9, <1>11, <1>12, FS_Subset
<1>14. SumFunctionOnSet(EdgeWgt, N \union O) = SumFunctionOnSet(EdgeWgt, N) + SumFunctionOnSet(EdgeWgt, O)
  BY <1>11, <1>13, SumUnion
<1>15. SumFunctionOnSet(EdgeWgt, O) \in Int
  BY <1>13, SumType
<1>16. SeenCut(p, w) = Degrees(v, w).ed + SumFunctionOnSet(EdgeWgt, O)
  BY <1>1, <1>7, <1>10, <1>12, <1>14
<1> QED BY <1>15, <1>16 DEF O

LEMMA SeenCutMoves ==
  ASSUME NEW p \in PE, NEW v \in Own(p), NEW w, NEW x, OneMoves(v, w, x, Own(p) \union Ghosts(p))
  PROVE  /\ SeenCut(p, w) \in Int
         /\ SeenCut(p, x) = SeenCut(p, w) + Into(v, w, w[v]) - Into(v, w, x[v])
<1> DEFINE rest == SumFunctionOnSet(EdgeWgt, BorderOff(p, v, w))
<1>1. v \in Vertex
  BY OwnIs
<1>2. \A u \in Own(p) \union Ghosts(p) : u # v => x[u] = w[u]
  BY DEF OneMoves
<1>3. BorderOff(p, v, x) = BorderOff(p, v, w)
  BY <1>2 DEF BorderOff, Border
<1>4. rest \in Int /\ SeenCut(p, w) = Degrees(v, w).ed + rest
  BY SeenCutTakes
<1>5. SeenCut(p, x) = Degrees(v, x).ed + rest
  BY <1>3, SeenCutTakes
<1>6. OneMoves(v, w, x, Adj[v])
  BY NeighboursKnown DEF OneMoves
<1>7. Degrees(v, w).ed = Total(v) - Into(v, w, w[v]) /\ Degrees(v, x).ed = Total(v) - Into(v, x, x[v])
  BY <1>1, ExternalIs
<1>8. Into(v, x, x[v]) = Into(v, w, x[v])
  BY <1>1, <1>6, IntoOfMoved
<1>9. Total(v) \in Int /\ Into(v, w, w[v]) \in Int /\ Into(v, w, x[v]) \in Int
  <2>1. Into(v, w, w[v]) \in Nat
    BY <1>1, IntoNat
  <2>2. Into(v, w, x[v]) \in Nat
    BY <1>1, IntoNat
  <2> QED BY <1>1, <2>1, <2>2, TotalInt
<1> HIDE DEF rest
<1> QED BY <1>4, <1>5, <1>7, <1>8, <1>9

\* The data away from home.
LEMMA AwayTakes ==
  ASSUME NEW p \in PE, NEW v \in Own(p), NEW w, NEW O, O = {u \in Own(p) : u # v /\ ~AtHome(p, u, w[u])}
  PROVE  /\ SumFunctionOnSet(VSize, O) \in Int /\ VSize[v] \in Nat
         /\ AtHome(p, v, w[v]) => Away(p, w) = SumFunctionOnSet(VSize, O)
         /\ ~AtHome(p, v, w[v]) => Away(p, w) = SumFunctionOnSet(VSize, O) + VSize[v]
<1> DEFINE A == {u \in Own(p) : ~AtHome(p, u, w[u])}
<1>1. Own(p) \in SUBSET Vertex /\ O \subseteq Own(p) /\ A \subseteq Own(p) /\ v \in Vertex
  BY OwnIs
<1>2. \A u \in Own(p) : VSize[u] \in Nat /\ VSize[u] \in Int
  BY <1>1, FactorAssumption
<1>3. IsFiniteSet(A) /\ IsFiniteSet(O)
  BY <1>1, FiniteAssumption, FS_Subset
<1>4. Away(p, w) = SumFunctionOnSet(VSize, A)
  BY DEF Away
<1>5. AtHome(p, v, w[v]) => A = O
  OBVIOUS
<1>6. ~AtHome(p, v, w[v]) => v \in A /\ A \ {v} = O
  OBVIOUS
<1> HIDE DEF A
<1>7. SumFunctionOnSet(VSize, O) \in Int
  <2>1. \A u \in O : VSize[u] \in Int
    BY <1>1, <1>2
  <2> QED BY ONLY <1>3, <2>1, SumType
<1>8. v \in A => SumFunctionOnSet(VSize, A) = VSize[v] + SumFunctionOnSet(VSize, A \ {v})
  <2>1. \A u \in A : VSize[u] \in Int
    BY <1>1, <1>2
  <2> QED BY ONLY <1>3, <2>1, SumTakes
<1>9. VSize[v] \in Nat
  BY <1>2
<1> QED BY <1>4, <1>5, <1>6, <1>7, <1>8, <1>9

LEMMA AwayMoves ==
  ASSUME NEW p \in PE, NEW v \in Own(p), NEW w, NEW x, OneMoves(v, w, x, Own(p))
  PROVE  /\ Away(p, w) \in Int /\ VSize[v] \in Nat
         /\ Away(p, x) = Away(p, w) + (IF AtHome(p, v, w[v]) THEN VSize[v] ELSE 0)
                                    - (IF AtHome(p, v, x[v]) THEN VSize[v] ELSE 0)
<1> DEFINE O == {u \in Own(p) : u # v /\ ~AtHome(p, u, w[u])}
           P == {u \in Own(p) : u # v /\ ~AtHome(p, u, x[u])}
           rest == SumFunctionOnSet(VSize, O)
<1>1. P = O
  BY DEF OneMoves
<1>2. /\ rest \in Int /\ VSize[v] \in Nat
      /\ AtHome(p, v, w[v]) => Away(p, w) = rest
      /\ ~AtHome(p, v, w[v]) => Away(p, w) = rest + VSize[v]
  BY AwayTakes
<1>3. /\ AtHome(p, v, x[v]) => Away(p, x) = SumFunctionOnSet(VSize, P)
      /\ ~AtHome(p, v, x[v]) => Away(p, x) = SumFunctionOnSet(VSize, P) + VSize[v]
  BY AwayTakes
<1> HIDE DEF O, P
<1>4. SumFunctionOnSet(VSize, P) = rest
  BY <1>1
<1> HIDE DEF rest
<1> QED BY <1>2, <1>3, <1>4

LEMMA CostSame ==
  ASSUME NEW p \in PE, NEW w, NEW x, \A u \in Own(p) \union Ghosts(p) : w[u] = x[u]
  PROVE  SeenCut(p, w) = SeenCut(p, x) /\ Away(p, w) = Away(p, x)
<1>1. Border(p, w) = Border(p, x)
  BY DEF Border
<1>2. SeenCut(p, w) = SumFunctionOnSet(EdgeWgt, Border(p, w))
  BY BorderIs
<1>3. SeenCut(p, x) = SumFunctionOnSet(EdgeWgt, Border(p, x))
  BY BorderIs
<1>4. {u \in Own(p) : ~AtHome(p, u, w[u])} = {u \in Own(p) : ~AtHome(p, u, x[u])}
  OBVIOUS
<1> QED BY <1>1, <1>2, <1>3, <1>4 DEF Away

\* What is gained by a move, in the cut and by what KWayAdaptiveRefine weighs.
LEMMA Products ==
  ASSUME NEW i \in Int, NEW r \in Int, NEW s \in Int, NEW a \in Int, NEW d \in Int, NEW e \in Int
  PROVE  i * (s - d) + r * (a - e) = (i * s + r * a) - (i * d + r * e)
<1>1. i * (s - d) = i * s - i * d
  OBVIOUS
<1>2. r * (a - e) = r * a - r * e
  OBVIOUS
<1>3. i * s \in Int /\ i * d \in Int /\ r * a \in Int /\ r * e \in Int
  OBVIOUS
<1> QED BY <1>1, <1>2, <1>3

LEMMA MoveCost ==
  ASSUME NEW p \in PE, NEW v \in Own(p), NEW w, NEW x, OneMoves(v, w, x, Own(p) \union Ghosts(p)),
         NEW cut, cut = Into(v, w, x[v]) - Into(v, w, w[v]),
         NEW gain, gain = IpcFactor * cut + (IF AtHome(p, v, x[v]) THEN RedistFactor * VSize[v] ELSE 0)
                                          - (IF AtHome(p, v, w[v]) THEN RedistFactor * VSize[v] ELSE 0)
  PROVE  /\ SeenCut(p, w) \in Int /\ cut \in Int /\ gain \in Int
         /\ SeenCut(p, x) = SeenCut(p, w) - cut
         /\ IpcFactor * SeenCut(p, w) + RedistFactor * Away(p, w) \in Int
         /\ IpcFactor * SeenCut(p, x) + RedistFactor * Away(p, x)
              = (IpcFactor * SeenCut(p, w) + RedistFactor * Away(p, w)) - gain
<1> DEFINE s == SeenCut(p, w)
           a == Away(p, w)
           sz == VSize[v]
           e == (IF AtHome(p, v, x[v]) THEN sz ELSE 0) - (IF AtHome(p, v, w[v]) THEN sz ELSE 0)
<1>1. s \in Int /\ SeenCut(p, x) = s + Into(v, w, w[v]) - Into(v, w, x[v])
  BY SeenCutMoves
<1>2. a \in Int /\ sz \in Nat
      /\ Away(p, x) = a + (IF AtHome(p, v, w[v]) THEN sz ELSE 0) - (IF AtHome(p, v, x[v]) THEN sz ELSE 0)
  BY AwayMoves DEF OneMoves
<1>3. Into(v, w, w[v]) \in Int /\ Into(v, w, x[v]) \in Int
  <2>1. v \in Vertex
    BY OwnIs
  <2>2. Into(v, w, w[v]) \in Nat
    BY <2>1, IntoNat
  <2>3. Into(v, w, x[v]) \in Nat
    BY <2>1, IntoNat
  <2> QED BY <2>2, <2>3
<1>4. cut \in Int /\ SeenCut(p, x) = s - cut
  BY <1>1, <1>3
<1>5. e \in Int /\ Away(p, x) = a - e
  BY <1>2
<1>6. IpcFactor \in Int /\ RedistFactor \in Int
  BY FactorAssumption
<1>7. gain = IpcFactor * cut + RedistFactor * e
  <2>1. RedistFactor * 0 = 0 /\ RedistFactor * (0 - sz) = 0 - RedistFactor * sz
        /\ RedistFactor * sz \in Int /\ IpcFactor * cut \in Int
    BY <1>2, <1>4, <1>6
  <2> QED BY <1>2, <2>1
<1> HIDE DEF s, a, e, sz
<1>8. IpcFactor * (s - cut) + RedistFactor * (a - e)
        = (IpcFactor * s + RedistFactor * a) - (IpcFactor * cut + RedistFactor * e)
  BY <1>1, <1>2, <1>4, <1>5, <1>6, Products
<1>9. IpcFactor * s + RedistFactor * a \in Int /\ IpcFactor * cut + RedistFactor * e \in Int
  BY <1>1, <1>2, <1>4, <1>5, <1>6
<1> QED BY <1>1, <1>4, <1>5, <1>7, <1>8, <1>9 DEF s, a

LEMMA SeenCostInt == \A p \in PE : \A w : SeenCost(p, w) \in Int
<1> SUFFICES ASSUME NEW p \in PE, NEW w PROVE SeenCost(p, w) \in Int
  OBVIOUS
<1>1. SeenCut(p, w) \in Int
  BY BorderIs, SumType
<1>2. Away(p, w) \in Int
  <2> DEFINE A == {u \in Own(p) : ~AtHome(p, u, w[u])}
  <2>1. Own(p) \in SUBSET Vertex /\ A \subseteq Own(p)
    BY OwnIs
  <2>2. IsFiniteSet(A) /\ \A u \in A : VSize[u] \in Int
    BY <2>1, FiniteAssumption, FactorAssumption, FS_Subset
  <2>3. Away(p, w) = SumFunctionOnSet(VSize, A)
    BY DEF Away
  <2> HIDE DEF A
  <2> QED BY <2>2, <2>3, SumType
<1>3. IpcFactor * SeenCut(p, w) + RedistFactor * Away(p, w) \in Int
  BY <1>1, <1>2, FactorAssumption
<1> QED BY <1>1, <1>3 DEF SeenCost

\* What the refiner optimizes does not get worse by a visit.
GoodGoals(p, v, goals) ==
  \A to \in goals :
    /\ refiner = "KWayAdaptiveRefine" => 0 <= AdaptiveGain(p, v, to)
    /\ refiner = "KWayFM" => ckrinfo[v].id <= ckrinfo[v].nbr[to]

LEMMA AttemptCost ==
  ASSUME IInv, InfoInv, SeenCostNeverWorse, NEW p \in PE, NEW v \in todo[p], NEW goals,
         Attempt(p, v, goals), goals \subseteq DOMAIN ckrinfo[v].nbr, GoodGoals(p, v, goals),
         refiner \in {"KWayFM", "KWayAdaptiveRefine", "KWayBalance"}
  PROVE  SeenCostNeverWorse'
<1>1. /\ pc[p] = "one" /\ pc' = pc /\ where' = where /\ refiner' = refiner
  BY DEF Attempt, refiner
<1>2. v \in Own(p) /\ v \in Vertex
  BY OwnIs DEF IInv, Typed
<1>3. CASE goals = {} /\ UNCHANGED <<tmp_where, ckrinfo, moved, lnpwgts, gnpwgts, movewgts>>
  <2>1. \A q \in PE : Tentative(q)' = Tentative(q)
    BY <1>1, <1>3 DEF Tentative
  <2> QED BY <1>1, <2>1 DEF SeenCostNeverWorse, SeenCost
<1>4. ASSUME NEW to \in goals, tmp_where' = [tmp_where EXCEPT ![p][v] = to]
      PROVE  SeenCostNeverWorse'
  <2> DEFINE w == Tentative(p)
             x == Tentative(p)'
             from == tmp_where[p][v]
             cut == Into(v, w, x[v]) - Into(v, w, w[v])
             gain == IpcFactor * cut + (IF AtHome(p, v, x[v]) THEN RedistFactor * VSize[v] ELSE 0)
                                     - (IF AtHome(p, v, w[v]) THEN RedistFactor * VSize[v] ELSE 0)
             data == IpcFactor * SeenCut(p, w) + RedistFactor * Away(p, w)
  <2>1. /\ tmp_where = [q \in PE |-> tmp_where[q]] /\ tmp_where[p] \in [Own(p) -> Parts]
    BY DEF InfoInv, Shape
  <2>2. /\ \A q \in PE : q # p => tmp_where'[q] = tmp_where[q]
        /\ tmp_where'[p][v] = to
        /\ \A u \in Own(p) : u # v => tmp_where'[p][u] = tmp_where[p][u]
    BY <1>2, <1>4, <2>1
  <2>3. \A q \in PE : q # p => Tentative(q)' = Tentative(q)
    BY <1>1, <2>2 DEF Tentative
  <2>4. w[v] = from /\ x[v] = to /\ \A u \in Own(p) \union Ghosts(p) : u # v => x[u] = w[u]
    BY <1>1, <1>2, <2>2 DEF Tentative
  <2>5. ckrinfo[v] = Degrees(v, w)
    BY <1>1, <1>2 DEF InfoInv, Known, Exact
  <2>6. to \in DOMAIN Degrees(v, w).nbr
    BY <2>5
  <2> HIDE DEF w
  <2>7. to # w[v] /\ Degrees(v, w).nbr[to] = Into(v, w, to) /\ Degrees(v, w).id = Into(v, w, w[v])
    <3>1. to # w[v]
      BY <1>2, <2>6, ListIs
    <3>2. Listed(Degrees(v, w).nbr, to) = IF to = w[v] THEN 0 ELSE Into(v, w, to)
      BY <1>2, ListIs
    <3>3. Degrees(v, w).id = Into(v, w, w[v])
      BY DEF Degrees, Into, Near
    <3> QED BY <2>6, <3>1, <3>2, <3>3 DEF Listed
  <2> HIDE DEF x
  <2>8. OneMoves(v, w, x, Own(p) \union Ghosts(p))
    BY <2>4, <2>7 DEF OneMoves
  <2>9. cut = ckrinfo[v].nbr[to] - ckrinfo[v].id /\ ckrinfo[v].id = Into(v, w, w[v])
        /\ ckrinfo[v].nbr[to] = Into(v, w, x[v])
    BY <2>4, <2>5, <2>7
  <2>10. gain = AdaptiveGain(p, v, to)
    BY <2>4, <2>9 DEF AdaptiveGain
  <2> HIDE DEF cut, gain
  <2>11. /\ SeenCut(p, w) \in Int /\ cut \in Int /\ gain \in Int
         /\ SeenCut(p, x) = SeenCut(p, w) - cut
         /\ data \in Int
         /\ IpcFactor * SeenCut(p, x) + RedistFactor * Away(p, x) = data - gain
    BY <1>2, <2>8, MoveCost DEF cut, gain
  <2>12. Into(v, w, w[v]) \in Int /\ Into(v, w, x[v]) \in Int
    <3>1. Into(v, w, w[v]) \in Nat
      BY <1>2, IntoNat
    <3>2. Into(v, w, x[v]) \in Nat
      BY <1>2, IntoNat
    <3> QED BY <3>1, <3>2
  <2>13. refiner = "KWayFM" => 0 <= cut
    BY <2>9, <2>12 DEF GoodGoals
  <2>14. refiner = "KWayAdaptiveRefine" => 0 <= gain
    BY <2>10 DEF GoodGoals
  <2>15. ASSUME refiner # "KWayBalance" PROVE SeenCost(p, x) <= SeenCost(p, w) /\ SeenCost(p, w) \in Int
                                              /\ SeenCost(p, x) \in Int
    <3>1. CASE refiner = "KWayFM"
      <4>1. SeenCost(p, x) = SeenCut(p, x) /\ SeenCost(p, w) = SeenCut(p, w)
        BY <3>1 DEF SeenCost
      <4> QED BY <2>11, <2>13, <3>1, <4>1
    <3>2. CASE refiner = "KWayAdaptiveRefine"
      <4>1. /\ SeenCost(p, x) = IpcFactor * SeenCut(p, x) + RedistFactor * Away(p, x)
            /\ SeenCost(p, w) = data
        BY <3>2 DEF SeenCost
      <4> HIDE DEF data
      <4> QED BY <2>11, <2>14, <3>2, <4>1
    <3> QED BY <2>15, <3>1, <3>2
  <2>16. ASSUME NEW q \in PE, pc'[q] \in {"one", "commit"}, refiner' # "KWayBalance"
         PROVE  SeenCost(q, Tentative(q))' <= SeenCost(q, where[q])'
    <3>1. /\ SeenCost(q, where[q])' = SeenCost(q, where[q])
          /\ SeenCost(q, Tentative(q))' = SeenCost(q, Tentative(q)')
      BY <1>1 DEF SeenCost
    <3>2. SeenCost(q, Tentative(q)) <= SeenCost(q, where[q])
      BY <1>1, <2>16 DEF SeenCostNeverWorse
    <3>3. CASE q # p
      BY <2>3, <3>1, <3>2, <3>3
    <3>4. CASE q = p
      <4>1. SeenCost(p, where[p]) \in Int
        BY <2>16, SeenCostInt
      <4>2. SeenCost(p, w) <= SeenCost(p, where[p])
        BY <3>2, <3>4 DEF w
      <4>3. SeenCost(p, x) <= SeenCost(p, where[p])
        BY <1>1, <2>15, <2>16, <4>1, <4>2
      <4> QED BY <3>1, <3>4, <4>3 DEF x
    <3> QED BY <3>3, <3>4
  <2> QED BY <2>16 DEF SeenCostNeverWorse
<1> QED BY <1>3, <1>4 DEF Attempt

\* A move is made only when it gains or is free.
LEMMA GoalsGood ==
  ASSUME IInv, InfoInv, NEW p \in PE, NEW v \in Own(p), pc[p] = "one"
  PROVE  /\ refiner = "KWayFM" => GoodGoals(p, v, FMGoals(p, v))
         /\ refiner = "KWayAdaptiveRefine" => GoodGoals(p, v, AdaptiveGoals(p, v))
<1>1. v \in Vertex /\ ckrinfo[v] = Degrees(v, Tentative(p))
  BY OwnIs DEF InfoInv, Known, Exact
<1>2. ckrinfo[v].id \in Int
  BY <1>1 DEF InfoInv, InfoTyped
<1>3. \A to \in DOMAIN ckrinfo[v].nbr : ckrinfo[v].nbr[to] \in Int
  <2>1. IsList(Degrees(v, Tentative(p)).nbr)
    BY <1>1, ListIs
  <2>2. IsList(ckrinfo[v].nbr)
    BY <1>1, <2>1
  <2> QED BY <2>2 DEF IsList
<1>4. Candidates(p, v) \subseteq DOMAIN ckrinfo[v].nbr
  BY DEF Candidates
<1>5. ASSUME NEW to \in FMGoals(p, v) PROVE ckrinfo[v].id <= ckrinfo[v].nbr[to]
  <2> DEFINE gain == [a \in Candidates(p, v) |-> ckrinfo[v].nbr[a] - ckrinfo[v].id]
  <2>1. to \in Candidates(p, v) /\ (gain[to] > 0 \/ gain[to] = 0)
    BY DEF FMGoals, Best, Worthwhile
  <2> QED BY <1>2, <1>3, <1>4, <2>1
<1>6. ASSUME NEW to \in AdaptiveGoals(p, v) PROVE 0 <= AdaptiveGain(p, v, to)
  <2> DEFINE gain == [a \in Candidates(p, v) |-> AdaptiveGain(p, v, a)]
  <2>1. to \in Candidates(p, v) /\ (gain[to] > 0 \/ gain[to] = 0)
    BY DEF AdaptiveGoals, Best, Worthwhile
  <2>2. gain[to] = AdaptiveGain(p, v, to)
    BY <2>1
  <2>3. AdaptiveGain(p, v, to) \in Int
    <3>1. RedistFactor * VSize[v] \in Int /\ IpcFactor * (ckrinfo[v].nbr[to] - ckrinfo[v].id) \in Int
      BY <1>1, <1>2, <1>3, <1>4, <2>1, FactorAssumption
    <3> QED BY <3>1 DEF AdaptiveGain
  <2> HIDE DEF gain
  <2> QED BY <2>1, <2>2, <2>3
<1> QED BY <1>5, <1>6 DEF GoodGoals

LEMMA VisitCost ==
  ASSUME IInv, InfoInv, SeenCostNeverWorse, NEW p \in PE,
         FMVisit(p) \/ BalanceVisit(p) \/ AdaptiveVisit(p)
  PROVE  SeenCostNeverWorse'
<1>1. \A v \in todo[p] : v \in Own(p)
  BY DEF IInv, Typed
<1>2. CASE FMVisit(p)
  <2>1. refiner = "KWayFM" /\ \E v \in todo[p] : Attempt(p, v, FMGoals(p, v))
    BY <1>2 DEF FMVisit
  <2>2. PICK v \in todo[p] : Attempt(p, v, FMGoals(p, v))
    BY <2>1
  <2>3. pc[p] = "one"
    BY <2>2 DEF Attempt
  <2>4. GoodGoals(p, v, FMGoals(p, v))
    BY <1>1, <2>1, <2>3, GoalsGood
  <2> QED BY <2>1, <2>2, <2>4, GoalsListed, AttemptCost
<1>3. CASE AdaptiveVisit(p)
  <2>1. refiner = "KWayAdaptiveRefine" /\ \E v \in todo[p] : Attempt(p, v, AdaptiveGoals(p, v))
    BY <1>3, Zenon DEF AdaptiveVisit
  <2>2. PICK v \in todo[p] : Attempt(p, v, AdaptiveGoals(p, v))
    BY <2>1
  <2>3. pc[p] = "one"
    BY <2>2 DEF Attempt
  <2>4. GoodGoals(p, v, AdaptiveGoals(p, v))
    BY <1>1, <2>1, <2>3, GoalsGood
  <2> QED BY <2>1, <2>2, <2>4, GoalsListed, AttemptCost
<1>4. CASE BalanceVisit(p)
  <2>1. refiner' = "KWayBalance"
    BY <1>4 DEF BalanceVisit, Attempt, refiner
  <2> QED BY <2>1 DEF SeenCostNeverWorse
<1> QED BY <1>2, <1>3, <1>4

\* The other steps leave the PEs that are moving vertices as they are.
LEMMA CostStays ==
  ASSUME SeenCostNeverWorse, refiner' = refiner,
         \A q \in PE : pc'[q] \in {"one", "commit"} =>
           /\ pc[q] \in {"one", "commit"}
           /\ tmp_where'[q] = tmp_where[q] /\ where'[q] = where[q]
  PROVE  SeenCostNeverWorse'
<1> SUFFICES ASSUME NEW q \in PE, pc'[q] \in {"one", "commit"}, refiner' # "KWayBalance"
             PROVE  SeenCost(q, Tentative(q))' <= SeenCost(q, where[q])'
  BY DEF SeenCostNeverWorse
<1>1. Tentative(q)' = Tentative(q) /\ where'[q] = where[q]
  BY DEF Tentative
<1>2. SeenCost(q, Tentative(q)) <= SeenCost(q, where[q])
  BY DEF SeenCostNeverWorse
<1> QED BY <1>1, <1>2 DEF SeenCost

\* When a direction begins nothing has been moved.
LEMMA CostBegins ==
  ASSUME InfoInv, NEW old \in {"start", "sum"}, \A p \in PE : pc[p] = old,
         UNCHANGED <<program, where, tmp_where>>
  PROVE  SeenCostNeverWorse'
<1> SUFFICES ASSUME NEW q \in PE PROVE SeenCost(q, Tentative(q))' <= SeenCost(q, where[q])'
  BY DEF SeenCostNeverWorse
<1>1. Tentative(q)' = Tentative(q) /\ where'[q] = where[q] /\ refiner' = refiner
  BY DEF Tentative, refiner
<1>2. pc[q] \notin {"one", "commit"}
  OBVIOUS
<1>3. \A u \in Own(q) \union Ghosts(q) : Tentative(q)[u] = where[q][u]
  BY <1>2, NothingTentative
<1>4. SeenCost(q, Tentative(q)) = SeenCost(q, where[q])
  BY <1>3, CostSame DEF SeenCost
<1>5. SeenCost(q, where[q]) \in Int
  BY SeenCostInt
<1>6. SeenCost(q, Tentative(q))' = SeenCost(q, Tentative(q)) /\ SeenCost(q, where[q])' = SeenCost(q, where[q])
  BY <1>1 DEF SeenCost
<1> QED BY <1>4, <1>5, <1>6

LEMMA AnnounceCost ==
  ASSUME IInv, InfoInv, SeenCostNeverWorse, NEW p \in PE, NEW tmp, NEW info, NEW lnp, NEW kept,
         Announce(p, tmp, info, lnp, kept)
  PROVE  SeenCostNeverWorse'
<1>1. /\ program' = program /\ pc' = [pc EXCEPT ![p] = "where"]
      /\ tmp_where' = [tmp_where EXCEPT ![p] = tmp]
      /\ \E new : where' = [where EXCEPT ![p] = new]
  BY DEF Announce
<1>2. /\ DOMAIN pc = PE /\ tmp_where = [q \in PE |-> tmp_where[q]] /\ where = [q \in PE |-> where[q]]
  BY DEF IInv, Typed, InfoInv, Shape
<1>3. pc'[p] = "where" /\ \A q \in PE : q # p => /\ pc'[q] = pc[q] /\ tmp_where'[q] = tmp_where[q]
                                                 /\ where'[q] = where[q]
  BY <1>1, <1>2
<1>4. refiner' = refiner
  BY <1>1 DEF refiner
<1> QED BY <1>3, <1>4, CostStays

LEMMA RecomputeCost ==
  ASSUME IInv, InfoInv, SeenCostNeverWorse, NEW p \in PE, Recompute(p)
  PROVE  SeenCostNeverWorse'
<1>1. /\ program' = program /\ tmp_where' = tmp_where
      /\ \E phase \in {"supdate", "sum"} : pc' = [pc EXCEPT ![p] = phase]
      /\ where' = where \/ \E new : where' = [where EXCEPT ![p] = new]
  BY DEF Recompute, AskUpdates, Update
<1>2. DOMAIN pc = PE /\ where = [q \in PE |-> where[q]]
  BY DEF IInv, Typed, InfoInv, Shape
<1>3. pc'[p] \in {"supdate", "sum"} /\ \A q \in PE : q # p => pc'[q] = pc[q] /\ where'[q] = where[q]
  BY <1>1, <1>2
<1>4. refiner' = refiner
  BY <1>1 DEF refiner
<1> QED BY <1>1, <1>3, <1>4, CostStays

LEMMA CostSteps ==
  ASSUME IInv, InfoInv, SeenCostNeverWorse, [Next]_vars
  PROVE  SeenCostNeverWorse'
<1>1. ASSUME NEW p \in PE, CommitUndone(p) \/ BalanceCommit(p)
      PROVE  SeenCostNeverWorse'
  BY <1>1, AnnounceCost DEF CommitUndone, BalanceCommit
<1>2. ASSUME NEW p \in PE, FMStep(p) \/ BalanceStep(p) \/ AdaptiveStep(p)
      PROVE  SeenCostNeverWorse'
  BY <1>1, <1>2, VisitCost, RecomputeCost
     DEF FMStep, FMCommit, FMRecompute, BalanceStep, BalanceRecompute,
         AdaptiveStep, AdaptiveCommit, AdaptiveRecompute
<1>3. CASE FMReduce \/ AdaptiveReduce
  <2>1. /\ \A q \in PE : pc[q] = "one"
        /\ UNCHANGED <<program, where, tmp_where>>
    BY <1>3 DEF FMReduce, AdaptiveReduce, Sums
  <2>2. refiner' = refiner
    BY <2>1 DEF refiner
  <2> QED BY <2>1, <2>2, CostStays
<1>4. CASE StartPass
  <2>1. /\ \A q \in PE : pc[q] = "start"
        /\ UNCHANGED <<program, where, tmp_where>>
    BY <1>4 DEF StartPass
  <2> QED BY <2>1, CostBegins
<1>5. CASE NextDirection
  <2>1. /\ \A q \in PE : pc[q] = "sum"
        /\ UNCHANGED <<program, where, tmp_where>>
    BY <1>5 DEF NextDirection
  <2> QED BY <2>1, CostBegins
<1>6. CASE FMEndPass \/ BalanceEndPass \/ AdaptiveEndPass
  <2>1. \A q \in PE : pc'[q] \in {"start", "done"}
    BY <1>6 DEF FMEndPass, BalanceEndPass, AdaptiveEndPass, EndPass
  <2> QED BY <2>1 DEF SeenCostNeverWorse
<1>7. CASE UNCHANGED vars
  <2>1. UNCHANGED <<program, pc, where, tmp_where>>
    BY <1>7 DEF vars
  <2>2. refiner' = refiner
    BY <2>1 DEF refiner
  <2> QED BY <2>1, <2>2, CostStays
<1> QED BY <1>2, <1>3, <1>4, <1>5, <1>6, <1>7 DEF Next

\* No PE's moves of pass one make the cost worse as far as it can see it: each
\* move is weighed with the degrees after all moves before it.
THEOREM CostNeverWorse == Spec => []SeenCostNeverWorse
<1>1. Init => SeenCostNeverWorse
  BY DEF Init, SeenCostNeverWorse
<1>2. (IInv /\ InfoInv) /\ SeenCostNeverWorse /\ [Next]_vars => SeenCostNeverWorse'
  BY CostSteps
<1> QED BY <1>1, <1>2, InfoInvariance, PTL DEF Spec
==============================================================================
