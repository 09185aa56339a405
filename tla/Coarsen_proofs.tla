--------------------------- MODULE Coarsen_proofs ---------------------------
(***************************************************************************)
(* Contraction, for every distributed graph, every matching that           *)
(* MatchGlobal may leave and all interleavings of the PEs: the PEs agree   *)
(* on the numbers of the coarse vertices, and the coarse graph is the      *)
(* quotient of the graph by the matching (Contracted); both ends of an     *)
(* edge drop it or both keep it (DroppedAlike); and the way back keeps     *)
(* the cut and the weights of the parts (CutPreserved).                    *)
(***************************************************************************)
EXTENDS Coarsen, GraphFacts, TLAPS

Counting == {"count", "number"}
Before   == Counting \union {"away", "lists", "sizes", "collapse", "joined"}
Trimming == {"coarse", "noise", "median", "dropped"}
After    == {"project", "projected", "done"}

-----------------------------------------------------------------------------
(* What match says, whether or not the larger vertices of the local pairs  *)
(* carry KeepBit already: who is whose mate, and who makes the coarse      *)
(* vertex of the two.  From this follow the numbers.                       *)

mate   == [v \in Vertex |-> Partner(match[v])]
makers == {v \in Vertex : Keeps(match[v]) /\ ~(Owner[mate[v]] = Owner[v] /\ mate[v] < v)}
Makes(p) == makers \intersect Own(p)
maker  == [v \in Vertex |-> IF v \in makers THEN v ELSE mate[v]]

first == [p \in 0..npes |-> cvtxdist(p)]
rank  == [v \in Vertex |-> Cardinality({u \in Makes(Owner[v]) : u < v})]
num   == [v \in Vertex |-> first[Owner[maker[v]]] + rank[maker[v]]]

\* The vertices whose number their own PE knows at once.
Early == {v \in Vertex : v \in makers \/ Owner[mate[v]] = Owner[v]}
\* The vertices of q that go away to p.
Gone(q, p) == {v \in Own(q) : v \notin Early /\ Owner[mate[v]] = p}
\* The vertices of q that p makes coarse vertices of with vertices of its own.
Met(p, q) == {v \in Own(p) : v \in makers /\ p # q /\ Owner[mate[v]] = q}

Mated ==
  \A v \in Vertex :
    /\ mate[v] \in Vertex /\ match[v] \in {mate[v], mate[v] + KeepBit}
    /\ mate[mate[v]] = v
    /\ mate[v] = v => Keeps(match[v])
    /\ mate[v] # v /\ Owner[mate[v]] = Owner[v] =>
         (Keeps(match[v]) <=> v < mate[v] \/ pc[Owner[v]] \notin Counting)
    /\ Owner[mate[v]] # Owner[v] => /\ mate[v] \in Adj[v]
                                    /\ Keeps(match[mate[v]]) <=> ~Keeps(match[v])
    /\ mtype = "local" => Owner[mate[v]] = Owner[v]

Counted ==
  /\ counts = [p \in PE |-> IF pc[p] = "count" THEN -1 ELSE Cardinality(Makes(p))]
  /\ \A p \in PE : pc[p] \notin Counting => \A q \in PE : pc[q] # "count"

-----------------------------------------------------------------------------
(* Where everybody is.                                                     *)

Placed ==
  /\ pc \in [PE -> Before \union Trimming \union After]
  /\ mtype \in {"global", "local"}
  /\ \A p \in PE : mtype = "local" => pc[p] \notin {"away", "lists", "sizes", "collapse"}
  /\ \A p \in PE : mtype # "local" => pc[p] # "joined"
  \* Nobody goes on before the coarse graph is there everywhere.
  /\ \A p, q \in PE : pc[p] \in Before => pc[q] \in Before \union {"coarse"}
  /\ \A p, q \in PE : pc[p] \in After <=> pc[q] \in After

\* How many of the four messages p has sent, and taken, where there are any.
sent == [p \in PE |->
  IF pc[p] \in Counting THEN 0
  ELSE IF mtype = "local" \/ pc[p] = "away" THEN 1
  ELSE IF pc[p] = "lists" THEN 2
  ELSE IF pc[p] = "sizes" THEN 3 ELSE 4]
took == [p \in PE |->
  IF pc[p] \in Counting \union {"away", "joined"} THEN 0
  ELSE IF mtype = "local" \/ pc[p] = "lists" THEN 1
  ELSE IF pc[p] = "sizes" THEN 2
  ELSE IF pc[p] = "collapse" THEN 3 ELSE 4]

InStep ==
  \A p \in PE : \A q \in Nbrs(p) :
    /\ took[p] >= 1 => sent[q] >= 1
    /\ took[p] >= 2 => sent[q] >= 2
    /\ took[p] >= 3 /\ Gone(q, p) # {} => sent[q] >= took[p]

-----------------------------------------------------------------------------
(* What everybody knows.                                                   *)

Numbers ==
  /\ cmap = [p \in PE |-> [v \in Own(p) \union Ghosts(p) |-> cmap[p][v]]]
  /\ \A p \in PE : \A v \in Own(p) \union Ghosts(p) :
       CASE pc[p] \in Counting -> cmap[p][v] = -1
         [] pc[p] \in {"away", "joined"} ->
              v \in Own(p) => cmap[p][v] = IF v \in Early THEN num[v] ELSE -1
         [] pc[p] = "lists" -> v \in Own(p) => cmap[p][v] = num[v]
         [] OTHER -> cmap[p][v] = num[v]

Exchange ==
  /\ scand = [p \in PE |-> scand[p]] /\ rcand = [p \in PE |-> rcand[p]]
  /\ \A p \in PE : pc[p] \in {"sizes", "collapse"} =>
       /\ scand[p] = [q \in PE |-> Gone(p, q)]
       /\ rcand[p] = [q \in PE |-> {[key |-> mate[v], val |-> num[v]] : v \in Met(p, q)}]

\* What is in the lists that a coarse vertex is made of.
List(u) == [vwgt |-> VWgt[u], edges |-> [x \in Adj[u] |-> num[x]]]
Team(c) == {v \in Vertex : num[v] = c}
Whole(c) == Collapse(c, [u \in Team(c) |-> List(u)])
Nums(p) == {num[v] : v \in Makes(p)}

Coarse ==
  /\ cgraph = [p \in PE |-> cgraph[p]]
  /\ \A p \in PE : pc[p] \in {"coarse", "noise", "median"} =>
       cgraph[p] = [c \in Nums(p) |-> Whole(c)]

-----------------------------------------------------------------------------
(* What is on its way.                                                     *)

M1(q, p) == [v \in Send(q, p) |-> IF v \in Early THEN num[v] ELSE -1]
M2(q, p) == [v \in Send(q, p) |-> num[v]]
M3(q, p) == [phase |-> "sizes", size |-> ssizes(Gone(q, p))]
M4(q, p) == [phase |-> "lists", list |-> [v \in Gone(q, p) |-> List(v)]]

\* What is left of the s messages sent when t are taken.
Left(s, t, gone, m1, m2, m3, m4) ==
  IF t = 0 THEN IF s = 0 THEN <<>> ELSE IF s = 1 THEN <<m1>> ELSE <<m1, m2>>
  ELSE IF t = 1 THEN IF s = 1 THEN <<>>
                     ELSE IF s = 2 \/ gone = {} THEN <<m2>>
                     ELSE IF s = 3 THEN <<m2, m3>> ELSE <<m2, m3, m4>>
  ELSE IF gone = {} THEN <<>>
  ELSE IF t = 2 THEN IF s = 2 THEN <<>> ELSE IF s = 3 THEN <<m3>> ELSE <<m3, m4>>
  ELSE IF t = 3 THEN IF s = 3 THEN <<>> ELSE <<m4>>
  ELSE <<>>

Queue(q, p) ==
  Left(sent[q], took[p], Gone(q, p), M1(q, p), M2(q, p), M3(q, p), M4(q, p))

Queues4 ==
  (\A r \in PE : pc[r] \in Before \union {"coarse"}) =>
    /\ chan = [q \in PE |-> [p \in PE |-> chan[q][p]]]
    /\ \A p, q \in PE : chan[q][p] = IF q \in Nbrs(p) THEN Queue(q, p) ELSE <<>>

IInv == /\ Mated /\ Counted /\ Placed /\ InStep
        /\ Numbers /\ Exchange /\ Coarse /\ Queues4

-----------------------------------------------------------------------------
(* Mates and makers.                                                       *)

LEMMA VerticesAre == \A v \in Vertex : v \in Nat /\ v < KeepBit /\ KeepBit \in Nat
BY VertexAssumption, KeepAssumption

LEMMA MatchIs ==
  ASSUME Mated, NEW v \in Vertex
  PROVE  /\ mate[v] \in Vertex /\ mate[mate[v]] = v
         /\ match[v] = IF Keeps(match[v]) THEN mate[v] + KeepBit ELSE mate[v]
<1>1. mate[v] \in Vertex /\ match[v] \in {mate[v], mate[v] + KeepBit} /\ mate[mate[v]] = v
  BY DEF Mated
<1>2. mate[v] \in Nat /\ mate[v] < KeepBit /\ KeepBit \in Nat
  BY <1>1, VerticesAre
<1> QED BY <1>1, <1>2 DEF Keeps

LEMMA MakersAre ==
  ASSUME Mated, NEW v \in Vertex
  PROVE  v \in makers <=> IF Owner[mate[v]] = Owner[v] THEN v <= mate[v] ELSE Keeps(match[v])
<1>1. mate[v] \in Vertex /\ mate[v] \in Nat /\ v \in Nat
  BY MatchIs, VerticesAre
<1>2. mate[v] = v => Keeps(match[v])
  BY DEF Mated
<1>3. mate[v] # v /\ Owner[mate[v]] = Owner[v] /\ v < mate[v] => Keeps(match[v])
  BY DEF Mated
<1> QED BY <1>1, <1>2, <1>3 DEF makers

\* Of two mates one makes the coarse vertex.
LEMMA Pairs ==
  ASSUME Mated, NEW v \in Vertex
  PROVE  /\ mate[v] \in Vertex /\ mate[mate[v]] = v
         /\ mate[v] = v => v \in makers
         /\ mate[v] # v => (mate[v] \in makers <=> v \notin makers)
         /\ maker[v] \in makers /\ maker[v] \in {v, mate[v]} /\ maker[v] \in Vertex
         /\ maker[mate[v]] = maker[v]
<1>1. mate[v] \in Vertex /\ mate[mate[v]] = v /\ mate[v] \in Nat /\ v \in Nat
  BY MatchIs, VerticesAre
<1>2. v \in makers <=> IF Owner[mate[v]] = Owner[v] THEN v <= mate[v] ELSE Keeps(match[v])
  BY MakersAre
<1>3. mate[v] \in makers <=>
        IF Owner[v] = Owner[mate[v]] THEN mate[v] <= v ELSE Keeps(match[mate[v]])
  BY <1>1, MakersAre
<1>4. Owner[mate[v]] # Owner[v] => (Keeps(match[mate[v]]) <=> ~Keeps(match[v]))
  BY DEF Mated
<1>5. mate[v] = v => v \in makers
  BY <1>1, <1>2
<1>6. mate[v] # v => (mate[v] \in makers <=> v \notin makers)
  BY <1>1, <1>2, <1>3, <1>4
<1>7. /\ maker[v] = IF v \in makers THEN v ELSE mate[v]
      /\ maker[mate[v]] = IF mate[v] \in makers THEN mate[v] ELSE v
  BY <1>1 DEF maker
<1> QED BY <1>1, <1>5, <1>6, <1>7

LEMMA MakerIs ==
  ASSUME Mated, NEW u \in Vertex, NEW v \in Vertex
  PROVE  maker[u] = maker[v] <=> u = v \/ u = mate[v]
<1>1. u = mate[v] => maker[u] = maker[v]
  BY Pairs
<1>2. maker[u] \in {u, mate[u]} /\ maker[v] \in {v, mate[v]}
  BY Pairs
<1>3. mate[mate[u]] = u /\ mate[mate[v]] = v
  BY Pairs
<1> QED BY <1>1, <1>2, <1>3

\* The owner of the maker knows the number at once, the other PE has it sent.
LEMMA EarlyAre ==
  ASSUME Mated, NEW v \in Vertex
  PROVE  /\ v \in Early <=> Owner[maker[v]] = Owner[v]
         /\ v \notin Early => /\ v \notin makers /\ maker[v] = mate[v] /\ mate[v] \in makers
                              /\ mate[v] \in Early /\ mate[v] \in Adj[v] /\ Owner[mate[v]] # Owner[v]
                              /\ ~Keeps(match[v]) /\ match[v] = mate[v]
<1>1. maker[v] = IF v \in makers THEN v ELSE mate[v]
  BY DEF maker
<1>2. v \in Early <=> v \in makers \/ Owner[mate[v]] = Owner[v]
  BY DEF Early
<1>3. v \in Early <=> Owner[maker[v]] = Owner[v]
  BY <1>1, <1>2
<1>4. ASSUME v \notin Early
      PROVE  /\ v \notin makers /\ maker[v] = mate[v] /\ mate[v] \in makers
             /\ mate[v] \in Early /\ mate[v] \in Adj[v] /\ Owner[mate[v]] # Owner[v]
             /\ ~Keeps(match[v]) /\ match[v] = mate[v]
  <2>1. v \notin makers /\ Owner[mate[v]] # Owner[v] /\ maker[v] = mate[v]
    BY <1>1, <1>2, <1>4
  <2>2. mate[v] \in Vertex /\ mate[v] \in makers
    BY <2>1, Pairs
  <2>3. mate[v] \in Adj[v]
    BY <2>1 DEF Mated
  <2>4. ~Keeps(match[v])
    BY <2>1, MakersAre
  <2>5. match[v] = mate[v]
    BY <2>4, MatchIs
  <2>6. mate[v] \in Early
    BY <2>2 DEF Early
  <2> QED BY <2>1, <2>2, <2>3, <2>4, <2>5, <2>6
<1> QED BY <1>3, <1>4

\* Once a PE has numbered its vertices, KeepBit tells what it has.
LEMMA KeepsEarly ==
  ASSUME Mated, NEW v \in Vertex, pc[Owner[v]] \notin Counting
  PROVE  Keeps(match[v]) <=> v \in Early
<1>1. mate[v] = v => Keeps(match[v]) /\ v \in Early
  BY Pairs DEF Mated, Early
<1>2. mate[v] # v /\ Owner[mate[v]] = Owner[v] => Keeps(match[v]) /\ v \in Early
  BY DEF Mated, Early
<1>3. Owner[mate[v]] # Owner[v] => (Keeps(match[v]) <=> v \in Early)
  BY MakersAre DEF Early
<1> QED BY <1>1, <1>2, <1>3

LEMMA MakesAre == \A p \in PE : \A v : v \in Makes(p) <=> v \in Own(p) /\ v \in makers
BY DEF Makes

LEMMA MakesFinite == \A p \in PE : IsFiniteSet(Makes(p)) /\ Makes(p) \subseteq Int /\ Makes(p) \subseteq Vertex
<1> SUFFICES ASSUME NEW p \in PE
             PROVE  IsFiniteSet(Makes(p)) /\ Makes(p) \subseteq Int /\ Makes(p) \subseteq Vertex
  OBVIOUS
<1>1. Makes(p) \in SUBSET Vertex
  BY MakesAre, OwnIs
<1>2. Makes(p) \subseteq Int
  BY <1>1, VerticesAre
<1>3. IsFiniteSet(Makes(p))
  BY <1>1, FiniteAssumption, FS_Subset
<1> QED BY <1>1, <1>2, <1>3

-----------------------------------------------------------------------------
(* The numbers of the coarse vertices.                                     *)

AllCounted == \A q \in PE : pc[q] # "count"

\* The ranges of the PEs.
LEMMA Ranges ==
  ASSUME Counted, AllCounted
  PROVE  /\ \A p \in PE : counts[p] = Cardinality(Makes(p)) /\ counts[p] \in Nat
         /\ \A p \in 0..npes : first[p] \in Nat
         /\ \A p, q \in PE : p < q => first[p] + counts[p] <= first[q]
         /\ \A p \in PE : first[p] + counts[p] <= first[npes]
         /\ \A c \in 0..(first[npes] - 1) :
              \E p \in PE : first[p] <= c /\ c < first[p] + counts[p]
         /\ ncoarse = first[npes]
<1>1. npes \in Nat /\ PE = 0..(npes - 1)
  BY NpesAssumption DEF PE
<1>2. \A p \in PE : counts[p] = Cardinality(Makes(p)) /\ counts[p] \in Nat
  BY MakesFinite, FS_CardinalityType DEF Counted, AllCounted
<1>3. \A p \in 0..npes : first[p] = SumFunctionOnSet(counts, 0..(p - 1))
  BY DEF first, cvtxdist
<1>4. \A p \in 0..(npes - 1) : counts[p] \in Nat
  BY <1>1, <1>2
<1>5. /\ \A p \in 0..npes : first[p] \in Nat
      /\ \A p \in 0..(npes - 1) : first[p + 1] = first[p] + counts[p]
      /\ \A p, q \in 0..npes : p < q => first[p] + counts[p] <= first[q]
      /\ \A c \in 0..(first[npes] - 1) :
           \E p \in 0..(npes - 1) : first[p] <= c /\ c < first[p] + counts[p]
  BY <1>1, <1>3, <1>4, PrefixSums
<1>6. DOMAIN counts = PE
  BY DEF Counted
<1>7. ncoarse = first[npes]
  <2>1. npes \in 0..npes
    BY <1>1
  <2>2. first[npes] = SumFunctionOnSet(counts, PE)
    BY <1>1, <1>3, <2>1
  <2> QED BY <1>6, <2>2 DEF ncoarse, SumFunction
<1>8. \A p \in PE : p \in 0..npes /\ p < npes
  BY <1>1
<1>9. npes \in 0..npes
  BY <1>1
<1> QED BY <1>1, <1>2, <1>5, <1>7, <1>8, <1>9

LEMMA NumsAre ==
  ASSUME Mated, Counted, AllCounted
  PROVE  /\ \A v \in Vertex : /\ num[v] \in 0..(ncoarse - 1) /\ num[v] \in Nat
                              /\ first[Owner[maker[v]]] <= num[v]
                              /\ num[v] < first[Owner[maker[v]]] + counts[Owner[maker[v]]]
         /\ \A u, v \in Vertex : num[u] = num[v] <=> u = v \/ u = mate[v]
         /\ \A c \in 0..(ncoarse - 1) : \E v \in makers : num[v] = c
<1>1. \A v \in Vertex : /\ maker[v] \in makers /\ maker[v] \in Vertex
                        /\ Owner[maker[v]] \in PE /\ maker[v] \in Makes(Owner[maker[v]])
  BY Pairs, OwnerIn, MakesAre
<1>2. \A p \in PE : /\ Cardinality(Makes(p)) \in Nat
                    /\ \A v \in Makes(p) : rank[v] \in 0..(Cardinality(Makes(p)) - 1)
                    /\ \A u, v \in Makes(p) : rank[u] = rank[v] => u = v
                    /\ \A m \in 0..(Cardinality(Makes(p)) - 1) : \E v \in Makes(p) : rank[v] = m
  <2> SUFFICES ASSUME NEW p \in PE
               PROVE  /\ Cardinality(Makes(p)) \in Nat
                      /\ \A v \in Makes(p) : rank[v] \in 0..(Cardinality(Makes(p)) - 1)
                      /\ \A u, v \in Makes(p) : rank[u] = rank[v] => u = v
                      /\ \A m \in 0..(Cardinality(Makes(p)) - 1) : \E v \in Makes(p) : rank[v] = m
    OBVIOUS
  <2>1. \A v \in Makes(p) : v \in Vertex /\ Owner[v] = p
    BY MakesAre, OwnIs
  <2>2. \A v \in Makes(p) : rank[v] = Cardinality({u \in Makes(p) : u < v})
    BY <2>1 DEF rank
  <2> QED BY <2>2, MakesFinite, Ranks
<1>3. \A v \in Vertex : num[v] = first[Owner[maker[v]]] + rank[maker[v]]
  BY DEF num
<1>4. /\ \A p \in PE : counts[p] = Cardinality(Makes(p)) /\ counts[p] \in Nat
      /\ \A p \in PE : first[p] \in Nat
      /\ \A p, q \in PE : p < q => first[p] + counts[p] <= first[q]
      /\ \A p \in PE : first[p] + counts[p] <= first[npes]
      /\ \A c \in 0..(first[npes] - 1) : \E p \in PE : first[p] <= c /\ c < first[p] + counts[p]
      /\ ncoarse = first[npes] /\ first[npes] \in Nat
  <2>1. PE \subseteq 0..npes /\ npes \in 0..npes
    BY NpesAssumption DEF PE
  <2> QED BY <2>1, Ranges
<1>5. ASSUME NEW v \in Vertex
      PROVE  /\ num[v] \in 0..(ncoarse - 1) /\ num[v] \in Nat
             /\ first[Owner[maker[v]]] <= num[v]
             /\ num[v] < first[Owner[maker[v]]] + counts[Owner[maker[v]]]
  <2> DEFINE p == Owner[maker[v]]
             r == rank[maker[v]]
  <2>1. p \in PE /\ r \in 0..(Cardinality(Makes(p)) - 1)
    BY <1>1, <1>2
  <2>2. num[v] = first[p] + r
    BY <1>3
  <2> HIDE DEF p, r
  <2>3. first[p] \in Nat /\ counts[p] \in Nat /\ counts[p] = Cardinality(Makes(p))
        /\ first[p] + counts[p] <= first[npes]
    BY <1>4, <2>1
  <2>4. first[p] <= num[v] /\ num[v] < first[p] + counts[p] /\ num[v] \in Nat /\ num[v] < ncoarse
    BY <1>4, <2>1, <2>2, <2>3
  <2>5. num[v] \in 0..(ncoarse - 1)
    BY <1>4, <2>4
  <2> QED BY <2>4, <2>5 DEF p
<1>6. ASSUME NEW u \in Vertex, NEW v \in Vertex
      PROVE  num[u] = num[v] <=> u = v \/ u = mate[v]
  <2>1. maker[u] = maker[v] => num[u] = num[v]
    BY <1>3
  <2>2. ASSUME num[u] = num[v] PROVE maker[u] = maker[v]
    <3> DEFINE p == Owner[maker[u]]
               q == Owner[maker[v]]
    <3>1. p \in PE /\ q \in PE
      BY <1>1
    <3>2. /\ first[p] <= num[u] /\ num[u] < first[p] + counts[p]
          /\ first[q] <= num[u] /\ num[u] < first[q] + counts[q]
      BY <1>5, <2>2
    <3>3. num[u] \in Nat /\ num[u] = first[p] + rank[maker[u]] /\ num[u] = first[q] + rank[maker[v]]
      BY <1>3, <1>5, <2>2
    <3>4. maker[u] \in Makes(p) /\ maker[v] \in Makes(q)
      BY <1>1
    <3> HIDE DEF p, q
    <3>5. first[p] \in Nat /\ counts[p] \in Nat /\ first[q] \in Nat /\ counts[q] \in Nat
          /\ (p < q => first[p] + counts[p] <= first[q])
          /\ (q < p => first[q] + counts[q] <= first[p])
      BY <1>4, <3>1
    <3>6. ~(p < q) /\ ~(q < p)
      BY <3>2, <3>3, <3>5
    <3>7. p = q
      <4>1. p \in Int /\ q \in Int
        BY <3>1 DEF PE
      <4> QED BY <3>6, <4>1
    <3>8. rank[maker[u]] \in Nat /\ rank[maker[v]] \in Nat
      BY <1>2, <3>1, <3>4
    <3>9. rank[maker[u]] = rank[maker[v]]
      <4> DEFINE a == first[p]
                 i == rank[maker[u]]
                 j == rank[maker[v]]
      <4>1. a + i = a + j /\ a \in Nat /\ i \in Nat /\ j \in Nat
        BY <3>3, <3>5, <3>7, <3>8
      <4> HIDE DEF a, i, j
      <4>2. i = j
        BY <4>1
      <4> QED BY <4>2 DEF i, j
    <3> QED BY <1>2, <3>1, <3>4, <3>7, <3>9
  <2> QED BY <2>1, <2>2, MakerIs
<1>7. ASSUME NEW c \in 0..(ncoarse - 1) PROVE \E v \in makers : num[v] = c
  <2>1. PICK p \in PE : first[p] <= c /\ c < first[p] + counts[p]
    BY <1>4
  <2>2. c \in Nat /\ first[p] \in Nat /\ counts[p] \in Nat /\ counts[p] = Cardinality(Makes(p))
    BY <1>4
  <2>3. c - first[p] \in 0..(Cardinality(Makes(p)) - 1)
    BY <2>1, <2>2
  <2>4. PICK v \in Makes(p) : rank[v] = c - first[p]
    BY <1>2, <2>3
  <2>5. v \in makers /\ v \in Vertex /\ Owner[v] = p
    BY MakesAre, OwnIs
  <2>6. maker[v] = v
    BY <2>5 DEF maker
  <2>7. num[v] = first[p] + (c - first[p])
    BY <1>3, <2>4, <2>5, <2>6
  <2> QED BY <2>2, <2>5, <2>7
<1> QED BY <1>5, <1>6, <1>7
-----------------------------------------------------------------------------
(* The quotient.                                                           *)

\* A set of edges weighs something unless it is empty.
LEMMA EdgesWeighIs ==
  ASSUME NEW E, E \subseteq {e \in Vertex \X Vertex : e[2] \in Adj[e[1]]}
  PROVE  /\ IsFiniteSet(E) /\ EdgesWeigh(E) \in Nat
         /\ EdgesWeigh(E) > 0 <=> E # {}
<1> DEFINE f == [e \in E |-> AdjWgt[e[1]][e[2]]]
<1>1. IsFiniteSet(E)
  <2>1. IsFiniteSet(Vertex \X Vertex)
    BY FiniteAssumption, FS_Product
  <2>2. E \in SUBSET (Vertex \X Vertex)
    OBVIOUS
  <2> QED BY <2>1, <2>2, FS_Subset
<1>2. \A e \in E : f[e] \in Nat \ {0}
  <2> SUFFICES ASSUME NEW e \in E PROVE AdjWgt[e[1]][e[2]] \in Nat \ {0}
    OBVIOUS
  <2>1. e[1] \in Vertex /\ e[2] \in Adj[e[1]]
    OBVIOUS
  <2> QED BY <2>1, WeightAssumption
<1>3. EdgesWeigh(E) = SumFunctionOnSet(f, E)
  BY DEF EdgesWeigh, SumFunction
<1> HIDE DEF f
<1>4. \A e \in E : f[e] \in Nat /\ f[e] \in Int /\ f[e] > 0
  BY <1>2
<1>5. EdgesWeigh(E) \in Nat
  BY <1>1, <1>3, <1>4, SumNat
<1>6. ASSUME NEW y \in E PROVE EdgesWeigh(E) > 0
  <2>1. SumFunctionOnSet(f, E) = f[y] + SumFunctionOnSet(f, E \ {y})
    BY <1>1, <1>4, SumTakes
  <2>2. E \ {y} \in SUBSET E /\ \A e \in E \ {y} : f[e] \in Nat
    BY <1>4
  <2>3. SumFunctionOnSet(f, E \ {y}) \in Nat
    BY <1>1, <2>2, FS_Subset, SumNat
  <2>4. f[y] \in Nat /\ f[y] > 0
    BY <1>4
  <2> QED BY <1>3, <2>1, <2>3, <2>4
<1>7. E = {} => EdgesWeigh(E) = 0
  BY <1>3, SumEmpty
<1> QED BY <1>1, <1>5, <1>6, <1>7

LEMMA BetweenIs ==
  ASSUME NEW A \in SUBSET Vertex, NEW B \in SUBSET Vertex
  PROVE  /\ Between(A, B) \in Nat
         /\ Between(A, B) > 0 <=> \E v \in A : \E u \in B : u \in Adj[v]
<1> DEFINE E == {e \in A \X B : e[2] \in Adj[e[1]]}
<1>1. E \subseteq {e \in Vertex \X Vertex : e[2] \in Adj[e[1]]}
  OBVIOUS
<1>2. E # {} <=> \E v \in A : \E u \in B : u \in Adj[v]
  <2>1. ASSUME NEW v \in A, NEW u \in B, u \in Adj[v] PROVE <<v, u>> \in E
    BY <2>1
  <2>2. \A e \in E : e[1] \in A /\ e[2] \in B /\ e[2] \in Adj[e[1]]
    OBVIOUS
  <2> HIDE DEF E
  <2> QED BY <2>1, <2>2
<1>3. Between(A, B) = EdgesWeigh(E)
  BY DEF Between
<1> HIDE DEF E
<1> QED BY <1>1, <1>2, <1>3, EdgesWeighIs

\* What is collapsed from the lists of a team.
LEMMA WholeIs ==
  ASSUME NEW c
  PROVE  /\ Whole(c) = [vwgt |-> Whole(c).vwgt, adj |-> Whole(c).adj]
         /\ Whole(c).vwgt = SumFunctionOnSet(VWgt, Team(c))
         /\ DOMAIN Whole(c).adj = (UNION {{num[u] : u \in Adj[v]} : v \in Team(c)}) \ {c}
         /\ Whole(c).adj = [d \in DOMAIN Whole(c).adj |-> Between(Team(c), Team(d))]
<1> DEFINE lists == [u \in Team(c) |-> List(u)]
           Slots == UNION {{<<v, u>> : u \in DOMAIN lists[v].edges} : v \in DOMAIN lists}
           end(e) == lists[e[1]].edges[e[2]]
           weights == [v \in DOMAIN lists |-> lists[v].vwgt]
<1>1. Whole(c) = [vwgt |-> SumFunction(weights),
                  adj |-> [d \in {end(e) : e \in Slots} \ {c} |-> EdgesWeigh({e \in Slots : end(e) = d})]]
  BY DEF Whole, Collapse
<1>2. /\ DOMAIN lists = Team(c)
      /\ \A v \in Team(c) : /\ lists[v].vwgt = VWgt[v] /\ DOMAIN lists[v].edges = Adj[v]
                            /\ \A u \in Adj[v] : lists[v].edges[u] = num[u]
  BY DEF List
<1>3. Slots = UNION {{<<v, u>> : u \in Adj[v]} : v \in Team(c)}
  <2>1. \A v \in Team(c) : {<<v, u>> : u \in DOMAIN lists[v].edges} = {<<v, u>> : u \in Adj[v]}
    <3> HIDE DEF lists
    <3> QED BY <1>2
  <2>2. {{<<v, u>> : u \in DOMAIN lists[v].edges} : v \in Team(c)} = {{<<v, u>> : u \in Adj[v]} : v \in Team(c)}
    <3> HIDE DEF lists
    <3> QED BY <2>1
  <2> HIDE DEF lists
  <2> QED BY <1>2, <2>2
<1>4. Team(c) \subseteq Vertex /\ \A v \in Vertex : Adj[v] \subseteq Vertex
  BY AdjAssumption DEF Team
<1>5. \A v, u : <<v, u>> \in Slots <=> v \in Team(c) /\ u \in Adj[v]
  <2> SUFFICES ASSUME NEW v, NEW u PROVE <<v, u>> \in Slots <=> v \in Team(c) /\ u \in Adj[v]
    OBVIOUS
  <2>1. ASSUME <<v, u>> \in Slots PROVE v \in Team(c) /\ u \in Adj[v]
    <3> HIDE DEF lists, Slots
    <3>1. PICK w \in Team(c) : <<v, u>> \in {<<w, x>> : x \in Adj[w]}
      BY <1>3, <2>1
    <3>2. PICK x \in Adj[w] : <<v, u>> = <<w, x>>
      BY <3>1
    <3>3. v = w /\ u = x
      BY <3>2
    <3> QED BY <3>3
  <2>2. ASSUME v \in Team(c), u \in Adj[v] PROVE <<v, u>> \in Slots
    <3> HIDE DEF lists, Slots
    <3>1. <<v, u>> \in {<<v, x>> : x \in Adj[v]}
      BY <2>2
    <3> QED BY <1>3, <2>2, <3>1
  <2> QED BY <2>1, <2>2
<1>6. \A e \in Slots : e = <<e[1], e[2]>> /\ e[1] \in Team(c) /\ e[2] \in Adj[e[1]] /\ e[2] \in Vertex
  <2> SUFFICES ASSUME NEW e \in Slots
               PROVE  e = <<e[1], e[2]>> /\ e[1] \in Team(c) /\ e[2] \in Adj[e[1]] /\ e[2] \in Vertex
    OBVIOUS
  <2>1. PICK v \in Team(c) : \E u \in Adj[v] : e = <<v, u>>
    BY <1>3
  <2>2. PICK u \in Adj[v] : e = <<v, u>>
    BY <2>1
  <2> QED BY <1>4, <2>2
<1>7. \A e \in Slots : end(e) = num[e[2]]
  <2> HIDE DEF lists, Slots
  <2> QED BY <1>2, <1>6
<1>8. Whole(c).vwgt = SumFunctionOnSet(VWgt, Team(c))
  <2>1. IsFiniteSet(Team(c))
    BY <1>4, FiniteAssumption, FS_Subset
  <2>2. DOMAIN weights = Team(c) /\ \A v \in Team(c) : weights[v] = VWgt[v]
    <3> HIDE DEF lists
    <3> QED BY <1>2
  <2>3. Whole(c).vwgt = SumFunction(weights)
    BY <1>1
  <2> HIDE DEF weights, Slots, lists
  <2>4. SumFunctionOnSet(weights, Team(c)) = SumFunctionOnSet(VWgt, Team(c))
    BY <2>1, <2>2, SumSame
  <2> QED BY <2>2, <2>3, <2>4 DEF SumFunction
<1>9. {end(e) : e \in Slots} = UNION {{num[u] : u \in Adj[v]} : v \in Team(c)}
  <2>1. ASSUME NEW e \in Slots PROVE end(e) \in UNION {{num[u] : u \in Adj[v]} : v \in Team(c)}
    <3> HIDE DEF Slots, lists, end
    <3> QED BY <1>6, <1>7
  <2>2. ASSUME NEW v \in Team(c), NEW u \in Adj[v] PROVE num[u] \in {end(e) : e \in Slots}
    <3> HIDE DEF Slots, lists, end
    <3>1. <<v, u>> \in Slots /\ end(<<v, u>>) = num[u]
      BY <1>5, <1>7
    <3> QED BY <3>1
  <2> HIDE DEF Slots, lists, end
  <2> QED BY <2>1, <2>2
<1>10. ASSUME NEW d PROVE {e \in Slots : end(e) = d} = {e \in Team(c) \X Team(d) : e[2] \in Adj[e[1]]}
  <2>1. ASSUME NEW e \in Slots, end(e) = d PROVE e \in Team(c) \X Team(d) /\ e[2] \in Adj[e[1]]
    <3>1. e[2] \in Team(d)
      <4> HIDE DEF Slots, lists, end
      <4> QED BY <1>6, <1>7, <2>1 DEF Team
    <3> HIDE DEF Slots, lists, end
    <3> QED BY <1>6, <3>1
  <2>2. ASSUME NEW v \in Team(c), NEW u \in Team(d), u \in Adj[v]
        PROVE  <<v, u>> \in Slots /\ end(<<v, u>>) = d
    <3>1. num[u] = d
      BY DEF Team
    <3> HIDE DEF Slots, lists, end
    <3> QED BY <1>5, <1>7, <2>2, <3>1
  <2> HIDE DEF Slots, lists, end
  <2> QED BY <2>1, <2>2
<1>11. /\ Whole(c) = [vwgt |-> Whole(c).vwgt, adj |-> Whole(c).adj]
       /\ Whole(c).adj = [d \in {end(e) : e \in Slots} \ {c} |-> EdgesWeigh({e \in Slots : end(e) = d})]
  <2> HIDE DEF Slots, lists, end
  <2> QED BY <1>1
<1> HIDE DEF Slots, lists, end, weights
<1>12. DOMAIN Whole(c).adj = {end(e) : e \in Slots} \ {c}
  BY <1>11
<1>13. \A d : EdgesWeigh({e \in Slots : end(e) = d}) = Between(Team(c), Team(d))
  BY <1>10 DEF Between
<1>14. Whole(c).adj = [d \in DOMAIN Whole(c).adj |-> Between(Team(c), Team(d))]
  BY <1>11, <1>12, <1>13
<1> QED BY <1>8, <1>9, <1>11, <1>12, <1>14

\* The edges of a coarse vertex go where edges of its team go.
LEMMA EdgesAre ==
  ASSUME Mated, Counted, AllCounted, NEW c, NEW d \in 0..(ncoarse - 1)
  PROVE  d \in DOMAIN Whole(c).adj <=> d # c /\ Between(Team(c), Team(d)) > 0
<1>1. Team(c) \in SUBSET Vertex /\ Team(d) \in SUBSET Vertex
  BY DEF Team
<1>2. Between(Team(c), Team(d)) > 0 <=> \E v \in Team(c) : \E u \in Team(d) : u \in Adj[v]
  BY <1>1, BetweenIs
<1>3. d \in DOMAIN Whole(c).adj <=> d # c /\ \E v \in Team(c) : \E u \in Adj[v] : num[u] = d
  <2> DEFINE ends(v) == {num[u] : u \in Adj[v]}
  <2>1. DOMAIN Whole(c).adj = (UNION {ends(v) : v \in Team(c)}) \ {c}
    BY WholeIs, Zenon
  <2>2. \A v : d \in ends(v) <=> \E u \in Adj[v] : num[u] = d
    OBVIOUS
  <2> HIDE DEF ends
  <2> QED BY <2>1, <2>2
<1>4. \A v \in Team(c) : \A u \in Adj[v] : u \in Team(d) <=> num[u] = d
  BY <1>1, AdjAssumption DEF Team
<1> QED BY <1>2, <1>3, <1>4

\* Whoever keeps the list makes the coarse vertex.
LEMMA KeeperIs == ASSUME Mated, NEW v \in Vertex PROVE Keeper(v) = Owner[maker[v]]
<1>1. v \in makers => Keeps(match[v]) /\ maker[v] = v
  BY DEF makers, maker
<1>2. v \notin makers => maker[v] = mate[v]
  BY DEF maker
<1>3. ~Keeps(match[v]) => match[v] = mate[v]
  BY MatchIs
<1>4. v \notin makers /\ Keeps(match[v]) => Owner[mate[v]] = Owner[v]
  BY DEF makers
<1> QED BY <1>1, <1>2, <1>3, <1>4 DEF Keeper

\* The PEs that know all numbers agree on them.
LEMMA Consistent == ASSUME IInv PROVE CmapConsistent
<1> DEFINE Knows == {p \in PE : pc[p] \notin {"count", "number", "joined", "away", "lists"}}
<1>1. Mated /\ Counted /\ Numbers
  BY DEF IInv
<1>2. ASSUME NEW p \in Knows, NEW v \in DOMAIN cmap[p]
      PROVE  v \in Vertex /\ cmap[p][v] = num[v] /\ AllCounted
  <2>1. DOMAIN cmap[p] = Own(p) \union Ghosts(p)
    BY <1>1 DEF Numbers
  <2>2. v \in Vertex
    BY <2>1, OwnIs, GhostsAre
  <2>3. cmap[p][v] = num[v]
    BY <1>1, <2>1 DEF Numbers, Counting
  <2>4. AllCounted
    BY <1>1 DEF Counted, Counting, AllCounted
  <2> QED BY <2>2, <2>3, <2>4
<1> SUFFICES ASSUME NEW p \in Knows, NEW v \in DOMAIN cmap[p]
             PROVE  /\ cmap[p][v] - cvtxdist(Keeper(v)) \in 0..(counts[Keeper(v)] - 1)
                    /\ \A q \in Knows : \A u \in DOMAIN cmap[q] :
                         cmap[p][v] = cmap[q][u] <=> u = v \/ u = Partner(match[v])
  BY DEF CmapConsistent
<1> HIDE DEF Knows
<1>3. v \in Vertex /\ cmap[p][v] = num[v] /\ AllCounted
  BY <1>2
<1>4. cmap[p][v] - cvtxdist(Keeper(v)) \in 0..(counts[Keeper(v)] - 1)
  <2> DEFINE k == Owner[maker[v]]
  <2>1. k \in PE /\ k \in 0..npes
    <3>1. k \in PE
      BY <1>1, <1>3, Pairs, OwnerIn
    <3> QED BY <3>1, NpesAssumption DEF PE
  <2>2. cvtxdist(k) = first[k]
    BY <2>1 DEF first
  <2>3. first[k] <= num[v] /\ num[v] < first[k] + counts[k] /\ num[v] \in Nat
    BY <1>1, <1>3, NumsAre
  <2>4. first[k] \in Nat /\ counts[k] \in Nat
    BY <1>1, <1>3, <2>1, Ranges
  <2>5. Keeper(v) = k
    BY <1>1, <1>3, KeeperIs
  <2> HIDE DEF k
  <2>6. num[v] - first[k] \in 0..(counts[k] - 1)
    BY <2>3, <2>4
  <2> QED BY <1>3, <2>2, <2>5, <2>6
<1>5. ASSUME NEW q \in Knows, NEW u \in DOMAIN cmap[q]
      PROVE  cmap[p][v] = cmap[q][u] <=> u = v \/ u = Partner(match[v])
  <2>1. u \in Vertex /\ cmap[q][u] = num[u]
    BY <1>2
  <2>2. mate[v] = Partner(match[v])
    BY <1>3 DEF mate
  <2>3. num[u] = num[v] <=> u = v \/ u = mate[v]
    BY <1>1, <1>3, <2>1, NumsAre
  <2> QED BY <1>3, <2>1, <2>2, <2>3
<1> QED BY <1>4, <1>5

\* The coarse graph is the quotient.
LEMMA Quotient ==
  ASSUME IInv, \A p \in PE : pc[p] = "coarse"
  PROVE  /\ UNION {DOMAIN cgraph[p] : p \in PE} = 0..(ncoarse - 1)
         /\ \A p \in PE : \A c \in DOMAIN cgraph[p] :
              /\ cgraph[p][c].vwgt = SumFunctionOnSet(VWgt, Members(c))
              /\ \A d \in 0..(ncoarse - 1) :
                   IF d # c /\ Between(Members(c), Members(d)) > 0
                   THEN /\ d \in DOMAIN cgraph[p][c].adj
                        /\ cgraph[p][c].adj[d] = Between(Members(c), Members(d))
                   ELSE d \notin DOMAIN cgraph[p][c].adj
<1>1. Mated /\ Counted /\ Numbers /\ Coarse
  BY DEF IInv
<1>2. AllCounted
  BY DEF AllCounted
<1>3. ASSUME NEW v \in Vertex PROVE cmap[Owner[v]][v] = num[v]
  <2>1. Owner[v] \in PE /\ v \in Own(Owner[v]) /\ pc[Owner[v]] = "coarse"
    BY OwnerIn
  <2> QED BY <1>1, <2>1 DEF Numbers, Counting
<1>4. \A c : Members(c) = Team(c)
  BY <1>3 DEF Members, Team
<1>5. \A p \in PE : cgraph[p] = [c \in Nums(p) |-> Whole(c)]
  BY <1>1 DEF Coarse
<1>6. UNION {DOMAIN cgraph[p] : p \in PE} = 0..(ncoarse - 1)
  <2>1. \A p \in PE : DOMAIN cgraph[p] = Nums(p)
    BY <1>5
  <2>2. ASSUME NEW p \in PE, NEW c \in Nums(p) PROVE c \in 0..(ncoarse - 1)
    <3>1. PICK v \in Makes(p) : c = num[v]
      BY DEF Nums
    <3> QED BY <1>1, <1>2, <3>1, MakesAre, OwnIs, NumsAre
  <2>3. ASSUME NEW c \in 0..(ncoarse - 1) PROVE \E p \in PE : c \in Nums(p)
    <3>1. PICK v \in makers : num[v] = c
      BY <1>1, <1>2, NumsAre
    <3>2. v \in Vertex
      BY DEF makers
    <3>3. Owner[v] \in PE /\ v \in Makes(Owner[v])
      BY <3>2, OwnerIn, MakesAre
    <3> QED BY <3>1, <3>3 DEF Nums
  <2> QED BY <2>1, <2>2, <2>3
<1>7. ASSUME NEW p \in PE, NEW c \in DOMAIN cgraph[p]
      PROVE  /\ cgraph[p][c].vwgt = SumFunctionOnSet(VWgt, Members(c))
             /\ \A d \in 0..(ncoarse - 1) :
                  IF d # c /\ Between(Members(c), Members(d)) > 0
                  THEN /\ d \in DOMAIN cgraph[p][c].adj
                       /\ cgraph[p][c].adj[d] = Between(Members(c), Members(d))
                  ELSE d \notin DOMAIN cgraph[p][c].adj
  <2>1. cgraph[p][c] = Whole(c)
    BY <1>5
  <2>2. /\ Whole(c).vwgt = SumFunctionOnSet(VWgt, Team(c))
        /\ Whole(c).adj = [d \in DOMAIN Whole(c).adj |-> Between(Team(c), Team(d))]
    BY WholeIs
  <2>3. \A d \in DOMAIN Whole(c).adj : Whole(c).adj[d] = Between(Team(c), Team(d))
    BY <2>2
  <2>4. \A d \in 0..(ncoarse - 1) : d \in DOMAIN Whole(c).adj <=> d # c /\ Between(Team(c), Team(d)) > 0
    BY <1>1, <1>2, EdgesAre
  <2> QED BY <1>4, <2>1, <2>2, <2>3, <2>4
<1> QED BY <1>6, <1>7

-----------------------------------------------------------------------------
(* The initial states.                                                     *)

LEMMA InitIs == Init => IInv
<1> SUFFICES ASSUME Init PROVE IInv
  OBVIOUS
<1>1. /\ \A p \in PE : pc[p] = "count"
      /\ pc = [p \in PE |-> "count"] /\ match \in [Vertex -> Nat] /\ IsMatching(match)
      /\ mtype \in {"global", "local"} /\ (mtype = "local" => LocalMatching(match))
  BY MatchingsAssumption DEF Init
<1>2. Mated
  <2> SUFFICES ASSUME NEW v \in Vertex
               PROVE  /\ mate[v] \in Vertex /\ match[v] \in {mate[v], mate[v] + KeepBit}
                      /\ mate[mate[v]] = v
                      /\ mate[v] = v => Keeps(match[v])
                      /\ mate[v] # v /\ Owner[mate[v]] = Owner[v] =>
                           (Keeps(match[v]) <=> v < mate[v] \/ pc[Owner[v]] \notin Counting)
                      /\ Owner[mate[v]] # Owner[v] => /\ mate[v] \in Adj[v]
                                                      /\ Keeps(match[mate[v]]) <=> ~Keeps(match[v])
                      /\ mtype = "local" => Owner[mate[v]] = Owner[v]
    BY DEF Mated
  <2>1. mate[v] = Partner(match[v])
    BY DEF mate
  <2>2. /\ mate[v] \in Vertex /\ Partner(match[mate[v]]) = v
        /\ mate[v] = v => Keeps(match[v])
        /\ mate[v] # v => Keeps(match[mate[v]]) = ~Keeps(match[v])
        /\ mate[v] # v /\ Local(mate[v], v) => (Keeps(match[v]) <=> v < mate[v])
        /\ ~Local(mate[v], v) => mate[v] \in Adj[v]
    BY <1>1, <2>1 DEF IsMatching
  <2>3. mate[mate[v]] = v
    BY <2>2 DEF mate
  <2>4. match[v] \in {mate[v], mate[v] + KeepBit}
    <3>1. match[v] \in Nat /\ KeepBit \in Nat
      BY <1>1, KeepAssumption
    <3> QED BY <2>1, <3>1 DEF Partner
  <2>5. pc[Owner[v]] \in Counting
    BY <1>1, OwnerIn DEF Counting
  <2>6. mtype = "local" => Owner[mate[v]] = Owner[v]
    BY <1>1, <2>1 DEF LocalMatching, Local
  <2>7. Owner[mate[v]] # Owner[v] => mate[v] # v
    OBVIOUS
  <2> QED BY <2>2, <2>3, <2>4, <2>5, <2>6, <2>7 DEF Local
<1>3. Counted
  BY <1>1 DEF Init, Counted, Counting
<1>4. Placed
  BY <1>1 DEF Placed, Before, Counting, Trimming, After
<1>5. \A p \in PE : sent[p] = 0 /\ took[p] = 0
  BY <1>1 DEF sent, took, Counting
<1>6. InStep
  <2>1. \A p \in PE : \A q \in Nbrs(p) : took[p] = 0 /\ sent[q] = 0
    BY <1>5, NbrsIn
  <2> QED BY <2>1 DEF InStep
<1>7. Numbers
  BY <1>1 DEF Init, Numbers, Counting
<1>8. Exchange
  BY <1>1 DEF Init, Exchange
<1>9. Coarse
  BY <1>1 DEF Init, Coarse
<1>10. Queues4
  <2>1. chan = [q \in PE |-> [p \in PE |-> <<>>]]
    BY DEF Init, NoMessages
  <2>2. chan = [q \in PE |-> [p \in PE |-> chan[q][p]]] /\ \A p, q \in PE : chan[q][p] = <<>>
    BY <2>1
  <2>3. \A p, q \in PE : Queue(q, p) = <<>>
    BY <1>5 DEF Queue, Left
  <2> QED BY <2>2, <2>3 DEF Queues4
<1> QED BY <1>2, <1>3, <1>4, <1>6, <1>7, <1>8, <1>9, <1>10 DEF IInv

-----------------------------------------------------------------------------
(* What a step leaves alone.                                               *)

LEMMA PairsStay ==
  ASSUME mate' = mate, makers' = makers
  PROVE  /\ maker' = maker /\ rank' = rank /\ Early' = Early
         /\ \A p : Makes(p)' = Makes(p)
         /\ \A p, q : Gone(p, q)' = Gone(p, q) /\ Met(p, q)' = Met(p, q)
<1>1. maker' = maker
  BY DEF maker
<1>2. \A p : Makes(p)' = Makes(p)
  BY DEF Makes
<1>3. rank' = rank
  BY <1>2 DEF rank
<1>4. Early' = Early
  BY DEF Early
<1>5. \A p, q : Gone(p, q)' = Gone(p, q) /\ Met(p, q)' = Met(p, q)
  BY <1>4 DEF Gone, Met
<1> QED BY <1>1, <1>2, <1>3, <1>4, <1>5

LEMMA MatchStays == ASSUME match' = match PROVE mate' = mate /\ makers' = makers
<1>1. mate' = mate
  BY DEF mate
<1> QED BY <1>1 DEF makers

LEMMA NumbersStay ==
  ASSUME mate' = mate, makers' = makers, counts' = counts
  PROVE  /\ first' = first /\ num' = num
         /\ \A p : Nums(p)' = Nums(p)
         /\ \A c : Whole(c)' = Whole(c) /\ Team(c)' = Team(c)
         /\ \A v : List(v)' = List(v)
         /\ \A p, q : /\ M1(q, p)' = M1(q, p) /\ M2(q, p)' = M2(q, p)
                      /\ M3(q, p)' = M3(q, p) /\ M4(q, p)' = M4(q, p)
<1>1. maker' = maker /\ rank' = rank /\ Early' = Early /\ (\A p : Makes(p)' = Makes(p))
      /\ (\A p, q : Gone(p, q)' = Gone(p, q))
  BY PairsStay
<1>2. first' = first
  BY DEF first, cvtxdist
<1>3. num' = num
  BY <1>1, <1>2 DEF num
<1>4. \A v : List(v)' = List(v)
  BY <1>3 DEF List
<1>5. \A c : Team(c)' = Team(c)
  BY <1>3 DEF Team
<1>6. \A c : Whole(c)' = Whole(c)
  BY <1>4, <1>5 DEF Whole
<1>7. \A p : Nums(p)' = Nums(p)
  BY <1>1, <1>3 DEF Nums
<1>8. \A p, q : /\ M1(q, p)' = M1(q, p) /\ M2(q, p)' = M2(q, p)
                /\ M3(q, p)' = M3(q, p) /\ M4(q, p)' = M4(q, p)
  BY <1>1, <1>3, <1>4 DEF M1, M2, M3, M4
<1> QED BY <1>2, <1>3, <1>4, <1>5, <1>6, <1>7, <1>8

LEMMA MatedStays ==
  ASSUME Mated, match' = match, mtype' = mtype,
         \A q \in PE : pc'[q] \in Counting <=> pc[q] \in Counting
  PROVE  Mated'
<1>1. mate' = mate
  BY MatchStays
<1>2. \A v \in Vertex : pc'[Owner[v]] \in Counting <=> pc[Owner[v]] \in Counting
  BY OwnerIn
<1> QED BY <1>1, <1>2 DEF Mated

LEMMA CountedStays ==
  ASSUME Counted, match' = match, counts' = counts,
         \A q \in PE : pc'[q] \in Counting <=> pc[q] \in Counting,
         \A q \in PE : pc'[q] = "count" <=> pc[q] = "count"
  PROVE  Counted'
<1>1. \A q : Makes(q)' = Makes(q)
  BY MatchStays, PairsStay
<1> QED BY <1>1 DEF Counted

\* The phases of the others.
LEMMA OthersStay ==
  ASSUME Placed, NEW p \in PE, NEW t, pc' = [pc EXCEPT ![p] = t], mtype' = mtype
  PROVE  /\ pc'[p] = t
         /\ \A q \in PE : q # p => pc'[q] = pc[q] /\ sent'[q] = sent[q] /\ took'[q] = took[q]
<1>1. pc'[p] = t /\ \A q \in PE : q # p => pc'[q] = pc[q]
  BY DEF Placed
<1> QED BY <1>1 DEF sent, took

-----------------------------------------------------------------------------
(* The steps.                                                              *)

Moves(p, s, t) == pc[p] = s /\ pc' = [pc EXCEPT ![p] = t]

\* A step that counts and numbers nothing leaves the numbers of all alone.
LEMMA Steady ==
  ASSUME IInv, NEW p \in PE, NEW s, NEW t, Moves(p, s, t), s \notin Counting, t \notin Counting,
         match' = match, counts' = counts, mtype' = mtype
  PROVE  /\ mate' = mate /\ makers' = makers /\ num' = num /\ Early' = Early
         /\ \A q \in PE : q # p => pc'[q] = pc[q] /\ sent'[q] = sent[q] /\ took'[q] = took[q]
         /\ pc'[p] = t
         /\ Mated' /\ Counted'
<1>1. mate' = mate /\ makers' = makers /\ num' = num /\ Early' = Early
  BY MatchStays, NumbersStay, PairsStay
<1>2. Placed /\ Mated /\ Counted
  BY DEF IInv
<1>3. pc'[p] = t /\ \A q \in PE : q # p => pc'[q] = pc[q] /\ sent'[q] = sent[q] /\ took'[q] = took[q]
  BY <1>2, OthersStay DEF Moves
<1>4. \A q \in PE : /\ pc'[q] \in Counting <=> pc[q] \in Counting
                    /\ pc'[q] = "count" <=> pc[q] = "count"
  BY <1>3 DEF Moves, Counting
<1>5. Mated'
  BY <1>2, <1>4, MatedStays
<1>6. Counted'
  BY <1>2, <1>4, CountedStays
<1> QED BY <1>1, <1>3, <1>5, <1>6

\* The steps after the coarse graph is there.
LEMMA LateStep ==
  ASSUME IInv, NEW p \in PE, NEW s \in Trimming \union After, NEW t \in (Trimming \union After) \ {"coarse"},
         Moves(p, s, t), s \in After <=> t \in After, \A q \in PE : pc[q] \notin Before,
         match' = match, counts' = counts, mtype' = mtype, cmap' = cmap, scand' = scand,
         rcand' = [rcand EXCEPT ![p] = rcand'[p]], cgraph' = [cgraph EXCEPT ![p] = cgraph'[p]],
         t \in {"noise", "median"} => cgraph' = cgraph /\ s \in {"coarse", "noise"}
  PROVE  IInv'
<1>1. /\ s \notin Counting /\ t \notin Counting /\ s \notin Before /\ t \notin Before
      /\ pc[p] = s
  BY DEF Counting, Before, Trimming, After, Moves
<1>2. /\ mate' = mate /\ makers' = makers /\ num' = num /\ Early' = Early
      /\ \A q \in PE : q # p => pc'[q] = pc[q] /\ sent'[q] = sent[q] /\ took'[q] = took[q]
      /\ pc'[p] = t
      /\ Mated' /\ Counted'
  BY <1>1, Steady
<1>3. Placed /\ InStep /\ Numbers /\ Exchange /\ Coarse
  BY DEF IInv
<1>4. \A p1, q : Gone(p1, q)' = Gone(p1, q) /\ Met(p1, q)' = Met(p1, q)
  BY <1>2, PairsStay
<1>5. Placed'
  <2>1. pc' \in [PE -> Before \union Trimming \union After]
    BY <1>3 DEF Placed, Moves
  <2>2. \A q \in PE : pc'[q] \notin Before
    BY <1>1, <1>2
  <2>3. \A q \in PE : pc'[q] \in After <=> pc[q] \in After
    BY <1>1, <1>2
  <2>4. \A q \in PE : pc'[q] \notin {"away", "lists", "sizes", "collapse", "joined"}
    BY <2>2 DEF Before
  <2> QED BY <1>3, <2>1, <2>2, <2>3, <2>4 DEF Placed
<1>6. InStep'
  <2>1. sent'[p] = sent[p] /\ took'[p] = took[p]
    BY <1>1, <1>2 DEF sent, took, Counting, Trimming, After
  <2>2. \A q \in PE : sent'[q] = sent[q] /\ took'[q] = took[q]
    BY <1>2, <2>1
  <2> QED BY <1>3, <1>4, <2>2, NbrsIn DEF InStep
<1>7. Numbers'
  <2>1. \A q \in PE : /\ pc[q] \notin Counting \union {"away", "joined", "lists"}
                      /\ pc'[q] \notin Counting \union {"away", "joined", "lists"}
    BY <1>1, <1>2 DEF Before
  <2>2. \A q \in PE : \A v \in Own(q) \union Ghosts(q) : cmap[q][v] = num[v]
    BY <1>3, <2>1 DEF Numbers
  <2> QED BY <1>2, <1>3, <2>1, <2>2 DEF Numbers
<1>8. Exchange'
  <2>1. \A q \in PE : pc'[q] \notin {"sizes", "collapse"}
    BY <1>1, <1>2 DEF Before
  <2>2. scand' = [q \in PE |-> scand'[q]] /\ rcand' = [q \in PE |-> rcand'[q]]
    BY <1>3 DEF Exchange
  <2> QED BY <2>1, <2>2 DEF Exchange
<1>9. Coarse'
  <2>1. cgraph' = [q \in PE |-> cgraph'[q]] /\ \A q \in PE : q # p => cgraph'[q] = cgraph[q]
    BY <1>3 DEF Coarse
  <2>2. \A c : Whole(c)' = Whole(c)
    BY <1>2, NumbersStay
  <2>3. \A q : Nums(q)' = Nums(q)
    BY <1>2, NumbersStay
  <2>4. ASSUME NEW q \in PE, pc'[q] \in {"coarse", "noise", "median"}
        PROVE  cgraph'[q] = [c \in Nums(q)' |-> Whole(c)']
    <3>1. pc[q] \in {"coarse", "noise", "median"} /\ cgraph'[q] = cgraph[q]
      BY <1>1, <1>2, <2>1, <2>4
    <3> QED BY <1>3, <2>2, <2>3, <3>1 DEF Coarse
  <2> QED BY <2>1, <2>4 DEF Coarse
<1>10. Queues4'
  <2>1. t \notin Before \union {"coarse"}
    BY <1>1
  <2> QED BY <1>2, <2>1 DEF Queues4
<1> QED BY <1>2, <1>5, <1>6, <1>7, <1>8, <1>9, <1>10 DEF IInv

\* What DropEdges leaves alone.
LEMMA DropLeaves ==
  ASSUME NEW p \in PE, MakeNoise(p) \/ Medians(p) \/ Drop(p)
  PROVE  /\ match' = match /\ counts' = counts /\ mtype' = mtype /\ cmap' = cmap
         /\ scand' = scand /\ rcand' = rcand
         /\ cgraph' = cgraph \/ \E x : cgraph' = [cgraph EXCEPT ![p] = x]
         /\ \/ /\ pc[p] = "coarse" /\ pc' = [pc EXCEPT ![p] = "noise"] /\ cgraph' = cgraph
               /\ \A q \in PE : pc[q] \in {"coarse", "noise", "median", "dropped"}
            \/ pc[p] = "noise" /\ pc' = [pc EXCEPT ![p] = "median"] /\ cgraph' = cgraph
            \/ pc[p] = "median" /\ pc' = [pc EXCEPT ![p] = "dropped"]
<1>1. CASE MakeNoise(p)
  <2>1. /\ match' = match /\ counts' = counts /\ mtype' = mtype /\ cmap' = cmap
        /\ scand' = scand /\ rcand' = rcand /\ cgraph' = cgraph
    BY <1>1, Zenon DEF MakeNoise
  <2>2. /\ pc[p] = "coarse" /\ pc' = [pc EXCEPT ![p] = "noise"]
        /\ \A q \in PE : pc[q] \in {"coarse", "noise", "median", "dropped"}
    BY <1>1, Zenon DEF MakeNoise
  <2> QED BY <2>1, <2>2
<1>2. CASE Medians(p)
  <2>1. /\ match' = match /\ counts' = counts /\ mtype' = mtype /\ cmap' = cmap
        /\ scand' = scand /\ rcand' = rcand /\ cgraph' = cgraph
    BY <1>2, Zenon DEF Medians
  <2>2. pc[p] = "noise" /\ pc' = [pc EXCEPT ![p] = "median"]
    BY <1>2, Zenon DEF Medians
  <2> QED BY <2>1, <2>2
<1>3. CASE Drop(p)
  <2>1. /\ match' = match /\ counts' = counts /\ mtype' = mtype /\ cmap' = cmap
        /\ scand' = scand /\ rcand' = rcand
    BY <1>3, Zenon DEF Drop
  <2>2. pc[p] = "median" /\ pc' = [pc EXCEPT ![p] = "dropped"]
    BY <1>3, Zenon DEF Drop
  <2>3. \E x : cgraph' = [cgraph EXCEPT ![p] = x]
    BY <1>3, Zenon DEF Drop
  <2> QED BY <2>1, <2>2, <2>3
<1> QED BY <1>1, <1>2, <1>3

LEMMA DropSteps ==
  ASSUME IInv, NEW p \in PE, MakeNoise(p) \/ Medians(p) \/ Drop(p)
  PROVE  IInv'
<1>1. Placed
  BY DEF IInv
<1>2. /\ match' = match /\ counts' = counts /\ mtype' = mtype /\ cmap' = cmap
      /\ scand' = scand /\ rcand' = rcand
  BY DropLeaves
<1>3. PICK s \in {"coarse", "noise", "median"} :
        \E t \in {"noise", "median", "dropped"} :
          /\ Moves(p, s, t) /\ (t \in {"noise", "median"} => cgraph' = cgraph /\ s \in {"coarse", "noise"})
  <2>1. \/ Moves(p, "coarse", "noise") /\ cgraph' = cgraph
        \/ Moves(p, "noise", "median") /\ cgraph' = cgraph
        \/ Moves(p, "median", "dropped")
    BY DropLeaves DEF Moves
  <2> QED BY <2>1
<1>4. PICK t \in {"noise", "median", "dropped"} :
          /\ Moves(p, s, t) /\ (t \in {"noise", "median"} => cgraph' = cgraph /\ s \in {"coarse", "noise"})
  BY <1>3
<1>5. \A q \in PE : pc[q] \notin Before
  <2>1. \/ \A q \in PE : pc[q] \in {"coarse", "noise", "median", "dropped"}
        \/ pc[p] \in {"noise", "median"}
    BY DropLeaves
  <2>2. CASE pc[p] \in {"noise", "median"}
    BY <1>1, <2>2 DEF Placed, Before, Counting
  <2> QED BY <2>1, <2>2 DEF Before, Counting
<1>6. rcand' = [rcand EXCEPT ![p] = rcand'[p]] /\ cgraph' = [cgraph EXCEPT ![p] = cgraph'[p]]
  <2>1. rcand = [q \in PE |-> rcand[q]] /\ cgraph = [q \in PE |-> cgraph[q]]
    BY DEF IInv, Exchange, Coarse
  <2>2. cgraph' = cgraph \/ \E x : cgraph' = [cgraph EXCEPT ![p] = x]
    BY DropLeaves
  <2>3. rcand' = [rcand EXCEPT ![p] = rcand'[p]]
    BY <1>2, <2>1
  <2>4. cgraph' = [cgraph EXCEPT ![p] = cgraph'[p]]
    BY <2>1, <2>2
  <2> QED BY <2>3, <2>4
<1>7. /\ s \in Trimming \union After /\ t \in (Trimming \union After) \ {"coarse"}
      /\ s \in After <=> t \in After
  BY DEF Trimming, After
<1> QED BY <1>2, <1>4, <1>5, <1>6, <1>7, LateStep

LEMMA ProjectSteps ==
  ASSUME IInv, NEW p \in PE, Project(p) \/ ProjectReceived(p)
  PROVE  IInv'
<1>1. Placed
  BY DEF IInv
<1>2. /\ match' = match /\ counts' = counts /\ mtype' = mtype /\ cmap' = cmap /\ scand' = scand
      /\ cgraph' = cgraph
  BY DEF Project, ProjectReceived, dropping
<1>3. PICK s \in {"project", "projected"} : \E t \in {"projected", "done"} : Moves(p, s, t)
  BY DEF Project, ProjectReceived, Moves
<1>4. PICK t \in {"projected", "done"} : Moves(p, s, t)
  BY <1>3
<1>5. \A q \in PE : pc[q] \notin Before
  <2>1. pc[p] \in After
    BY <1>4 DEF Moves, After
  <2> QED BY <1>1, <2>1 DEF Placed, Before, After, Counting
<1>6. rcand' = [rcand EXCEPT ![p] = rcand'[p]] /\ cgraph' = [cgraph EXCEPT ![p] = cgraph'[p]]
  <2>1. rcand = [q \in PE |-> rcand[q]] /\ cgraph = [q \in PE |-> cgraph[q]]
    BY DEF IInv, Exchange, Coarse
  <2>2. rcand' = rcand \/ \E x : rcand' = [rcand EXCEPT ![p] = x]
    BY DEF Project, ProjectReceived
  <2>3. rcand' = [rcand EXCEPT ![p] = rcand'[p]]
    BY <2>1, <2>2
  <2>4. cgraph' = [cgraph EXCEPT ![p] = cgraph'[p]]
    BY <1>2, <2>1
  <2> QED BY <2>3, <2>4
<1>7. /\ s \in Trimming \union After /\ t \in (Trimming \union After) \ {"coarse"}
      /\ s \in After <=> t \in After /\ t \notin {"noise", "median"}
  BY DEF Trimming, After
<1> QED BY <1>2, <1>4, <1>5, <1>6, <1>7, LateStep

\* The coarser levels begin everywhere at once.
LEMMA PartitionStep == ASSUME IInv, Partition PROVE IInv'
<1>1. /\ match' = match /\ counts' = counts /\ mtype' = mtype /\ cmap' = cmap /\ scand' = scand
      /\ cgraph' = cgraph /\ rcand' = rcand /\ \A p \in PE : pc'[p] = "project" /\ pc[p] \in {"dropped", "coarse"}
      /\ pc' = [p \in PE |-> "project"]
  BY DEF Partition, dropping
<1>2. mate' = mate /\ makers' = makers /\ num' = num /\ Early' = Early
  BY <1>1, MatchStays, NumbersStay, PairsStay
<1>3. Placed /\ InStep /\ Numbers /\ Exchange /\ Coarse /\ Mated /\ Counted
  BY DEF IInv
<1>4. \A p1, q : Gone(p1, q)' = Gone(p1, q)
  BY <1>2, PairsStay
<1>5. Mated' /\ Counted'
  BY <1>1, <1>3, MatedStays, CountedStays DEF Counting
<1>6. Placed'
  BY <1>1, <1>3 DEF Placed, Before, After, Counting
<1>7. InStep'
  <2>1. \A q \in PE : sent'[q] = sent[q] /\ took'[q] = took[q]
    BY <1>1 DEF sent, took, Counting
  <2> QED BY <1>3, <1>4, <2>1, NbrsIn DEF InStep
<1>8. Numbers'
  <2>1. \A q \in PE : \A v \in Own(q) \union Ghosts(q) : cmap[q][v] = num[v]
    BY <1>1, <1>3 DEF Numbers, Counting
  <2> QED BY <1>1, <1>2, <1>3, <2>1 DEF Numbers, Counting
<1>9. Exchange' /\ Coarse'
  BY <1>1, <1>3 DEF Exchange, Coarse
<1>10. Queues4'
  <2>1. 0 \in PE
    BY NpesAssumption DEF PE
  <2>2. pc'[0] \notin Before \union {"coarse"}
    BY <1>1, <2>1 DEF Before, Counting
  <2> QED BY <2>1, <2>2 DEF Queues4
<1> QED BY <1>5, <1>6, <1>7, <1>8, <1>9, <1>10 DEF IInv

-----------------------------------------------------------------------------
(* The messages of the contraction.                                        *)

LEMMA Threes ==
  \A a, b, c : /\ Append(<<a, b>>, c) = <<a, b, c>>
               /\ Head(<<a, b, c>>) = a /\ Tail(<<a, b, c>>) = <<b, c>> /\ <<a, b, c>> # <<>>
<1> SUFFICES ASSUME NEW a, NEW b, NEW c
             PROVE  /\ Append(<<a, b>>, c) = <<a, b, c>>
                    /\ Head(<<a, b, c>>) = a /\ Tail(<<a, b, c>>) = <<b, c>> /\ <<a, b, c>> # <<>>
  BY Zenon
<1> DEFINE S == {a, b, c}
<1>1. <<a, b>> \in Seq(S) /\ <<b, c>> \in Seq(S) /\ <<a, b, c>> \in Seq(S)
  OBVIOUS
<1>2. Append(<<a, b>>, c) = <<a, b, c>>
  <2>1. /\ Append(<<a, b>>, c) \in Seq(S) /\ Len(Append(<<a, b>>, c)) = 3
        /\ Append(<<a, b>>, c)[1] = a /\ Append(<<a, b>>, c)[2] = b /\ Append(<<a, b>>, c)[3] = c
    BY <1>1, AppendProperties
  <2>2. \A i \in 1..3 : Append(<<a, b>>, c)[i] = <<a, b, c>>[i]
    BY <2>1
  <2> QED BY <1>1, <2>1, <2>2, SeqEqual
<1>3. Head(<<a, b, c>>) = a /\ <<a, b, c>> # <<>>
  <2>1. Len(<<a, b, c>>) = 3 /\ <<a, b, c>>[1] = a
    OBVIOUS
  <2>2. <<a, b, c>> # <<>>
    BY <1>1, <2>1, EmptySeq
  <2>3. Head(<<a, b, c>>) = <<a, b, c>>[1]
    BY <1>1, <2>2, HeadTailProperties
  <2> QED BY <2>1, <2>2, <2>3
<1>4. Tail(<<a, b, c>>) = <<b, c>>
  <2>1. /\ Tail(<<a, b, c>>) \in Seq(S) /\ Len(Tail(<<a, b, c>>)) = 2
        /\ Tail(<<a, b, c>>)[1] = b /\ Tail(<<a, b, c>>)[2] = c
    BY <1>1, <1>3, HeadTailProperties
  <2>2. \A i \in 1..2 : Tail(<<a, b, c>>)[i] = <<b, c>>[i]
    BY <2>1
  <2> QED BY <1>1, <2>1, <2>2, SeqEqual
<1> QED BY <1>2, <1>3, <1>4

\* One more message is taken.
LEMMA OneLess ==
  ASSUME NEW gone, NEW m1, NEW m2, NEW m3, NEW m4, NEW s \in 0..4
  PROVE  /\ Left(s, 0, gone, m1, m2, m3, m4) # <<>> /\ s <= 2 =>
              /\ s >= 1 /\ Head(Left(s, 0, gone, m1, m2, m3, m4)) = m1
              /\ Tail(Left(s, 0, gone, m1, m2, m3, m4)) = Left(s, 1, gone, m1, m2, m3, m4)
         /\ Left(s, 1, gone, m1, m2, m3, m4) # <<>> /\ s >= 1 =>
              /\ s >= 2 /\ Head(Left(s, 1, gone, m1, m2, m3, m4)) = m2
              /\ Tail(Left(s, 1, gone, m1, m2, m3, m4)) = Left(s, 2, gone, m1, m2, m3, m4)
         /\ Left(s, 2, gone, m1, m2, m3, m4) # <<>> /\ s >= 2 =>
              /\ s >= 3 /\ Head(Left(s, 2, gone, m1, m2, m3, m4)) = m3
              /\ Tail(Left(s, 2, gone, m1, m2, m3, m4)) = Left(s, 3, gone, m1, m2, m3, m4)
         /\ Left(s, 3, gone, m1, m2, m3, m4) # <<>> /\ s >= 3 =>
              /\ s >= 4 /\ Head(Left(s, 3, gone, m1, m2, m3, m4)) = m4
              /\ Tail(Left(s, 3, gone, m1, m2, m3, m4)) = Left(s, 4, gone, m1, m2, m3, m4)
         /\ gone = {} => /\ Left(s, 3, gone, m1, m2, m3, m4) = Left(s, 2, gone, m1, m2, m3, m4)
                    /\ Left(s, 4, gone, m1, m2, m3, m4) = Left(s, 3, gone, m1, m2, m3, m4)
<1> DEFINE L(t) == Left(s, t, gone, m1, m2, m3, m4)
<1>1. s = 0 \/ s = 1 \/ s = 2 \/ s = 3 \/ s = 4
  OBVIOUS
<1>2. ASSUME L(0) # <<>>, s <= 2 PROVE s >= 1 /\ Head(L(0)) = m1 /\ Tail(L(0)) = L(1)
  <2>1. /\ s = 0 => L(0) = <<>>
        /\ s = 1 => L(0) = <<m1>> /\ L(1) = <<>>
        /\ s = 2 => L(0) = <<m1, m2>> /\ L(1) = <<m2>>
    BY DEF Left
  <2> HIDE DEF L
  <2>2. s = 1 \/ s = 2
    BY <1>1, <1>2, <2>1
  <2>3. Head(L(0)) = m1 /\ Tail(L(0)) = L(1)
    BY <2>1, <2>2, Queues, Zenon
  <2> QED BY <2>2, <2>3
<1>3. ASSUME L(1) # <<>>, s >= 1 PROVE s >= 2 /\ Head(L(1)) = m2 /\ Tail(L(1)) = L(2)
  <2>1. /\ s = 1 => L(1) = <<>>
        /\ s \in {2, 3, 4} /\ gone = {} => L(1) = <<m2>> /\ L(2) = <<>>
        /\ s = 2 /\ gone # {} => L(1) = <<m2>> /\ L(2) = <<>>
        /\ s = 3 /\ gone # {} => L(1) = <<m2, m3>> /\ L(2) = <<m3>>
        /\ s = 4 /\ gone # {} => L(1) = <<m2, m3, m4>> /\ L(2) = <<m3, m4>>
    BY DEF Left
  <2> HIDE DEF L
  <2>2. s \in {2, 3, 4} /\ (s = 2 \/ s = 3 \/ s = 4)
    BY <1>1, <1>3, <2>1
  <2>3. gone = {} \/ s = 2 => L(1) = <<m2>> /\ L(2) = <<>>
    BY <2>1, <2>2
  <2>4. gone = {} \/ s = 2 => Head(L(1)) = m2 /\ Tail(L(1)) = L(2)
    BY <2>3, Queues, Zenon
  <2>5. gone # {} /\ s = 3 => Head(L(1)) = m2 /\ Tail(L(1)) = L(2)
    BY <2>1, Queues, Zenon
  <2>6. gone # {} /\ s = 4 => Head(L(1)) = m2 /\ Tail(L(1)) = L(2)
    <3>1. Head(<<m2, m3, m4>>) = m2 /\ Tail(<<m2, m3, m4>>) = <<m3, m4>>
      BY Threes, Zenon
    <3>2. gone # {} /\ s = 4 => L(1) = <<m2, m3, m4>> /\ L(2) = <<m3, m4>>
      BY <2>1, Zenon
    <3> QED BY <3>1, <3>2, Zenon
  <2>7. Head(L(1)) = m2 /\ Tail(L(1)) = L(2)
    BY <2>2, <2>4, <2>5, <2>6
  <2>8. s >= 2
    BY <2>2
  <2> QED BY <2>7, <2>8
<1>4. ASSUME L(2) # <<>>, s >= 2 PROVE s >= 3 /\ Head(L(2)) = m3 /\ Tail(L(2)) = L(3)
  <2>1. /\ s = 2 \/ gone = {} => L(2) = <<>>
        /\ s = 3 /\ gone # {} => L(2) = <<m3>> /\ L(3) = <<>>
        /\ s = 4 /\ gone # {} => L(2) = <<m3, m4>> /\ L(3) = <<m4>>
    BY DEF Left
  <2> HIDE DEF L
  <2>2. gone # {} /\ (s = 3 \/ s = 4)
    BY <1>1, <1>4, <2>1
  <2>3. s = 3 => Head(L(2)) = m3 /\ Tail(L(2)) = L(3)
    BY <2>1, <2>2, Queues, Zenon
  <2>4. s = 4 => Head(L(2)) = m3 /\ Tail(L(2)) = L(3)
    BY <2>1, <2>2, Queues, Zenon
  <2>5. s >= 3
    BY <2>2
  <2> QED BY <2>2, <2>3, <2>4, <2>5
<1>5. ASSUME L(3) # <<>>, s >= 3 PROVE s >= 4 /\ Head(L(3)) = m4 /\ Tail(L(3)) = L(4)
  <2>1. /\ s = 3 \/ gone = {} => L(3) = <<>>
        /\ s = 4 /\ gone # {} => L(3) = <<m4>> /\ L(4) = <<>>
    BY DEF Left
  <2> HIDE DEF L
  <2>2. gone # {} /\ s = 4
    BY <1>1, <1>5, <2>1
  <2>3. Head(L(3)) = m4 /\ Tail(L(3)) = L(4)
    BY <2>1, <2>2, Queues, Zenon
  <2> QED BY <2>2, <2>3
<1>6. gone = {} => L(3) = L(2) /\ L(4) = L(3)
  BY DEF Left
<1> QED BY <1>2, <1>3, <1>4, <1>5, <1>6

Together == \A r \in PE : pc[r] \in Before \union {"coarse"}

\* The k-th message of q for p, and whom p takes it from and sends it to.
Letter(k, q, p) ==
  IF k = 1 THEN M1(q, p) ELSE IF k = 2 THEN M2(q, p) ELSE IF k = 3 THEN M3(q, p) ELSE M4(q, p)
Gets(p) == IF took[p] <= 1 THEN Nbrs(p) ELSE {q \in Nbrs(p) : Gone(q, p) # {}}
Puts(p) == IF sent[p] <= 1 THEN Nbrs(p) ELSE {q \in Nbrs(p) : Gone(p, q) # {}}
LeftOf(s, t, q, p) ==
  Left(s, t, Gone(q, p), M1(q, p), M2(q, p), M3(q, p), M4(q, p))

LEMMA Neighbours == \A p \in PE : \A q \in Nbrs(p) : q \in PE /\ q # p /\ p \in Nbrs(q)
<1> SUFFICES ASSUME NEW p \in PE, NEW q \in Nbrs(p) PROVE q \in PE /\ q # p /\ p \in Nbrs(q)
  OBVIOUS
<1>1. q \in PE
  BY NbrsIn
<1>2. q # p
  BY <1>1, NbrsAre, SendIs
<1> QED BY <1>1, <1>2, NbrsBothWays

LEMMA TogetherIs ==
  ASSUME IInv, NEW p \in PE, pc[p] \in Before
  PROVE  /\ Together
         /\ chan = [q \in PE |-> [r \in PE |-> chan[q][r]]]
         /\ \A q, r \in PE : chan[q][r] = IF q \in Nbrs(r) THEN LeftOf(sent[q], took[r], q, r) ELSE <<>>
<1>1. Together
  BY DEF IInv, Placed, Together
<1> QED BY <1>1 DEF IInv, Queues4, Together, Queue, LeftOf

LEMMA PacesAre ==
  ASSUME IInv, Together, NEW p \in PE
  PROVE  /\ sent[p] \in 0..4 /\ took[p] \in 0..4 /\ sent[p] \in {took[p], took[p] + 1}
         /\ mtype = "local" => sent[p] <= 1
<1>1. /\ sent[p] = IF pc[p] \in Counting THEN 0
                   ELSE IF mtype = "local" \/ pc[p] = "away" THEN 1
                   ELSE IF pc[p] = "lists" THEN 2
                   ELSE IF pc[p] = "sizes" THEN 3 ELSE 4
      /\ took[p] = IF pc[p] \in Counting \union {"away", "joined"} THEN 0
                   ELSE IF mtype = "local" \/ pc[p] = "lists" THEN 1
                   ELSE IF pc[p] = "sizes" THEN 2
                   ELSE IF pc[p] = "collapse" THEN 3 ELSE 4
  BY DEF sent, took
<1>2. /\ pc[p] \in {"count", "number", "away", "lists", "sizes", "collapse", "joined", "coarse"}
      /\ mtype = "local" => pc[p] \notin {"away", "lists", "sizes", "collapse"}
      /\ mtype # "local" => pc[p] # "joined"
  BY DEF Together, Before, Counting, IInv, Placed
<1>3. CASE pc[p] \in Counting
  BY <1>1, <1>3
<1>4. CASE pc[p] \notin Counting /\ mtype = "local"
  BY <1>1, <1>2, <1>4 DEF Counting
<1>5. CASE pc[p] \notin Counting /\ mtype # "local"
  BY <1>1, <1>2, <1>5 DEF Counting
<1> QED BY <1>3, <1>4, <1>5

\* The messages that have arrived are the ones that are expected.
LEMMA Arrives ==
  ASSUME IInv, NEW p \in PE, pc[p] \in Before, ArrivedFrom(chan, p, Gets(p)), took[p] <= 3,
         NEW q \in Nbrs(p)
  PROVE  /\ q \in Gets(p) => /\ sent[q] >= took[p] + 1
                             /\ Head(chan[q][p]) = Letter(took[p] + 1, q, p)
                             /\ Tail(chan[q][p]) = LeftOf(sent[q], took[p] + 1, q, p)
         /\ q \notin Gets(p) => chan[q][p] = LeftOf(sent[q], took[p] + 1, q, p)
<1>1. q \in PE /\ p \in Nbrs(q)
  BY Neighbours
<1>2. chan[q][p] = LeftOf(sent[q], took[p], q, p) /\ Together
  BY <1>1, TogetherIs
<1>3. /\ sent[q] \in 0..4 /\ took[q] \in 0..4 /\ sent[q] \in {took[q], took[q] + 1}
      /\ sent[p] \in 0..4 /\ took[p] \in 0..4 /\ sent[p] \in {took[p], took[p] + 1}
  BY <1>1, <1>2, PacesAre
<1>4. /\ took[p] >= 1 => sent[q] >= 1
      /\ took[p] >= 2 => sent[q] >= 2
      /\ took[p] >= 3 /\ Gone(q, p) # {} => sent[q] >= took[p]
      /\ took[q] >= 1 => sent[p] >= 1
      /\ took[q] >= 2 => sent[p] >= 2
  BY <1>1 DEF IInv, InStep
<1>5. took[p] = 0 => sent[q] <= 2
  BY <1>3, <1>4
<1> DEFINE L(t) == LeftOf(sent[q], t, q, p)
           none == Gone(q, p) = {}
<1>6. /\ L(0) # <<>> /\ sent[q] <= 2 => sent[q] >= 1 /\ Head(L(0)) = M1(q, p) /\ Tail(L(0)) = L(1)
      /\ L(1) # <<>> /\ sent[q] >= 1 => sent[q] >= 2 /\ Head(L(1)) = M2(q, p) /\ Tail(L(1)) = L(2)
      /\ L(2) # <<>> /\ sent[q] >= 2 => sent[q] >= 3 /\ Head(L(2)) = M3(q, p) /\ Tail(L(2)) = L(3)
      /\ L(3) # <<>> /\ sent[q] >= 3 => sent[q] >= 4 /\ Head(L(3)) = M4(q, p) /\ Tail(L(3)) = L(4)
      /\ none => L(3) = L(2) /\ L(4) = L(3)
  <2> DEFINE s == sent[q]
  <2>1. s \in 0..4
    BY <1>3
  <2> HIDE DEF s
  <2>2. \A k : L(k) = Left(s, k, Gone(q, p), M1(q, p), M2(q, p), M3(q, p), M4(q, p))
    BY DEF LeftOf, s
  <2> HIDE DEF L
  <2> SUFFICES /\ L(0) # <<>> /\ s <= 2 => s >= 1 /\ Head(L(0)) = M1(q, p) /\ Tail(L(0)) = L(1)
               /\ L(1) # <<>> /\ s >= 1 => s >= 2 /\ Head(L(1)) = M2(q, p) /\ Tail(L(1)) = L(2)
               /\ L(2) # <<>> /\ s >= 2 => s >= 3 /\ Head(L(2)) = M3(q, p) /\ Tail(L(2)) = L(3)
               /\ L(3) # <<>> /\ s >= 3 => s >= 4 /\ Head(L(3)) = M4(q, p) /\ Tail(L(3)) = L(4)
               /\ Gone(q, p) = {} => L(3) = L(2) /\ L(4) = L(3)
    BY DEF s
  <2> QED BY <2>1, <2>2, OneLess
<1>7. took[p] = 0 \/ took[p] = 1 \/ took[p] = 2 \/ took[p] = 3
  BY <1>3
<1>8. q \in Gets(p) => chan[q][p] # <<>>
  BY DEF ArrivedFrom
<1>9. q \in Gets(p) <=> took[p] <= 1 \/ ~none
  BY DEF Gets
<1> HIDE DEF L, none
<1>10. chan[q][p] = L(took[p])
  BY <1>2 DEF L
<1>11. /\ Letter(1, q, p) = M1(q, p) /\ Letter(2, q, p) = M2(q, p)
       /\ Letter(3, q, p) = M3(q, p) /\ Letter(4, q, p) = M4(q, p)
  BY DEF Letter
<1>12. CASE took[p] = 0
  BY <1>5, <1>6, <1>8, <1>9, <1>10, <1>11, <1>12 DEF L
<1>13. CASE took[p] = 1
  BY <1>4, <1>6, <1>8, <1>9, <1>10, <1>11, <1>13 DEF L
<1>14. CASE took[p] = 2
  BY <1>4, <1>6, <1>8, <1>9, <1>10, <1>11, <1>14 DEF L
<1>15. CASE took[p] = 3
  BY <1>4, <1>6, <1>8, <1>9, <1>10, <1>11, <1>15 DEF L, none
<1> QED BY <1>7, <1>12, <1>13, <1>14, <1>15

\* A message is sent behind those that are on their way.
LEMMA Departs ==
  ASSUME IInv, NEW p \in PE, pc[p] \in Before, NEW q \in Nbrs(p), sent[p] <= 3,
         sent[p] >= 2 => sent[q] >= 2
  PROVE  LeftOf(sent[p] + 1, took[q], p, q) =
           IF q \in Puts(p) THEN Append(chan[p][q], Letter(sent[p] + 1, p, q)) ELSE chan[p][q]
<1>1. q \in PE /\ p \in Nbrs(q)
  BY Neighbours
<1>2. chan[p][q] = LeftOf(sent[p], took[q], p, q) /\ Together
  BY <1>1, TogetherIs
<1>3. /\ sent[q] \in 0..4 /\ took[q] \in 0..4 /\ sent[q] \in {took[q], took[q] + 1}
      /\ sent[p] \in 0..4 /\ took[p] \in 0..4 /\ sent[p] \in {took[p], took[p] + 1}
  BY <1>1, <1>2, PacesAre
<1>4. /\ took[q] >= 1 => sent[p] >= 1
      /\ took[q] >= 2 => sent[p] >= 2
      /\ took[q] >= 3 /\ Gone(p, q) # {} => sent[p] >= took[q]
  BY <1>1 DEF IInv, InStep
<1> DEFINE L(s) == LeftOf(s, took[q], p, q)
           none == Gone(p, q) = {}
           t == took[q]
<1>5. /\ t = 0 => Append(L(0), M1(p, q)) = L(1)
      /\ t <= 1 => Append(L(1), M2(p, q)) = L(2)
      /\ t \in {1, 2} /\ ~none => Append(L(2), M3(p, q)) = L(3)
      /\ t \in {1, 2, 3} /\ ~none => Append(L(3), M4(p, q)) = L(4)
      /\ t > 0 /\ none => L(3) = L(2) /\ L(4) = L(3)
  <2>7. t \in 0..4
    BY <1>3
  <2> HIDE DEF t
  <2>6. \A s : L(s) = Left(s, t, Gone(p, q), M1(p, q), M2(p, q), M3(p, q), M4(p, q))
    BY DEF LeftOf, t
  <2> HIDE DEF L
  <2>1. t = 0 => Append(L(0), M1(p, q)) = L(1)
    <3>1. t = 0 => L(0) = <<>> /\ L(1) = <<M1(p, q)>>
      BY <2>6 DEF Left
    <3> QED BY <3>1, Queues
  <2>2. t <= 1 => Append(L(1), M2(p, q)) = L(2)
    <3>1. t = 0 => L(1) = <<M1(p, q)>> /\ L(2) = <<M1(p, q), M2(p, q)>>
      BY <2>6 DEF Left
    <3>2. t = 1 => L(1) = <<>> /\ L(2) = <<M2(p, q)>>
      BY <2>6 DEF Left
    <3>3. t <= 1 => t = 0 \/ t = 1
      BY <2>7
    <3> QED BY <3>1, <3>2, <3>3, Queues
  <2>3. t \in {1, 2} /\ ~none => Append(L(2), M3(p, q)) = L(3)
    <3>1. t = 1 /\ ~none => L(2) = <<M2(p, q)>> /\ L(3) = <<M2(p, q), M3(p, q)>>
      BY <2>6 DEF Left
    <3>2. t = 2 /\ ~none => L(2) = <<>> /\ L(3) = <<M3(p, q)>>
      BY <2>6 DEF Left
    <3> QED BY <3>1, <3>2, Queues
  <2>4. t \in {1, 2, 3} /\ ~none => Append(L(3), M4(p, q)) = L(4)
    <3>1. t = 1 /\ ~none => L(3) = <<M2(p, q), M3(p, q)>> /\ L(4) = <<M2(p, q), M3(p, q), M4(p, q)>>
      BY <2>6 DEF Left
    <3>2. t = 2 /\ ~none => L(3) = <<M3(p, q)>> /\ L(4) = <<M3(p, q), M4(p, q)>>
      BY <2>6 DEF Left
    <3>3. t = 3 /\ ~none => L(3) = <<>> /\ L(4) = <<M4(p, q)>>
      BY <2>6 DEF Left
    <3>4. t = 1 /\ ~none => Append(L(3), M4(p, q)) = L(4)
      BY <3>1, Threes, Zenon
    <3>5. t = 2 /\ ~none => Append(L(3), M4(p, q)) = L(4)
      BY <3>2, Queues, Zenon
    <3>6. t = 3 /\ ~none => Append(L(3), M4(p, q)) = L(4)
      BY <3>3, Queues, Zenon
    <3> QED BY <3>4, <3>5, <3>6
  <2>5. t > 0 /\ none => L(3) = L(2) /\ L(4) = L(3)
    BY <2>6 DEF Left
  <2> QED BY <2>1, <2>2, <2>3, <2>4, <2>5
<1>6. q \in Puts(p) <=> sent[p] <= 1 \/ ~none
  BY DEF Puts
<1>7. /\ Letter(1, p, q) = M1(p, q) /\ Letter(2, p, q) = M2(p, q)
      /\ Letter(3, p, q) = M3(p, q) /\ Letter(4, p, q) = M4(p, q)
  BY DEF Letter
<1>8. chan[p][q] = L(sent[p])
  BY <1>2
<1>9. /\ t \in 0..4
      /\ sent[p] = 0 => t = 0
      /\ sent[p] = 1 => t <= 1
      /\ sent[p] >= 2 => t >= 1
      /\ ~none /\ sent[p] = 2 => t <= 2
      /\ ~none /\ sent[p] = 3 => t <= 3
  BY <1>3, <1>4
<1>10. sent[p] = 0 \/ sent[p] = 1 \/ sent[p] = 2 \/ sent[p] = 3
  BY <1>3
<1> SUFFICES L(sent[p] + 1) = IF q \in Puts(p) THEN Append(L(sent[p]), Letter(sent[p] + 1, p, q))
                              ELSE L(sent[p])
  BY <1>8
<1> HIDE DEF L, none, t
<1>11. CASE sent[p] = 0
  BY <1>5, <1>6, <1>7, <1>9, <1>11
<1>12. CASE sent[p] = 1
  BY <1>5, <1>6, <1>7, <1>9, <1>12
<1>13. CASE sent[p] = 2
  <2>1. t \in {1, 2} \/ (none /\ t > 0)
    BY <1>9, <1>13
  <2> QED BY <1>5, <1>6, <1>7, <1>9, <1>13, <2>1
<1>14. CASE sent[p] = 3
  <2>1. t \in {1, 2, 3} \/ (none /\ t > 0)
    BY <1>9, <1>14
  <2> QED BY <1>5, <1>6, <1>7, <1>9, <1>14, <2>1
<1> QED BY <1>10, <1>11, <1>12, <1>13, <1>14

\* A step of p that takes its next messages, or sends them, or both.
Calls(p, gets, puts, msgs) ==
  /\ gets => ArrivedFrom(chan, p, Gets(p)) /\ took[p] <= 3
  /\ puts => sent[p] <= 3
  /\ chan' = [q \in PE |-> [r \in PE |-> chan'[q][r]]]
  /\ \A q, r \in PE : chan'[q][r] =
       IF r = p /\ q \in Nbrs(p) /\ gets /\ q \in Gets(p) THEN Tail(chan[q][r])
       ELSE IF q = p /\ r \in Nbrs(p) /\ puts /\ r \in Puts(p) THEN Append(chan[q][r], msgs[r])
       ELSE chan[q][r]
  /\ \A r \in Nbrs(p) : puts /\ r \in Puts(p) => msgs[r] = Letter(sent[p] + 1, p, r)

\* What p calls is as much as it counts.
Counts(p, gets, puts) ==
  /\ took'[p] = took[p] + IF gets THEN 1 ELSE 0
  /\ sent'[p] = sent[p] + IF puts THEN 1 ELSE 0

LEMMA CallsKeep ==
  ASSUME IInv, NEW p \in PE, pc[p] \in Before, pc'[p] \in Before \union {"coarse"},
         \A q \in PE : q # p => pc'[q] = pc[q] /\ sent'[q] = sent[q] /\ took'[q] = took[q],
         mate' = mate, makers' = makers, counts' = counts,
         NEW gets \in BOOLEAN, NEW puts \in BOOLEAN, NEW msgs,
         Calls(p, gets, puts, msgs), Counts(p, gets, puts),
         puts /\ sent[p] >= 2 => gets /\ took[p] >= 1
  PROVE  InStep' /\ Queues4'
<1>1. /\ \A q, r : LeftOf(sent[q], took[r], q, r)' = LeftOf(sent'[q], took'[r], q, r)
      /\ \A q, r : Gone(q, r)' = Gone(q, r)
  <2>1. \A q, r : Gone(q, r)' = Gone(q, r)
    BY PairsStay
  <2>2. \A q, r : /\ M1(q, r)' = M1(q, r) /\ M2(q, r)' = M2(q, r)
                  /\ M3(q, r)' = M3(q, r) /\ M4(q, r)' = M4(q, r)
    BY NumbersStay
  <2>3. \A q, r : LeftOf(sent[q], took[r], q, r)' = LeftOf(sent'[q], took'[r], q, r)
    BY <2>1, <2>2 DEF LeftOf, Left
  <2> QED BY <2>1, <2>3
<1>2. /\ Together
      /\ chan = [q \in PE |-> [r \in PE |-> chan[q][r]]]
      /\ \A q, r \in PE : chan[q][r] = IF q \in Nbrs(r) THEN LeftOf(sent[q], took[r], q, r) ELSE <<>>
  BY TogetherIs
<1>3. \A q \in Nbrs(p) : q \in PE /\ q # p /\ p \in Nbrs(q)
  BY Neighbours
<1>4. ASSUME gets, NEW q \in Nbrs(p)
      PROVE  /\ q \in Gets(p) => /\ sent[q] >= took[p] + 1
                                 /\ Tail(chan[q][p]) = LeftOf(sent[q], took[p] + 1, q, p)
             /\ q \notin Gets(p) => chan[q][p] = LeftOf(sent[q], took[p] + 1, q, p)
  BY <1>4, Arrives DEF Calls
<1>5. sent[p] \in 0..4 /\ took[p] \in 0..4
  BY <1>2, PacesAre
<1>6. ASSUME puts, sent[p] >= 2, NEW q \in Nbrs(p) PROVE sent[q] >= 2
  <2>1. gets /\ took[p] >= 1
    BY <1>6
  <2>2. CASE took[p] = 1
    <3>1. q \in Gets(p)
      BY <2>2 DEF Gets
    <3>2. sent[q] >= took[p] + 1
      BY <1>4, <2>1, <3>1
    <3>3. sent[q] \in 0..4
      BY <1>2, <1>3, PacesAre
    <3> QED BY <2>2, <3>2, <3>3
  <2>3. CASE took[p] >= 2
    BY <2>3 DEF IInv, InStep
  <2> QED BY <1>5, <2>1, <2>2, <2>3
<1>7. ASSUME puts, NEW q \in Nbrs(p)
      PROVE  LeftOf(sent[p] + 1, took[q], p, q) =
               IF q \in Puts(p) THEN Append(chan[p][q], Letter(sent[p] + 1, p, q)) ELSE chan[p][q]
  BY <1>6, <1>7, Departs DEF Calls
<1>8. InStep'
  <2> SUFFICES ASSUME NEW r \in PE, NEW q \in Nbrs(r)
               PROVE  /\ took'[r] >= 1 => sent'[q] >= 1
                      /\ took'[r] >= 2 => sent'[q] >= 2
                      /\ took'[r] >= 3 /\ Gone(q, r) # {} => sent'[q] >= took'[r]
    BY <1>1 DEF InStep
  <2>1. q \in PE /\ q # r /\ r \in Nbrs(q)
    BY Neighbours
  <2>2. sent[q] \in 0..4 /\ took[r] \in 0..4
    BY <1>2, <2>1, PacesAre
  <2>3. /\ took[r] >= 1 => sent[q] >= 1
        /\ took[r] >= 2 => sent[q] >= 2
        /\ took[r] >= 3 /\ Gone(q, r) # {} => sent[q] >= took[r]
    BY DEF IInv, InStep
  <2>4. CASE r = p /\ gets
    <3>1. took'[r] = took[r] + 1 /\ sent'[q] = sent[q]
      BY <2>1, <2>4 DEF Counts
    <3>2. q \in Gets(r) => sent[q] >= took[r] + 1
      BY <1>4, <2>4
    <3>3. q \in Gets(r) <=> took[r] <= 1 \/ Gone(q, r) # {}
      BY DEF Gets
    <3> HIDE DEF Gets
    <3> QED BY <2>2, <2>3, <3>1, <3>2, <3>3
  <2>5. CASE r = p /\ ~gets
    <3>1. took'[r] = took[r] /\ sent'[q] = sent[q]
      BY <2>1, <2>2, <2>5 DEF Counts
    <3> QED BY <2>3, <3>1
  <2>6. CASE q = p
    <3>1. took'[r] = took[r] /\ sent'[q] >= sent[q] /\ sent'[q] \in Nat
      BY <2>1, <2>2, <2>6 DEF Counts
    <3> QED BY <2>2, <2>3, <3>1
  <2>7. CASE r # p /\ q # p
    BY <2>1, <2>3, <2>7
  <2> QED BY <2>4, <2>5, <2>6, <2>7
<1>9. ASSUME NEW q \in PE, NEW r \in PE
      PROVE  chan'[q][r] = IF q \in Nbrs(r) THEN LeftOf(sent'[q], took'[r], q, r) ELSE <<>>
  <2>1. chan'[q][r] =
          IF r = p /\ q \in Nbrs(p) /\ gets /\ q \in Gets(p) THEN Tail(chan[q][r])
          ELSE IF q = p /\ r \in Nbrs(p) /\ puts /\ r \in Puts(p) THEN Append(chan[q][r], msgs[r])
          ELSE chan[q][r]
    BY DEF Calls
  <2>2. chan[q][r] = IF q \in Nbrs(r) THEN LeftOf(sent[q], took[r], q, r) ELSE <<>>
    BY <1>2
  <2>3. CASE q \notin Nbrs(r)
    <3>1. ~(r = p /\ q \in Nbrs(p)) /\ ~(q = p /\ r \in Nbrs(p))
      BY <1>3, <2>3
    <3> QED BY <2>1, <2>2, <2>3, <3>1
  <2>4. CASE q \in Nbrs(r) /\ r = p /\ gets
    <3>1. q # p /\ sent'[q] = sent[q] /\ took'[r] = took[p] + 1
      BY <1>3, <2>4 DEF Counts
    <3> QED BY <1>4, <2>1, <2>4, <3>1
  <2>5. CASE q \in Nbrs(r) /\ r = p /\ ~gets
    <3>1. q # p /\ sent'[q] = sent[q] /\ took'[r] = took[p]
      BY <1>3, <1>5, <2>5 DEF Counts
    <3> QED BY <2>1, <2>2, <2>5, <3>1
  <2>6. CASE q \in Nbrs(r) /\ q = p /\ puts
    <3>1. r # p /\ r \in Nbrs(p) /\ sent'[q] = sent[p] + 1 /\ took'[r] = took[r]
      BY <2>6, Neighbours DEF Counts
    <3>2. r \in Puts(p) => msgs[r] = Letter(sent[p] + 1, p, r)
      BY <2>6, <3>1 DEF Calls
    <3> QED BY <1>7, <2>1, <2>6, <3>1, <3>2
  <2>7. CASE q \in Nbrs(r) /\ q = p /\ ~puts
    <3>1. r # p /\ sent'[q] = sent[p] /\ took'[r] = took[r]
      BY <1>5, <2>7, Neighbours DEF Counts
    <3> QED BY <2>1, <2>2, <2>7, <3>1
  <2>8. CASE q \in Nbrs(r) /\ q # p /\ r # p
    BY <2>1, <2>2, <2>8
  <2> QED BY <2>3, <2>4, <2>5, <2>6, <2>7, <2>8
<1>10. Queues4'
  <2>1. \A q, r \in PE : chan'[q][r] = IF q \in Nbrs(r) THEN Queue(q, r)' ELSE <<>>
    BY <1>1, <1>9 DEF Queue, LeftOf
  <2>2. chan' = [q \in PE |-> [r \in PE |-> chan'[q][r]]]
    BY DEF Calls
  <2> QED BY <2>1, <2>2 DEF Queues4
<1> QED BY <1>8, <1>10

\* Where p is after a step before the coarse graph is there everywhere.
LEMMA PlacedMoves ==
  ASSUME IInv, NEW p \in PE, NEW t \in Before \union {"coarse"},
         pc[p] \in Before, pc' = [pc EXCEPT ![p] = t], mtype' = mtype,
         mtype = "local" => t \notin {"away", "lists", "sizes", "collapse"},
         mtype # "local" => t # "joined"
  PROVE  /\ Placed' /\ Together
         /\ pc'[p] = t
         /\ \A q \in PE : q # p => pc'[q] = pc[q] /\ sent'[q] = sent[q] /\ took'[q] = took[q]
<1>1. Placed /\ Together
  BY TogetherIs DEF IInv
<1>2. pc'[p] = t /\ \A q \in PE : q # p => pc'[q] = pc[q] /\ sent'[q] = sent[q] /\ took'[q] = took[q]
  BY <1>1, OthersStay
<1>3. \A q \in PE : pc'[q] \in Before \union {"coarse"}
  BY <1>1, <1>2 DEF Together
<1>4. pc' \in [PE -> Before \union Trimming \union After]
  BY <1>1 DEF Placed, Trimming
<1>5. \A q \in PE : pc'[q] \notin After
  BY <1>3 DEF Before, Counting, After
<1>6. \A q \in PE : mtype' = "local" => pc'[q] \notin {"away", "lists", "sizes", "collapse"}
  BY <1>1, <1>2 DEF Placed
<1>7. \A q \in PE : mtype' # "local" => pc'[q] # "joined"
  BY <1>1, <1>2 DEF Placed
<1>8. Placed'
  BY <1>1, <1>3, <1>4, <1>5, <1>6, <1>7 DEF Placed
<1> QED BY <1>1, <1>2, <1>8

\* What one PE knows.
NumbersAt(p) == \A v \in Own(p) \union Ghosts(p) :
  /\ pc[p] \in Counting => cmap[p][v] = -1
  /\ pc[p] \in {"away", "joined"} /\ v \in Own(p) => cmap[p][v] = IF v \in Early THEN num[v] ELSE -1
  /\ pc[p] = "lists" /\ v \in Own(p) => cmap[p][v] = num[v]
  /\ pc[p] \notin Counting \union {"away", "joined", "lists"} => cmap[p][v] = num[v]
ExchangeAt(p) == pc[p] \in {"sizes", "collapse"} =>
  /\ scand[p] = [q \in PE |-> Gone(p, q)]
  /\ rcand[p] = [q \in PE |-> {[key |-> mate[v], val |-> num[v]] : v \in Met(p, q)}]
CoarseAt(p) == pc[p] \in {"coarse", "noise", "median"} => cgraph[p] = [c \in Nums(p) |-> Whole(c)]

LEMMA Knowledge ==
  /\ Numbers <=> /\ cmap = [q \in PE |-> [v \in Own(q) \union Ghosts(q) |-> cmap[q][v]]]
                 /\ \A q \in PE : NumbersAt(q)
  /\ Exchange <=> /\ scand = [q \in PE |-> scand[q]] /\ rcand = [q \in PE |-> rcand[q]]
                  /\ \A q \in PE : ExchangeAt(q)
  /\ Coarse <=> cgraph = [q \in PE |-> cgraph[q]] /\ \A q \in PE : CoarseAt(q)
<1>1. \A p \in PE : NumbersAt(p) <=> \A v \in Own(p) \union Ghosts(p) :
       CASE pc[p] \in Counting -> cmap[p][v] = -1
         [] pc[p] \in {"away", "joined"} ->
              v \in Own(p) => cmap[p][v] = IF v \in Early THEN num[v] ELSE -1
         [] pc[p] = "lists" -> v \in Own(p) => cmap[p][v] = num[v]
         [] OTHER -> cmap[p][v] = num[v]
  BY DEF NumbersAt, Counting
<1>2. \A p \in PE : ExchangeAt(p) <=> (pc[p] \in {"sizes", "collapse"} =>
       /\ scand[p] = [q \in PE |-> Gone(p, q)]
       /\ rcand[p] = [q \in PE |-> {[key |-> mate[v], val |-> num[v]] : v \in Met(p, q)}])
  BY DEF ExchangeAt
<1>3. \A p \in PE : CoarseAt(p) <=>
        (pc[p] \in {"coarse", "noise", "median"} => cgraph[p] = [c \in Nums(p) |-> Whole(c)])
  BY DEF CoarseAt
<1> QED BY <1>1, <1>2, <1>3 DEF Numbers, Exchange, Coarse

\* A step of p changes what p knows.
LEMMA KnowledgeKeeps ==
  ASSUME IInv, NEW p \in PE,
         \A q \in PE : q # p => pc'[q] = pc[q],
         mate' = mate, makers' = makers, counts' = counts,
         NEW cm, cmap' = [cmap EXCEPT ![p] = cm], cm = [v \in Own(p) \union Ghosts(p) |-> cm[v]],
         NEW sc, scand' = [scand EXCEPT ![p] = sc],
         NEW rc, rcand' = [rcand EXCEPT ![p] = rc],
         NEW cg, cgraph' = [cgraph EXCEPT ![p] = cg],
         \A v \in Own(p) \union Ghosts(p) :
           /\ pc'[p] \in Counting => cm[v] = -1
           /\ pc'[p] \in {"away", "joined"} /\ v \in Own(p) => cm[v] = IF v \in Early THEN num[v] ELSE -1
           /\ pc'[p] = "lists" /\ v \in Own(p) => cm[v] = num[v]
           /\ pc'[p] \notin Counting \union {"away", "joined", "lists"} => cm[v] = num[v],
         pc'[p] \in {"sizes", "collapse"} =>
           /\ sc = [q \in PE |-> Gone(p, q)]
           /\ rc = [q \in PE |-> {[key |-> mate[v], val |-> num[v]] : v \in Met(p, q)}],
         pc'[p] \in {"coarse", "noise", "median"} => cg = [c \in Nums(p) |-> Whole(c)]
  PROVE  Numbers' /\ Exchange' /\ Coarse'
<1>1. /\ Early' = Early /\ num' = num
      /\ \A a, b : Gone(a, b)' = Gone(a, b) /\ Met(a, b)' = Met(a, b)
      /\ \A a : Nums(a)' = Nums(a)
      /\ \A c : Whole(c)' = Whole(c)
  BY PairsStay, NumbersStay
<1>2. Numbers /\ Exchange /\ Coarse
  BY DEF IInv
<1>3. /\ cmap' = [q \in PE |-> [v \in Own(q) \union Ghosts(q) |-> cmap'[q][v]]]
      /\ cmap'[p] = cm /\ \A q \in PE : q # p => cmap'[q] = cmap[q]
  <2>1. cmap = [q \in PE |-> [v \in Own(q) \union Ghosts(q) |-> cmap[q][v]]]
    BY <1>2 DEF Numbers
  <2>2. DOMAIN cmap = PE /\ \A q \in PE : cmap[q] = [v \in Own(q) \union Ghosts(q) |-> cmap[q][v]]
    BY <2>1
  <2>3. cmap' = [q \in PE |-> cmap'[q]] /\ cmap'[p] = cm /\ \A q \in PE : q # p => cmap'[q] = cmap[q]
    BY <2>2
  <2>4. ASSUME NEW q \in PE PROVE cmap'[q] = [v \in Own(q) \union Ghosts(q) |-> cmap'[q][v]]
    <3>1. CASE q = p
      BY <2>3, <3>1
    <3>2. CASE q # p
      BY <2>2, <2>3, <3>2
    <3> QED BY <3>1, <3>2
  <2> QED BY <2>3, <2>4
<1>4. /\ scand' = [q \in PE |-> scand'[q]] /\ rcand' = [q \in PE |-> rcand'[q]]
      /\ scand'[p] = sc /\ rcand'[p] = rc
      /\ \A q \in PE : q # p => scand'[q] = scand[q] /\ rcand'[q] = rcand[q]
  BY <1>2 DEF Exchange
<1>5. /\ cgraph' = [q \in PE |-> cgraph'[q]] /\ cgraph'[p] = cg
      /\ \A q \in PE : q # p => cgraph'[q] = cgraph[q]
  BY <1>2 DEF Coarse
<1>6. /\ \A q \in PE : NumbersAt(q) /\ ExchangeAt(q) /\ CoarseAt(q)
  BY <1>2, Knowledge
<1>7. ASSUME NEW q \in PE PROVE NumbersAt(q)'
  <2>1. CASE q = p
    BY <1>1, <1>3, <2>1 DEF NumbersAt
  <2>2. CASE q # p
    BY <1>1, <1>3, <1>6, <2>2 DEF NumbersAt
  <2> QED BY <2>1, <2>2
<1>8. ASSUME NEW q \in PE PROVE ExchangeAt(q)'
  <2>1. [r \in PE |-> Gone(q, r)]' = [r \in PE |-> Gone(q, r)]
    BY <1>1
  <2>2. [r \in PE |-> {[key |-> mate[v], val |-> num[v]] : v \in Met(q, r)}]'
          = [r \in PE |-> {[key |-> mate[v], val |-> num[v]] : v \in Met(q, r)}]
    BY <1>1
  <2>3. ExchangeAt(q)' <=> (pc'[q] \in {"sizes", "collapse"} =>
          /\ scand'[q] = [r \in PE |-> Gone(q, r)]
          /\ rcand'[q] = [r \in PE |-> {[key |-> mate[v], val |-> num[v]] : v \in Met(q, r)}])
    BY <2>1, <2>2, Zenon DEF ExchangeAt
  <2>4. CASE q = p
    BY <1>4, <2>3, <2>4
  <2>5. CASE q # p
    BY <1>4, <1>6, <2>3, <2>5 DEF ExchangeAt
  <2> QED BY <2>4, <2>5
<1>9. ASSUME NEW q \in PE PROVE CoarseAt(q)'
  <2>1. CASE q = p
    BY <1>1, <1>5, <2>1 DEF CoarseAt
  <2>2. CASE q # p
    BY <1>1, <1>5, <1>6, <2>2 DEF CoarseAt
  <2> QED BY <2>1, <2>2
<1>10. Numbers'
  <2>1. ASSUME NEW q \in PE, NEW v \in Own(q) \union Ghosts(q)
        PROVE  (CASE pc[q] \in Counting -> cmap[q][v] = -1
                  [] pc[q] \in {"away", "joined"} ->
                       v \in Own(q) => cmap[q][v] = IF v \in Early THEN num[v] ELSE -1
                  [] pc[q] = "lists" -> v \in Own(q) => cmap[q][v] = num[v]
                  [] OTHER -> cmap[q][v] = num[v])'
    BY <1>7 DEF NumbersAt, Counting
  <2> QED BY <1>3, <2>1, Zenon DEF Numbers
<1>11. Exchange'
  BY <1>4, <1>8, Zenon DEF Exchange, ExchangeAt
<1>12. Coarse'
  BY <1>5, <1>9, Zenon DEF Coarse, CoarseAt
<1> QED BY <1>10, <1>11, <1>12

-----------------------------------------------------------------------------
(* The steps before the coarse graph is there.                             *)

LEMMA CountKeeps == ASSUME IInv, NEW p \in PE, Count(p) PROVE IInv'
<1>1. /\ pc[p] = "count" /\ pc' = [pc EXCEPT ![p] = "number"]
      /\ counts' = [counts EXCEPT ![p] = Cardinality({v \in Own(p) : Keeps(match[v])})]
      /\ mtype' = mtype /\ match' = match /\ cmap' = cmap /\ scand' = scand /\ rcand' = rcand
      /\ cgraph' = cgraph /\ chan' = chan
  BY DEF Count, dropping
<1>2. Mated /\ Counted /\ Placed /\ Numbers /\ Exchange /\ Coarse
  BY DEF IInv
<1>3. pc[p] \in Before /\ "number" \in Before
  BY <1>1 DEF Before, Counting
<1>4. /\ Placed' /\ Together /\ pc'[p] = "number"
      /\ \A q \in PE : q # p => pc'[q] = pc[q]
  BY <1>1, <1>3, PlacedMoves
<1>5. \A q \in PE : pc[q] \in Counting /\ pc'[q] \in Counting
  BY <1>1, <1>2, <1>4 DEF Counted, Counting
<1>6. mate' = mate /\ makers' = makers /\ \A q : Makes(q)' = Makes(q)
  BY <1>1, MatchStays, PairsStay
<1>7. Mated'
  BY <1>1, <1>2, <1>5, MatedStays
<1>8. {v \in Own(p) : Keeps(match[v])} = Makes(p)
  <2> SUFFICES ASSUME NEW v \in Own(p) PROVE Keeps(match[v]) <=> v \in makers
    BY MakesAre
  <2>1. v \in Vertex /\ Owner[v] = p
    BY OwnIs
  <2>2. mate[v] \in Vertex /\ v \in Nat /\ mate[v] \in Nat
    BY <1>2, <2>1, Pairs, VerticesAre
  <2>3. mate[v] # v /\ Owner[mate[v]] = Owner[v] => (Keeps(match[v]) <=> v < mate[v])
    BY <1>2, <1>5, <2>1 DEF Mated
  <2>4. v \in makers <=> Keeps(match[v]) /\ ~(Owner[mate[v]] = Owner[v] /\ mate[v] < v)
    BY <2>1 DEF makers
  <2> QED BY <2>2, <2>3, <2>4
<1>9. Counted'
  <2>1. counts' = [q \in PE |-> IF pc'[q] = "count" THEN -1 ELSE Cardinality(Makes(q))]
    <3>1. counts = [q \in PE |-> IF pc[q] = "count" THEN -1 ELSE Cardinality(Makes(q))]
      BY <1>2 DEF Counted
    <3> QED BY <1>1, <1>4, <1>8, <3>1
  <2> QED BY <1>5, <1>6, <2>1 DEF Counted
<1>10. \A q \in PE : sent[q] = 0 /\ took[q] = 0 /\ sent'[q] = 0 /\ took'[q] = 0
  BY <1>5 DEF sent, took
<1>11. InStep'
  BY <1>10, NbrsIn DEF InStep
<1>12. Numbers'
  <2>1. \A q \in PE : \A v \in Own(q) \union Ghosts(q) : cmap[q][v] = -1
    BY <1>2, <1>5, Knowledge DEF NumbersAt
  <2>2. ASSUME NEW q \in PE, NEW v \in Own(q) \union Ghosts(q)
        PROVE  (CASE pc[q] \in Counting -> cmap[q][v] = -1
                  [] pc[q] \in {"away", "joined"} ->
                       v \in Own(q) => cmap[q][v] = IF v \in Early THEN num[v] ELSE -1
                  [] pc[q] = "lists" -> v \in Own(q) => cmap[q][v] = num[v]
                  [] OTHER -> cmap[q][v] = num[v])'
    BY <1>1, <1>5, <2>1 DEF Counting
  <2>3. cmap' = [q \in PE |-> [v \in Own(q) \union Ghosts(q) |-> cmap'[q][v]]]
    BY <1>1, <1>2, Zenon DEF Numbers
  <2> QED BY <2>2, <2>3, Zenon DEF Numbers
<1>13. Exchange' /\ Coarse'
  <2>1. \A q \in PE : pc'[q] \notin {"sizes", "collapse", "coarse", "noise", "median"}
    BY <1>5 DEF Counting
  <2> QED BY <1>1, <1>2, <2>1 DEF Exchange, Coarse
<1>14. Queues4'
  <2>1. /\ chan = [q \in PE |-> [r \in PE |-> chan[q][r]]]
        /\ \A q, r \in PE : chan[q][r] = IF q \in Nbrs(r) THEN LeftOf(sent[q], took[r], q, r) ELSE <<>>
    BY <1>3, TogetherIs
  <2>2. \A q, r \in PE : chan[q][r] = <<>>
    BY <1>10, <2>1 DEF LeftOf, Left
  <2>3. \A q, r \in PE : Queue(q, r)' = <<>>
    BY <1>10 DEF Queue, Left
  <2> QED BY <1>1, <2>1, <2>2, <2>3 DEF Queues4
<1> QED BY <1>4, <1>7, <1>9, <1>11, <1>12, <1>13, <1>14 DEF IInv

\* The larger vertices of the local pairs get KeepBit, and nothing else changes.
LEMMA JoinedKeep ==
  ASSUME IInv, NEW p \in PE, pc[p] = "number", pc'[p] \notin Counting, AllCounted,
         \A q \in PE : q # p => pc'[q] = pc[q], mtype' = mtype, counts' = counts,
         match' = [v \in Vertex |->
                     match[v] + IF v \in Joined(p) /\ ~Keeps(match[v]) THEN KeepBit ELSE 0]
  PROVE  /\ Makers(p) = Makes(p)
         /\ \A v \in Own(p) : v \in Joined(p) <=> v \notin makers /\ v \in Early
         /\ mate' = mate /\ makers' = makers /\ Mated' /\ Counted'
<1>1. Mated /\ Counted /\ Placed
  BY DEF IInv
<1>2. Makers(p) = Makes(p)
  <2> SUFFICES ASSUME NEW v \in Own(p)
               PROVE  v \in makers <=>
                        Keeps(match[v]) /\ ~(Local(Partner(match[v]), v) /\ Partner(match[v]) < v)
    BY DEF Makers, Makes
  <2>1. v \in Vertex /\ mate[v] = Partner(match[v])
    BY OwnIs DEF mate
  <2> QED BY <2>1 DEF makers, Local
<1>3. ASSUME NEW v \in Vertex
      PROVE  /\ mate[v] = Partner(match[v]) /\ mate[v] \in Vertex /\ v \in Nat /\ mate[v] \in Nat
             /\ mate[mate[v]] = v
             /\ v \in makers <=> Keeps(match[v]) /\ ~(Owner[mate[v]] = Owner[v] /\ mate[v] < v)
  <2>1. mate[v] \in Vertex /\ mate[mate[v]] = v
    BY <1>1, Pairs
  <2> QED BY <2>1, VerticesAre DEF mate, makers
<1>4. ASSUME NEW v \in Vertex
      PROVE  v \in Joined(p) <=> /\ Owner[v] = p /\ v \notin makers
                                 /\ Owner[mate[v]] = p /\ mate[v] \in makers
  <2>1. v \in Joined(p) <=> v \in Own(p) /\ v \notin Makes(p) /\ mate[v] \in Makes(p)
    BY <1>2, <1>3 DEF Joined
  <2> QED BY <1>3, <2>1, MakesAre, OwnIs
<1>5. \A v \in Own(p) : v \in Joined(p) <=> v \notin makers /\ v \in Early
  <2> SUFFICES ASSUME NEW v \in Own(p) PROVE v \in Joined(p) <=> v \notin makers /\ v \in Early
    OBVIOUS
  <2>1. v \in Vertex /\ Owner[v] = p
    BY OwnIs
  <2>2. v \notin makers => mate[v] \in makers
    BY <1>1, <2>1, Pairs
  <2>3. v \in Early <=> v \in makers \/ Owner[mate[v]] = Owner[v]
    BY <2>1 DEF Early
  <2> QED BY <1>4, <2>1, <2>2, <2>3
<1>6. ASSUME NEW v \in Vertex
      PROVE  /\ Partner(match'[v]) = mate[v]
             /\ match'[v] \in {mate[v], mate[v] + KeepBit}
             /\ Keeps(match'[v]) <=> Keeps(match[v]) \/ v \in Joined(p)
  <2>1. match'[v] = match[v] + IF v \in Joined(p) /\ ~Keeps(match[v]) THEN KeepBit ELSE 0
    OBVIOUS
  <2>2. match[v] = IF Keeps(match[v]) THEN mate[v] + KeepBit ELSE mate[v]
    BY <1>1, MatchIs
  <2>3. mate[v] \in Nat /\ mate[v] < KeepBit /\ KeepBit \in Nat
    BY <1>3, VerticesAre
  <2>4. CASE Keeps(match[v])
    <3>1. match'[v] = mate[v] + KeepBit /\ match[v] = mate[v] + KeepBit
      BY <2>1, <2>2, <2>3, <2>4
    <3> QED BY <1>3, <2>4, <3>1
  <2>5. CASE ~Keeps(match[v]) /\ v \in Joined(p)
    <3>1. match'[v] = mate[v] + KeepBit
      BY <2>1, <2>2, <2>3, <2>5
    <3> QED BY <2>3, <2>5, <3>1 DEF Partner, Keeps
  <2>6. CASE ~Keeps(match[v]) /\ v \notin Joined(p)
    <3>1. match'[v] = mate[v] /\ match[v] = mate[v]
      BY <2>1, <2>2, <2>3, <2>6
    <3> QED BY <1>3, <2>6, <3>1
  <2> QED BY <2>4, <2>5, <2>6
<1>7. mate' = mate
  <2>1. \A v \in Vertex : Partner(match'[v]) = mate[v]
    BY <1>6
  <2>2. mate = [v \in Vertex |-> mate[v]]
    BY DEF mate
  <2>3. mate' = [v \in Vertex |-> Partner(match'[v])]
    BY DEF mate
  <2> QED BY <2>1, <2>2, <2>3
<1>8. makers' = makers
  <2>1. makers' = {v \in Vertex : Keeps(match'[v]) /\ ~(Owner[mate[v]] = Owner[v] /\ mate[v] < v)}
    BY <1>7 DEF makers
  <2>2. ASSUME NEW v \in Vertex, v \in Joined(p) PROVE Owner[mate[v]] = Owner[v] /\ mate[v] < v
    <3>1. v \notin makers /\ mate[v] \in makers /\ Owner[mate[v]] = Owner[v]
      BY <1>4, <2>2
    <3>2. mate[v] # v
      BY <3>1
    <3>3. mate[v] <= mate[mate[v]]
      BY <1>1, <1>3, <3>1, MakersAre
    <3> QED BY <1>3, <3>1, <3>2, <3>3
  <2>3. \A v \in Vertex : v \in makers <=> Keeps(match'[v]) /\ ~(Owner[mate[v]] = Owner[v] /\ mate[v] < v)
    BY <1>3, <1>6, <2>2
  <2>4. makers \subseteq Vertex
    BY DEF makers
  <2> QED BY <2>1, <2>3, <2>4
<1>9. Mated'
  <2> SUFFICES ASSUME NEW v \in Vertex
               PROVE  /\ mate[v] \in Vertex /\ match'[v] \in {mate[v], mate[v] + KeepBit}
                      /\ mate[mate[v]] = v
                      /\ mate[v] = v => Keeps(match'[v])
                      /\ mate[v] # v /\ Owner[mate[v]] = Owner[v] =>
                           (Keeps(match'[v]) <=> v < mate[v] \/ pc'[Owner[v]] \notin Counting)
                      /\ Owner[mate[v]] # Owner[v] => /\ mate[v] \in Adj[v]
                                                      /\ Keeps(match'[mate[v]]) <=> ~Keeps(match'[v])
                      /\ mtype = "local" => Owner[mate[v]] = Owner[v]
    BY <1>7 DEF Mated
  <2>1. /\ mate[v] = v => Keeps(match[v])
        /\ mate[v] # v /\ Owner[mate[v]] = Owner[v] =>
                           (Keeps(match[v]) <=> v < mate[v] \/ pc[Owner[v]] \notin Counting)
        /\ Owner[mate[v]] # Owner[v] => /\ mate[v] \in Adj[v]
                                        /\ Keeps(match[mate[v]]) <=> ~Keeps(match[v])
        /\ mtype = "local" => Owner[mate[v]] = Owner[v]
    BY <1>1 DEF Mated
  <2>2. ASSUME mate[v] # v, Owner[mate[v]] = Owner[v]
        PROVE  Keeps(match'[v]) <=> v < mate[v] \/ pc'[Owner[v]] \notin Counting
    <3>1. CASE Owner[v] = p
      <4>1. v \in makers => Keeps(match[v])
        BY <1>3
      <4>2. v \notin makers => mate[v] \in makers
        BY <1>1, Pairs
      <4>3. v \notin makers => v \in Joined(p)
        BY <1>4, <2>2, <3>1, <4>2
      <4> QED BY <1>6, <3>1, <4>1, <4>3
    <3>2. CASE Owner[v] # p
      <4>1. v \notin Joined(p)
        BY <1>4, <3>2
      <4>2. pc'[Owner[v]] = pc[Owner[v]]
        BY <3>2, OwnerIn
      <4> QED BY <1>6, <2>1, <2>2, <4>1, <4>2
    <3> QED BY <3>1, <3>2
  <2>3. ASSUME Owner[mate[v]] # Owner[v] PROVE Keeps(match'[mate[v]]) <=> ~Keeps(match'[v])
    <3>1. v \notin Joined(p) /\ mate[v] \notin Joined(p)
      BY <1>3, <1>4, <2>3
    <3> QED BY <1>3, <1>6, <2>1, <2>3, <3>1
  <2> QED BY <1>3, <1>6, <2>1, <2>2, <2>3
<1>10. Counted'
  <2>1. \A q : Makes(q)' = Makes(q)
    BY <1>7, <1>8, PairsStay
  <2>2. \A q \in PE : pc'[q] # "count" /\ pc[q] # "count"
    BY DEF AllCounted, Counting
  <2>3. counts = [q \in PE |-> Cardinality(Makes(q))]
    BY <1>1, <2>2 DEF Counted
  <2> QED BY <2>1, <2>2, <2>3 DEF Counted
<1> QED BY <1>2, <1>5, <1>7, <1>8, <1>9, <1>10

\* A step of p between two phases, put together.
LEMMA StepIs ==
  ASSUME IInv, NEW p \in PE, NEW s \in Before, NEW t \in Before \union {"coarse"}, Moves(p, s, t),
         mtype' = mtype, mate' = mate, makers' = makers, counts' = counts, Mated', Counted',
         mtype = "local" => t \notin {"away", "lists", "sizes", "collapse"},
         mtype # "local" => t # "joined",
         NEW gets \in BOOLEAN, NEW puts \in BOOLEAN, NEW msgs,
         Calls(p, gets, puts, msgs), Counts(p, gets, puts),
         puts /\ sent[p] >= 2 => gets /\ took[p] >= 1,
         Numbers', Exchange', Coarse'
  PROVE  IInv'
<1>1. pc[p] = s /\ pc' = [pc EXCEPT ![p] = t]
  BY DEF Moves
<1>2. /\ Placed' /\ Together /\ pc'[p] = t
      /\ \A q \in PE : q # p => pc'[q] = pc[q] /\ sent'[q] = sent[q] /\ took'[q] = took[q]
  BY <1>1, PlacedMoves
<1>3. InStep' /\ Queues4'
  BY <1>1, <1>2, CallsKeep
<1> QED BY <1>2, <1>3 DEF IInv

\* What is sent to a neighbour is about p's own vertices.
LEMMA InterfaceIs ==
  ASSUME NEW p \in PE, NEW q \in PE, NEW new
  PROVE  /\ Send(p, q) \subseteq Own(p)
         /\ Interface(p, q, new) = [v \in Send(p, q) |-> new[v]]
BY SendIs DEF Interface

\* The channels after a step of p.
LEMMA Both ==
  ASSUME IInv, NEW p \in PE, pc[p] \in Before, NEW From, NEW msgs, From \subseteq Nbrs(p),
         DOMAIN msgs \subseteq Nbrs(p), chan' = Post(Take(chan, p, From), p, msgs)
  PROVE  /\ chan' = [q \in PE |-> [r \in PE |-> chan'[q][r]]]
         /\ \A q, r \in PE : chan'[q][r] =
              IF r = p /\ q \in From THEN Tail(chan[q][r])
              ELSE IF q = p /\ r \in DOMAIN msgs THEN Append(chan[q][r], msgs[r])
              ELSE chan[q][r]
<1> DEFINE mid == Take(chan, p, From)
<1>1. chan = [q \in PE |-> [r \in PE |-> chan[q][r]]]
  BY TogetherIs
<1>2. /\ mid = [q \in PE |-> [r \in PE |-> mid[q][r]]]
      /\ \A q, r \in PE : mid[q][r] = IF q \in From /\ r = p THEN Tail(chan[q][r]) ELSE chan[q][r]
  BY <1>1, Taken
<1> HIDE DEF mid
<1>3. chan' = Post(mid, p, msgs)
  BY DEF mid
<1>4. /\ chan' = [q \in PE |-> [r \in PE |-> chan'[q][r]]]
      /\ \A q, r \in PE : chan'[q][r] =
           IF q = p /\ r \in DOMAIN msgs THEN Append(mid[q][r], msgs[r]) ELSE mid[q][r]
  BY <1>2, <1>3, Posted
<1>5. \A q \in From : q # p
  BY Neighbours
<1>6. \A q \in DOMAIN msgs : q # p
  BY Neighbours
<1> QED BY <1>2, <1>4, <1>5, <1>6

LEMMA NumberKeeps == ASSUME IInv, NEW p \in PE, Number(p) PROVE IInv'
<1> DEFINE next(v) == cvtxdist(p) + Cardinality({u \in Makers(p) : u < v})
           new == [v \in DOMAIN cmap[p] |-> IF v \in Makers(p) THEN next(v)
                                           ELSE IF v \in Joined(p) THEN next(Partner(match[v]))
                                           ELSE cmap[p][v]]
           msgs == [q \in Nbrs(p) |-> Interface(p, q, new)]
           t == IF mtype = "local" THEN "joined" ELSE "away"
<1>1. /\ pc[p] = "number" /\ \A q \in PE : counts[q] # -1
      /\ match' = [v \in Vertex |->
                     match[v] + IF v \in Joined(p) /\ ~Keeps(match[v]) THEN KeepBit ELSE 0]
      /\ cmap' = [cmap EXCEPT ![p] = new] /\ chan' = Post(chan, p, msgs)
      /\ pc' = [pc EXCEPT ![p] = t]
      /\ mtype' = mtype /\ counts' = counts /\ scand' = scand /\ rcand' = rcand /\ cgraph' = cgraph
  BY DEF Number, dropping
<1>2. t \in {"joined", "away"} /\ t \in Before /\ t \notin Counting /\ pc[p] \in Before /\ pc[p] \in Counting
  BY <1>1 DEF Before, Counting
<1>3. Mated /\ Counted /\ Placed
  BY DEF IInv
<1>4. AllCounted
  BY <1>1, <1>3 DEF AllCounted, Counted
<1>5. /\ Placed' /\ Together /\ pc'[p] = t
      /\ \A q \in PE : q # p => pc'[q] = pc[q] /\ sent'[q] = sent[q] /\ took'[q] = took[q]
  BY <1>1, <1>2, PlacedMoves
<1>6. /\ Makers(p) = Makes(p)
      /\ \A v \in Own(p) : v \in Joined(p) <=> v \notin makers /\ v \in Early
      /\ mate' = mate /\ makers' = makers /\ Mated' /\ Counted'
  BY <1>1, <1>2, <1>4, <1>5, JoinedKeep
<1>7. DOMAIN cmap[p] = Own(p) \union Ghosts(p)
      /\ \A v \in Own(p) \union Ghosts(p) : cmap[p][v] = -1
  <2>1. cmap = [q \in PE |-> [v \in Own(q) \union Ghosts(q) |-> cmap[q][v]]] /\ NumbersAt(p)
    BY Knowledge DEF IInv
  <2> QED BY <1>2, <2>1 DEF NumbersAt
<1>8. ASSUME NEW v \in Vertex, Owner[maker[v]] = p PROVE num[v] = next(maker[v])
  <2>1. maker[v] \in Vertex
    BY <1>3, Pairs
  <2>2. p \in 0..npes
    BY NpesAssumption DEF PE
  <2>3. first[p] = cvtxdist(p)
    BY <2>2 DEF first
  <2>4. rank[maker[v]] = Cardinality({u \in Makes(p) : u < maker[v]})
    BY <1>8, <2>1 DEF rank
  <2> QED BY <1>6, <1>8, <2>3, <2>4 DEF num
<1>9. ASSUME NEW v \in Own(p) PROVE new[v] = IF v \in Early THEN num[v] ELSE -1
  <2>1. v \in Vertex /\ Owner[v] = p
    BY OwnIs
  <2>2. v \in Early => Owner[maker[v]] = p
    BY <1>3, <2>1, EarlyAre
  <2>3. v \in makers => v \in Early /\ maker[v] = v /\ v \in Makers(p)
    BY <1>6, <2>1, MakesAre DEF Early, maker
  <2>4. v \notin makers => v \notin Makers(p) /\ maker[v] = mate[v] /\ mate[v] = Partner(match[v])
    BY <1>6, <2>1, MakesAre DEF maker, mate
  <2>5. new[v] = IF v \in Makers(p) THEN next(v)
                 ELSE IF v \in Joined(p) THEN next(Partner(match[v])) ELSE cmap[p][v]
    BY <1>7
  <2> HIDE DEF new, next
  <2>6. CASE v \in makers
    BY <1>8, <2>1, <2>2, <2>3, <2>5, <2>6
  <2>7. CASE v \notin makers /\ v \in Early
    BY <1>6, <1>8, <2>1, <2>2, <2>4, <2>5, <2>7
  <2>8. CASE v \notin Early
    BY <1>6, <1>7, <2>3, <2>4, <2>5, <2>8
  <2> QED BY <2>6, <2>7, <2>8
<1>10. new = [v \in Own(p) \union Ghosts(p) |-> new[v]]
  BY <1>7
<1> HIDE DEF new, next
<1>11. Numbers' /\ Exchange' /\ Coarse'
  <2>1. scand' = [scand EXCEPT ![p] = scand[p]] /\ rcand' = [rcand EXCEPT ![p] = rcand[p]]
        /\ cgraph' = [cgraph EXCEPT ![p] = cgraph[p]]
    <3>1. scand = [q \in PE |-> scand[q]] /\ rcand = [q \in PE |-> rcand[q]] /\ cgraph = [q \in PE |-> cgraph[q]]
      BY DEF IInv, Exchange, Coarse
    <3> QED BY <1>1, <3>1
  <2>2. pc'[p] \in {"joined", "away"}
    BY <1>2, <1>5
  <2>3. \A q \in PE : q # p => pc'[q] = pc[q]
    BY <1>5
  <2>4. \A v \in Own(p) \union Ghosts(p) :
           /\ pc'[p] \in Counting => new[v] = -1
           /\ pc'[p] \in {"away", "joined"} /\ v \in Own(p) => new[v] = IF v \in Early THEN num[v] ELSE -1
           /\ pc'[p] = "lists" /\ v \in Own(p) => new[v] = num[v]
           /\ pc'[p] \notin Counting \union {"away", "joined", "lists"} => new[v] = num[v]
    BY <1>9, <2>2 DEF Counting
  <2>5. pc'[p] \notin {"sizes", "collapse"} /\ pc'[p] \notin {"coarse", "noise", "median"}
    BY <2>2
  <2>6. cmap' = [cmap EXCEPT ![p] = new] /\ counts' = counts
    BY <1>1
  <2>7. mate' = mate /\ makers' = makers
    BY <1>6
  <2> QED BY <1>10, <2>1, <2>3, <2>4, <2>5, <2>6, <2>7, KnowledgeKeeps
<1>12. /\ sent[p] = 0 /\ took[p] = 0 /\ sent'[p] = 1 /\ took'[p] = 0
  BY <1>1, <1>2, <1>5 DEF sent, took, Counting
<1>13. \A q \in Nbrs(p) : msgs[q] = M1(p, q)
  <2> SUFFICES ASSUME NEW q \in Nbrs(p) PROVE msgs[q] = M1(p, q)
    OBVIOUS
  <2>1. q \in PE
    BY NbrsIn
  <2>2. msgs[q] = [v \in Send(p, q) |-> new[v]] /\ Send(p, q) \subseteq Own(p)
    BY <2>1, InterfaceIs
  <2> QED BY <1>9, <2>2 DEF M1
<1>14. Calls(p, FALSE, TRUE, msgs)
  <2>1. chan = [q \in PE |-> [r \in PE |-> chan[q][r]]]
    BY <1>2, TogetherIs
  <2>2. Nbrs(p) = DOMAIN msgs
    OBVIOUS
  <2> HIDE DEF msgs
  <2>3. /\ chan' = [q \in PE |-> [r \in PE |-> chan'[q][r]]]
        /\ \A q, r \in PE : chan'[q][r] =
             IF q = p /\ r \in DOMAIN msgs THEN Append(chan[q][r], msgs[r]) ELSE chan[q][r]
    BY <1>1, <2>1, Posted
  <2>4. Puts(p) = Nbrs(p)
    BY <1>12 DEF Puts
  <2>5. \A r \in Nbrs(p) : msgs[r] = Letter(sent[p] + 1, p, r)
    BY <1>12, <1>13 DEF Letter
  <2> QED BY <1>12, <2>2, <2>3, <2>4, <2>5 DEF Calls
<1>15. Counts(p, FALSE, TRUE)
  BY <1>12 DEF Counts
<1> HIDE DEF msgs
<1>16. Moves(p, "number", t) /\ "number" \in Before
  BY <1>1 DEF Moves, Before, Counting
<1>17. /\ mtype = "local" => t \notin {"away", "lists", "sizes", "collapse"}
       /\ mtype # "local" => t # "joined"
  OBVIOUS
<1>18. ~(sent[p] >= 2)
  BY <1>12
<1> HIDE DEF t
<1> QED BY <1>1, <1>2, <1>6, <1>11, <1>14, <1>15, <1>16, <1>17, <1>18, StepIs

LEMMA CallsBoth ==
  ASSUME IInv, NEW p \in PE, pc[p] \in Before, ArrivedFrom(chan, p, Gets(p)),
         took[p] <= 3, sent[p] <= 3, NEW msgs, DOMAIN msgs = Puts(p),
         chan' = Post(Take(chan, p, Gets(p)), p, msgs),
         \A r \in Puts(p) : msgs[r] = Letter(sent[p] + 1, p, r)
  PROVE  Calls(p, TRUE, TRUE, msgs)
<1>1. Gets(p) \subseteq Nbrs(p) /\ Puts(p) \subseteq Nbrs(p)
  BY DEF Gets, Puts
<1>2. /\ chan' = [q \in PE |-> [r \in PE |-> chan'[q][r]]]
      /\ \A q, r \in PE : chan'[q][r] =
           IF r = p /\ q \in Gets(p) THEN Tail(chan[q][r])
           ELSE IF q = p /\ r \in Puts(p) THEN Append(chan[q][r], msgs[r])
           ELSE chan[q][r]
  BY <1>1, Both
<1> QED BY <1>1, <1>2 DEF Calls

LEMMA CallsTake ==
  ASSUME IInv, NEW p \in PE, pc[p] \in Before, ArrivedFrom(chan, p, Gets(p)), took[p] <= 3,
         chan' = Take(chan, p, Gets(p))
  PROVE  Calls(p, TRUE, FALSE, <<>>)
<1>1. Gets(p) \subseteq Nbrs(p)
  BY DEF Gets
<1>2. chan = [q \in PE |-> [r \in PE |-> chan[q][r]]]
  BY TogetherIs
<1>3. /\ chan' = [q \in PE |-> [r \in PE |-> chan'[q][r]]]
      /\ \A q, r \in PE : chan'[q][r] = IF q \in Gets(p) /\ r = p THEN Tail(chan[q][r]) ELSE chan[q][r]
  BY <1>2, Taken
<1> QED BY <1>1, <1>3 DEF Calls

\* What p has after an exchange.
LEMMA ExchangedIs ==
  ASSUME NEW p \in PE, NEW data, DOMAIN data = Own(p) \union Ghosts(p),
         NEW new, new = Exchanged(chan, p, data)
  PROVE  /\ \A v \in Own(p) : new[v] = data[v]
         /\ \A v \in Ghosts(p) : v \in DOMAIN Head(chan[Owner[v]][p]) =>
                                  new[v] = Head(chan[Owner[v]][p])[v]
<1>1. \A v \in Own(p) : v \notin Ghosts(p)
  BY OwnIs, GhostsAre
<1>2. new = [v \in Own(p) \union Ghosts(p) |->
               IF v \in Ghosts(p) /\ v \in DOMAIN Head(chan[Owner[v]][p])
               THEN Head(chan[Owner[v]][p])[v] ELSE data[v]]
  BY DEF Exchanged
<1> QED BY <1>1, <1>2

\* What p knows now.
LEMMA KnownNow ==
  ASSUME IInv, NEW p \in PE
  PROVE  /\ NumbersAt(p) /\ ExchangeAt(p) /\ CoarseAt(p)
         /\ cmap[p] = [v \in Own(p) \union Ghosts(p) |-> cmap[p][v]]
         /\ cmap = [q \in PE |-> cmap[q]]
         /\ scand = [q \in PE |-> scand[q]] /\ rcand = [q \in PE |-> rcand[q]]
         /\ cgraph = [q \in PE |-> cgraph[q]]
<1>1. /\ cmap = [q \in PE |-> [v \in Own(q) \union Ghosts(q) |-> cmap[q][v]]]
      /\ NumbersAt(p) /\ ExchangeAt(p) /\ CoarseAt(p)
      /\ scand = [q \in PE |-> scand[q]] /\ rcand = [q \in PE |-> rcand[q]]
      /\ cgraph = [q \in PE |-> cgraph[q]]
  BY Knowledge DEF IInv
<1>2. DOMAIN cmap = PE /\ cmap[p] = [v \in Own(p) \union Ghosts(p) |-> cmap[p][v]]
  BY <1>1
<1>3. cmap = [q \in PE |-> cmap[q]]
  BY <1>1
<1> QED BY <1>1, <1>2, <1>3

LEMMA AwayKeeps == ASSUME IInv, NEW p \in PE, Away(p) PROVE IInv'
<1> DEFINE new == Exchanged(chan, p, cmap[p])
           full == [v \in DOMAIN new |->
                      IF v \in Own(p) /\ ~Keeps(match[v]) THEN new[match[v]] ELSE new[v]]
           msgs == [q \in Nbrs(p) |-> Interface(p, q, full)]
           early == [v \in Vertex |-> IF v \in Early THEN num[v] ELSE -1]
<1>1. /\ pc[p] = "away" /\ ArrivedFrom(chan, p, Nbrs(p))
      /\ cmap' = [cmap EXCEPT ![p] = full]
      /\ chan' = Post(Take(chan, p, Nbrs(p)), p, msgs)
      /\ pc' = [pc EXCEPT ![p] = "lists"]
      /\ mtype' = mtype /\ match' = match /\ counts' = counts /\ scand' = scand /\ rcand' = rcand
      /\ cgraph' = cgraph
  BY DEF Away, dropping
<1>2. pc[p] \in Before /\ pc[p] \notin Counting /\ "away" \in Before /\ "lists" \in Before
      /\ "away" \notin Counting /\ "lists" \notin Counting
  BY <1>1 DEF Before, Counting
<1>3. Moves(p, "away", "lists")
  BY <1>1 DEF Moves
<1>4. Mated /\ Placed
  BY DEF IInv
<1>5. /\ mate' = mate /\ makers' = makers /\ Mated' /\ Counted' /\ pc'[p] = "lists"
      /\ \A q \in PE : q # p => pc'[q] = pc[q]
  BY <1>1, <1>2, <1>3, Steady
<1>6. mtype # "local"
  BY <1>1, <1>4 DEF Placed
<1>7. sent[p] = 1 /\ took[p] = 0 /\ sent'[p] = 2 /\ took'[p] = 1
  BY <1>1, <1>2, <1>5, <1>6 DEF sent, took, Counting
<1>8. Gets(p) = Nbrs(p) /\ Puts(p) = Nbrs(p)
  BY <1>7 DEF Gets, Puts
<1>9. \A q \in Nbrs(p) : Head(chan[q][p]) = M1(q, p)
  BY <1>1, <1>2, <1>7, <1>8, Arrives DEF Letter
<1>10. \A q \in Nbrs(p) : Head(chan[q][p]) = [v \in Send(q, p) |-> early[v]]
  <2> SUFFICES ASSUME NEW q \in Nbrs(p) PROVE Head(chan[q][p]) = [v \in Send(q, p) |-> early[v]]
    OBVIOUS
  <2>1. \A v \in Send(q, p) : v \in Vertex
    BY NbrsIn, SendIs, OwnIs
  <2> QED BY <1>9, <2>1 DEF M1
<1>11. /\ cmap[p] = [v \in Own(p) \union Ghosts(p) |-> cmap[p][v]]
       /\ \A v \in Own(p) : cmap[p][v] = IF v \in Early THEN num[v] ELSE -1
  BY <1>1, KnownNow DEF NumbersAt
<1> HIDE DEF new, early
<1>12. /\ new = [v \in Own(p) \union Ghosts(p) |-> new[v]]
       /\ \A v \in Own(p) : new[v] = cmap[p][v]
       /\ \A v \in Ghosts(p) : new[v] = early[v]
  <2> DEFINE data == cmap[p]
  <2>1. new = Exchanged(chan, p, data) /\ DOMAIN data = Own(p) \union Ghosts(p)
    BY <1>11 DEF new
  <2> HIDE DEF data
  <2>2. /\ new = [v \in Own(p) \union Ghosts(p) |-> new[v]]
        /\ \A v \in Own(p) : new[v] = data[v]
        /\ \A v \in Ghosts(p) : new[v] = early[v]
    <3>1. \A v \in Ghosts(p) : v \in DOMAIN Head(chan[Owner[v]][p]) /\ Head(chan[Owner[v]][p])[v] = early[v]
      <4> SUFFICES ASSUME NEW v \in Ghosts(p)
                   PROVE  v \in DOMAIN Head(chan[Owner[v]][p]) /\ Head(chan[Owner[v]][p])[v] = early[v]
        OBVIOUS
      <4>1. Owner[v] \in Nbrs(p) /\ v \in Send(Owner[v], p)
        BY GhostsAre
      <4>2. Head(chan[Owner[v]][p]) = [x \in Send(Owner[v], p) |-> early[x]]
        BY <1>10, <4>1
      <4> QED BY <4>1, <4>2
    <3>2. /\ \A v \in Own(p) : new[v] = data[v]
          /\ \A v \in Ghosts(p) : v \in DOMAIN Head(chan[Owner[v]][p]) =>
                                   new[v] = Head(chan[Owner[v]][p])[v]
      BY <2>1, ExchangedIs
    <3>3. new = [v \in Own(p) \union Ghosts(p) |-> new[v]]
      BY <2>1 DEF Exchanged
    <3> QED BY <3>1, <3>2, <3>3
  <2> QED BY <2>2 DEF data
<1>13. ASSUME NEW v \in Own(p) PROVE full[v] = num[v]
  <2>1. v \in Vertex /\ Owner[v] = p /\ v \in DOMAIN new
    BY <1>12, OwnIs
  <2>2. Keeps(match[v]) <=> v \in Early
    BY <1>2, <1>4, <2>1, KeepsEarly
  <2>3. CASE v \in Early
    <3>1. full[v] = new[v]
      BY <2>1, <2>2, <2>3
    <3> QED BY <1>11, <1>12, <2>3, <3>1
  <2>4. CASE v \notin Early
    <3>1. full[v] = new[match[v]]
      BY <2>1, <2>2, <2>4
    <3>2. /\ match[v] = mate[v] /\ mate[v] \in Adj[v] /\ mate[v] \in Early /\ Owner[mate[v]] # Owner[v]
      BY <1>4, <2>1, <2>4, EarlyAre
    <3>3. mate[v] \in Ghosts(p) /\ mate[v] \in Vertex
      BY <2>1, <3>2, EdgeKnown
    <3>4. new[mate[v]] = num[mate[v]]
      BY <1>12, <3>2, <3>3 DEF early
    <3>5. num[mate[v]] = num[v]
      <4>1. maker[mate[v]] = maker[v]
        BY <1>4, <2>1, Pairs
      <4> QED BY <2>1, <3>3, <4>1 DEF num
    <3> QED BY <3>1, <3>2, <3>4, <3>5
  <2> QED BY <2>3, <2>4
<1>14. full = [v \in Own(p) \union Ghosts(p) |-> full[v]]
  BY <1>12
<1> HIDE DEF full
<1>15. Numbers' /\ Exchange' /\ Coarse'
  <2>1. scand' = [scand EXCEPT ![p] = scand[p]] /\ rcand' = [rcand EXCEPT ![p] = rcand[p]]
        /\ cgraph' = [cgraph EXCEPT ![p] = cgraph[p]]
    BY <1>1, KnownNow
  <2>2. \A q \in PE : q # p => pc'[q] = pc[q]
    BY <1>5
  <2>3. \A v \in Own(p) \union Ghosts(p) :
           /\ pc'[p] \in Counting => full[v] = -1
           /\ pc'[p] \in {"away", "joined"} /\ v \in Own(p) => full[v] = IF v \in Early THEN num[v] ELSE -1
           /\ pc'[p] = "lists" /\ v \in Own(p) => full[v] = num[v]
           /\ pc'[p] \notin Counting \union {"away", "joined", "lists"} => full[v] = num[v]
    BY <1>5, <1>13 DEF Counting
  <2>4. pc'[p] \notin {"sizes", "collapse"} /\ pc'[p] \notin {"coarse", "noise", "median"}
    BY <1>5
  <2>5. cmap' = [cmap EXCEPT ![p] = full] /\ counts' = counts
    BY <1>1
  <2>6. mate' = mate /\ makers' = makers
    BY <1>5
  <2> QED BY <1>14, <2>1, <2>2, <2>3, <2>4, <2>5, <2>6, KnowledgeKeeps
<1>16. \A q \in Nbrs(p) : msgs[q] = M2(p, q)
  <2> SUFFICES ASSUME NEW q \in Nbrs(p) PROVE msgs[q] = M2(p, q)
    OBVIOUS
  <2>1. q \in PE
    BY NbrsIn
  <2>2. msgs[q] = [v \in Send(p, q) |-> full[v]] /\ Send(p, q) \subseteq Own(p)
    BY <2>1, InterfaceIs
  <2> QED BY <1>13, <2>2 DEF M2
<1>17. DOMAIN msgs = Puts(p)
  BY <1>8
<1> HIDE DEF msgs
<1>18. Calls(p, TRUE, TRUE, msgs)
  <2>1. \A r \in Puts(p) : msgs[r] = Letter(sent[p] + 1, p, r)
    BY <1>7, <1>8, <1>16 DEF Letter
  <2>2. took[p] <= 3 /\ sent[p] <= 3
    BY <1>7
  <2> QED BY <1>1, <1>2, <1>8, <1>17, <2>1, <2>2, CallsBoth
<1>19. Counts(p, TRUE, TRUE) /\ ~(sent[p] >= 2)
  BY <1>7 DEF Counts
<1> QED BY <1>1, <1>2, <1>3, <1>5, <1>6, <1>15, <1>18, <1>19, StepIs

\* After an exchange with the numbers of all p knows all numbers.
LEMMA Learned ==
  ASSUME NEW p \in PE, NEW data, DOMAIN data = Own(p) \union Ghosts(p),
         \A v \in Own(p) : data[v] = num[v],
         \A q \in Nbrs(p) : \A v \in Send(q, p) :
           v \in DOMAIN Head(chan[q][p]) /\ Head(chan[q][p])[v] = num[v],
         NEW new, new = Exchanged(chan, p, data)
  PROVE  DOMAIN new = Own(p) \union Ghosts(p) /\ \A v \in Own(p) \union Ghosts(p) : new[v] = num[v]
<1>1. /\ \A v \in Own(p) : new[v] = data[v]
      /\ \A v \in Ghosts(p) : v \in DOMAIN Head(chan[Owner[v]][p]) =>
                               new[v] = Head(chan[Owner[v]][p])[v]
  BY ExchangedIs
<1>2. DOMAIN new = Own(p) \union Ghosts(p)
  BY DEF Exchanged
<1>3. \A v \in Ghosts(p) : v \in DOMAIN Head(chan[Owner[v]][p]) /\ Head(chan[Owner[v]][p])[v] = num[v]
  BY GhostsAre
<1> QED BY <1>1, <1>2, <1>3

\* Who is shipped to whom, from both ends.
LEMMA ShippedAre ==
  ASSUME Mated, NEW p \in PE, NEW q \in PE
  PROVE  /\ \A v \in Gone(q, p) : /\ v \in Vertex /\ Owner[v] = q /\ mate[v] \in Met(p, q)
                                  /\ q \in Nbrs(p) /\ p \in Nbrs(q)
         /\ \A v \in Met(p, q) : v \in Vertex /\ Owner[v] = p /\ mate[v] \in Gone(q, p)
         /\ Gone(q, p) # {} <=> Met(p, q) # {}
<1>1. ASSUME NEW v \in Gone(q, p)
      PROVE  /\ v \in Vertex /\ Owner[v] = q /\ mate[v] \in Met(p, q)
             /\ q \in Nbrs(p) /\ p \in Nbrs(q)
  <2>1. v \in Vertex /\ Owner[v] = q /\ v \notin Early /\ Owner[mate[v]] = p
    BY OwnIs DEF Gone
  <2>2. mate[v] \in makers /\ mate[v] \in Adj[v] /\ Owner[mate[v]] # Owner[v]
    BY <2>1, EarlyAre
  <2>3. mate[v] \in Vertex /\ mate[mate[v]] = v
    BY <2>1, Pairs
  <2>4. mate[v] \in Own(p)
    BY <2>1, <2>3, OwnIs
  <2>5. q \in Nbrs(p) /\ p \in Nbrs(q)
    BY <2>1, <2>2, EdgeKnown
  <2> QED BY <2>1, <2>2, <2>3, <2>4, <2>5 DEF Met
<1>2. ASSUME NEW v \in Met(p, q)
      PROVE  v \in Vertex /\ Owner[v] = p /\ mate[v] \in Gone(q, p)
  <2>1. v \in Vertex /\ Owner[v] = p /\ v \in makers /\ p # q /\ Owner[mate[v]] = q
    BY OwnIs DEF Met
  <2>2. mate[v] \in Vertex /\ mate[mate[v]] = v /\ mate[v] \notin makers
    BY <2>1, Pairs
  <2>3. mate[v] \notin Early /\ mate[v] \in Own(q)
    BY <2>1, <2>2, OwnIs DEF Early
  <2> QED BY <2>1, <2>2, <2>3 DEF Gone
<1> QED BY <1>1, <1>2

LEMMA ListsKeeps == ASSUME IInv, NEW p \in PE, Lists(p) PROVE IInv'
<1> DEFINE cm == Exchanged(chan, p, cmap[p])
           sc == [q \in PE |-> Leaving(p, q)]
           rc == [q \in PE |-> Arriving(p, q, cm)]
           msgs == [q \in {r \in Nbrs(p) : Leaving(p, r) # {}} |->
                      [phase |-> "sizes", size |-> ssizes(Leaving(p, q))]]
<1>1. /\ pc[p] = "lists" /\ ArrivedFrom(chan, p, Nbrs(p))
      /\ cmap' = [cmap EXCEPT ![p] = cm] /\ scand' = [scand EXCEPT ![p] = sc]
      /\ rcand' = [rcand EXCEPT ![p] = rc]
      /\ chan' = Post(Take(chan, p, Nbrs(p)), p, msgs)
      /\ pc' = [pc EXCEPT ![p] = "sizes"]
      /\ mtype' = mtype /\ match' = match /\ counts' = counts /\ cgraph' = cgraph
  BY DEF Lists, dropping
<1>2. pc[p] \in Before /\ pc[p] \notin Counting /\ "lists" \in Before /\ "sizes" \in Before
      /\ "sizes" \notin Counting /\ "lists" \notin Counting
  BY <1>1 DEF Before, Counting
<1>3. Moves(p, "lists", "sizes")
  BY <1>1 DEF Moves
<1>4. Mated /\ Placed
  BY DEF IInv
<1>5. /\ mate' = mate /\ makers' = makers /\ Mated' /\ Counted' /\ pc'[p] = "sizes"
      /\ \A q \in PE : q # p => pc'[q] = pc[q]
  BY <1>1, <1>2, <1>3, Steady
<1>6. mtype # "local"
  BY <1>1, <1>4 DEF Placed
<1>7. sent[p] = 2 /\ took[p] = 1 /\ sent'[p] = 3 /\ took'[p] = 2
  BY <1>1, <1>2, <1>5, <1>6 DEF sent, took, Counting
<1>8. Gets(p) = Nbrs(p) /\ Puts(p) = {q \in Nbrs(p) : Gone(p, q) # {}}
  BY <1>7 DEF Gets, Puts
<1>9. \A q \in Nbrs(p) : Head(chan[q][p]) = M2(q, p)
  BY <1>1, <1>2, <1>7, <1>8, Arrives DEF Letter
<1>10. DOMAIN cm = Own(p) \union Ghosts(p) /\ \A v \in Own(p) \union Ghosts(p) : cm[v] = num[v]
  <2> DEFINE data == cmap[p]
  <2>1. DOMAIN data = Own(p) \union Ghosts(p) /\ \A v \in Own(p) : data[v] = num[v]
    BY <1>1, KnownNow DEF NumbersAt
  <2>2. \A q \in Nbrs(p) : \A v \in Send(q, p) :
          v \in DOMAIN Head(chan[q][p]) /\ Head(chan[q][p])[v] = num[v]
    BY <1>9 DEF M2
  <2>3. cm = Exchanged(chan, p, data)
    OBVIOUS
  <2> HIDE DEF data, cm
  <2> QED BY <2>1, <2>2, <2>3, Learned
<1>11. cm = [v \in Own(p) \union Ghosts(p) |-> cm[v]]
  BY <1>10 DEF Exchanged
<1> HIDE DEF cm
<1>12. \A v \in Own(p) : v \in Vertex /\ Owner[v] = p /\ (Keeps(match[v]) <=> v \in Early)
  BY <1>2, <1>4, KeepsEarly, OwnIs
<1>13. ASSUME NEW q \in PE PROVE Leaving(p, q) = Gone(p, q)
  <2>1. \A v \in Own(p) : v \notin Early => match[v] = mate[v]
    BY <1>4, <1>12, EarlyAre
  <2> QED BY <1>12, <2>1 DEF Leaving, Gone
<1>14. ASSUME NEW q \in PE
       PROVE  Arriving(p, q, cm) = {[key |-> mate[v], val |-> num[v]] : v \in Met(p, q)}
  <2>1. \A v \in Own(p) : Partner(match[v]) = mate[v] /\ cm[v] = num[v]
    BY <1>10, <1>12 DEF mate
  <2>2. {u \in Own(p) : p # q /\ Keeps(match[u]) /\ Owner[Partner(match[u])] = q} = Met(p, q)
    <3> SUFFICES ASSUME NEW u \in Own(p), p # q, Owner[mate[u]] = q
                 PROVE  Keeps(match[u]) <=> u \in makers
      BY <2>1 DEF Met
    <3> QED BY <1>4, <1>12, MakersAre
  <2>3. Met(p, q) \subseteq Own(p)
    BY DEF Met
  <2>4. \A v \in Met(p, q) : Partner(match[v]) = mate[v] /\ cm[v] = num[v]
    BY <2>1, <2>3
  <2>5. Arriving(p, q, cm) = {[key |-> Partner(match[v]), val |-> cm[v]] : v \in Met(p, q)}
    BY <2>2 DEF Arriving
  <2> QED BY <2>4, <2>5
<1>15. Numbers' /\ Exchange' /\ Coarse'
  <2>1. cgraph' = [cgraph EXCEPT ![p] = cgraph[p]]
    BY <1>1, KnownNow
  <2>2. \A q \in PE : q # p => pc'[q] = pc[q]
    BY <1>5
  <2>3. \A v \in Own(p) \union Ghosts(p) :
           /\ pc'[p] \in Counting => cm[v] = -1
           /\ pc'[p] \in {"away", "joined"} /\ v \in Own(p) => cm[v] = IF v \in Early THEN num[v] ELSE -1
           /\ pc'[p] = "lists" /\ v \in Own(p) => cm[v] = num[v]
           /\ pc'[p] \notin Counting \union {"away", "joined", "lists"} => cm[v] = num[v]
    BY <1>5, <1>10 DEF Counting
  <2>4. /\ sc = [q \in PE |-> Gone(p, q)]
        /\ rc = [q \in PE |-> {[key |-> mate[v], val |-> num[v]] : v \in Met(p, q)}]
    BY <1>13, <1>14
  <2>5. pc'[p] \notin {"coarse", "noise", "median"}
    BY <1>5
  <2>6. /\ cmap' = [cmap EXCEPT ![p] = cm] /\ counts' = counts
        /\ scand' = [scand EXCEPT ![p] = sc] /\ rcand' = [rcand EXCEPT ![p] = rc]
    BY <1>1
  <2>7. mate' = mate /\ makers' = makers
    BY <1>5
  <2> HIDE DEF sc, rc
  <2> QED BY <1>11, <2>1, <2>2, <2>3, <2>4, <2>5, <2>6, <2>7, KnowledgeKeeps
<1>16. DOMAIN msgs = Puts(p) /\ \A q \in Puts(p) : msgs[q] = M3(p, q)
  <2>1. {r \in Nbrs(p) : Leaving(p, r) # {}} = Puts(p)
    BY <1>8, <1>13, NbrsIn
  <2>2. \A q \in Puts(p) : Leaving(p, q) = Gone(p, q)
    BY <1>8, <1>13, NbrsIn
  <2> QED BY <2>1, <2>2 DEF M3
<1> HIDE DEF msgs
<1>17. Calls(p, TRUE, TRUE, msgs)
  <2>1. \A r \in Puts(p) : msgs[r] = Letter(sent[p] + 1, p, r)
    BY <1>7, <1>16 DEF Letter
  <2>2. took[p] <= 3 /\ sent[p] <= 3
    BY <1>7
  <2> QED BY <1>1, <1>2, <1>8, <1>16, <2>1, <2>2, CallsBoth
<1>18. Counts(p, TRUE, TRUE) /\ took[p] >= 1
  BY <1>7 DEF Counts
<1> QED BY <1>1, <1>2, <1>3, <1>5, <1>6, <1>15, <1>17, <1>18, StepIs

\* What rcand says of the neighbours a list comes from, and scand of those one
\* goes to; the lists are what everybody makes of them.
LEMMA PartnersAre ==
  ASSUME IInv, NEW p \in PE, pc[p] \in {"sizes", "collapse"}
  PROVE  /\ ReceivesOf(p) = {q \in Nbrs(p) : Gone(q, p) # {}}
         /\ SendsTo(p) = {q \in Nbrs(p) : Gone(p, q) # {}}
         /\ \A q \in Nbrs(p) : scand[p][q] = Gone(p, q)
         /\ \A v \in Own(p) : Shipped(p, v) = List(v) /\ cmap[p][v] = num[v]
<1>1. /\ scand[p] = [q \in PE |-> Gone(p, q)]
      /\ rcand[p] = [q \in PE |-> {[key |-> mate[v], val |-> num[v]] : v \in Met(p, q)}]
  BY KnownNow DEF ExchangeAt
<1>2. \A v \in Own(p) \union Ghosts(p) : cmap[p][v] = num[v]
  BY KnownNow DEF NumbersAt, Counting
<1>3. Mated
  BY DEF IInv
<1>4. \A q \in Nbrs(p) : q \in PE
  BY NbrsIn
<1>5. ASSUME NEW q \in Nbrs(p) PROVE rcand[p][q] # {} <=> Gone(q, p) # {}
  <2>1. rcand[p][q] = {[key |-> mate[v], val |-> num[v]] : v \in Met(p, q)}
    BY <1>1, <1>4
  <2>2. rcand[p][q] # {} <=> Met(p, q) # {}
    BY <2>1
  <2> QED BY <1>3, <1>4, <2>2, ShippedAre
<1>6. ASSUME NEW v \in Own(p) PROVE Shipped(p, v) = List(v)
  <2>1. ASSUME NEW u \in Adj[v] PROVE cmap[p][u] = num[u]
    <3>1. v \in Vertex /\ Owner[v] = p
      BY OwnIs
    <3>2. u \in Vertex
      BY <3>1, EdgesBothWays
    <3>3. u \in Own(p) \union Ghosts(p)
      BY <3>1, <3>2, OwnIs, EdgeKnown
    <3> QED BY <1>2, <3>3
  <2> QED BY <2>1 DEF Shipped, List
<1> QED BY <1>1, <1>2, <1>4, <1>5, <1>6 DEF ReceivesOf, SendsTo

LEMMA SizesKeeps == ASSUME IInv, NEW p \in PE, Sizes(p) PROVE IInv'
<1> DEFINE msgs == [q \in SendsTo(p) |->
                      [phase |-> "lists", list |-> [v \in scand[p][q] |-> Shipped(p, v)]]]
<1>1. /\ pc[p] = "sizes" /\ ArrivedFrom(chan, p, ReceivesOf(p))
      /\ chan' = Post(Take(chan, p, ReceivesOf(p)), p, msgs)
      /\ pc' = [pc EXCEPT ![p] = "collapse"]
      /\ mtype' = mtype /\ match' = match /\ counts' = counts /\ cmap' = cmap /\ scand' = scand
      /\ rcand' = rcand /\ cgraph' = cgraph
  BY DEF Sizes, dropping
<1>2. pc[p] \in Before /\ pc[p] \notin Counting /\ "sizes" \in Before /\ "collapse" \in Before
      /\ "sizes" \notin Counting /\ "collapse" \notin Counting
  BY <1>1 DEF Before, Counting
<1>3. Moves(p, "sizes", "collapse")
  BY <1>1 DEF Moves
<1>4. Mated /\ Placed
  BY DEF IInv
<1>5. /\ mate' = mate /\ makers' = makers /\ Mated' /\ Counted' /\ pc'[p] = "collapse"
      /\ \A q \in PE : q # p => pc'[q] = pc[q]
  BY <1>1, <1>2, <1>3, Steady
<1>6. mtype # "local"
  BY <1>1, <1>4 DEF Placed
<1>7. sent[p] = 3 /\ took[p] = 2 /\ sent'[p] = 4 /\ took'[p] = 3
  BY <1>1, <1>2, <1>5, <1>6 DEF sent, took, Counting
<1>8. /\ ReceivesOf(p) = Gets(p) /\ SendsTo(p) = Puts(p)
      /\ \A q \in Nbrs(p) : scand[p][q] = Gone(p, q)
      /\ \A v \in Own(p) : Shipped(p, v) = List(v)
  BY <1>1, <1>7, PartnersAre DEF Gets, Puts
<1>9. /\ \A v \in Own(p) \union Ghosts(p) : cmap[p][v] = num[v]
      /\ cmap[p] = [v \in Own(p) \union Ghosts(p) |-> cmap[p][v]]
      /\ scand[p] = [q \in PE |-> Gone(p, q)]
      /\ rcand[p] = [q \in PE |-> {[key |-> mate[v], val |-> num[v]] : v \in Met(p, q)}]
  BY <1>1, KnownNow DEF NumbersAt, ExchangeAt, Counting
<1>10. Numbers' /\ Exchange' /\ Coarse'
  <2>1. /\ cgraph' = [cgraph EXCEPT ![p] = cgraph[p]] /\ cmap' = [cmap EXCEPT ![p] = cmap[p]]
        /\ scand' = [scand EXCEPT ![p] = scand[p]] /\ rcand' = [rcand EXCEPT ![p] = rcand[p]]
    BY <1>1, KnownNow
  <2>2. \A q \in PE : q # p => pc'[q] = pc[q]
    BY <1>5
  <2> DEFINE cm == cmap[p]
             sc == scand[p]
             rc == rcand[p]
  <2>3. \A v \in Own(p) \union Ghosts(p) :
           /\ pc'[p] \in Counting => cm[v] = -1
           /\ pc'[p] \in {"away", "joined"} /\ v \in Own(p) => cm[v] = IF v \in Early THEN num[v] ELSE -1
           /\ pc'[p] = "lists" /\ v \in Own(p) => cm[v] = num[v]
           /\ pc'[p] \notin Counting \union {"away", "joined", "lists"} => cm[v] = num[v]
    BY <1>5, <1>9 DEF Counting
  <2>4. /\ sc = [q \in PE |-> Gone(p, q)]
        /\ rc = [q \in PE |-> {[key |-> mate[v], val |-> num[v]] : v \in Met(p, q)}]
        /\ cm = [v \in Own(p) \union Ghosts(p) |-> cm[v]]
    BY <1>9
  <2>5. pc'[p] \notin {"coarse", "noise", "median"}
    BY <1>5
  <2>6. /\ cmap' = [cmap EXCEPT ![p] = cm] /\ counts' = counts
        /\ scand' = [scand EXCEPT ![p] = sc] /\ rcand' = [rcand EXCEPT ![p] = rc]
    BY <1>1, <2>1
  <2>7. mate' = mate /\ makers' = makers
    BY <1>5
  <2>8. cgraph' = [cgraph EXCEPT ![p] = cgraph[p]]
    BY <2>1
  <2> HIDE DEF cm, sc, rc
  <2> QED BY <2>2, <2>3, <2>4, <2>5, <2>6, <2>7, <2>8, KnowledgeKeeps
<1>11. DOMAIN msgs = Puts(p) /\ \A q \in Puts(p) : msgs[q] = M4(p, q)
  <2>1. \A q \in Puts(p) : q \in Nbrs(p)
    BY DEF Puts
  <2>2. ASSUME NEW q \in Puts(p) PROVE msgs[q] = M4(p, q)
    <3>1. msgs[q] = [phase |-> "lists", list |-> [v \in Gone(p, q) |-> Shipped(p, v)]]
      BY <1>8, <2>1
    <3>2. \A v \in Gone(p, q) : Shipped(p, v) = List(v)
      BY <1>8 DEF Gone
    <3> QED BY <3>1, <3>2 DEF M4
  <2> QED BY <1>8, <2>2
<1> HIDE DEF msgs
<1>12. Calls(p, TRUE, TRUE, msgs)
  <2>1. \A r \in Puts(p) : msgs[r] = Letter(sent[p] + 1, p, r)
    BY <1>7, <1>11 DEF Letter
  <2>2. took[p] <= 3 /\ sent[p] <= 3
    BY <1>7
  <2> QED BY <1>1, <1>2, <1>8, <1>11, <2>1, <2>2, CallsBoth
<1>13. Counts(p, TRUE, TRUE) /\ took[p] >= 1
  BY <1>7 DEF Counts
<1> QED BY <1>1, <1>2, <1>3, <1>5, <1>6, <1>10, <1>12, <1>13, StepIs

LEMMA CollapsedKeeps == ASSUME IInv, NEW p \in PE, Collapsed(p) PROVE IInv'
<1> DEFINE received == [q \in ReceivesOf(p) |-> Head(chan[q][p])]
           cg == [c \in {cmap[p][v] : v \in Makers(p)} |->
                    CoarseVertex(p, CHOOSE v \in Makers(p) : cmap[p][v] = c, received)]
<1>1. /\ pc[p] = "collapse" /\ ArrivedFrom(chan, p, ReceivesOf(p))
      /\ cgraph' = [cgraph EXCEPT ![p] = cg]
      /\ chan' = Take(chan, p, ReceivesOf(p))
      /\ pc' = [pc EXCEPT ![p] = "coarse"]
      /\ mtype' = mtype /\ match' = match /\ counts' = counts /\ cmap' = cmap /\ scand' = scand
      /\ rcand' = rcand
  BY DEF Collapsed, dropping
<1>2. pc[p] \in Before /\ pc[p] \notin Counting /\ "collapse" \in Before /\ "coarse" \in Before \union {"coarse"}
      /\ "collapse" \notin Counting /\ "coarse" \notin Counting
  BY <1>1 DEF Before, Counting
<1>3. Moves(p, "collapse", "coarse")
  BY <1>1 DEF Moves
<1>4. Mated /\ Placed /\ Counted
  BY DEF IInv
<1>5. /\ mate' = mate /\ makers' = makers /\ Mated' /\ Counted' /\ pc'[p] = "coarse"
      /\ \A q \in PE : q # p => pc'[q] = pc[q]
  BY <1>1, <1>2, <1>3, Steady
<1>6. mtype # "local"
  BY <1>1, <1>4 DEF Placed
<1>7. sent[p] = 4 /\ took[p] = 3 /\ sent'[p] = 4 /\ took'[p] = 4
  BY <1>1, <1>2, <1>5, <1>6 DEF sent, took, Counting
<1>8. /\ ReceivesOf(p) = Gets(p)
      /\ \A v \in Own(p) : Shipped(p, v) = List(v) /\ cmap[p][v] = num[v]
  BY <1>1, <1>7, PartnersAre DEF Gets
<1>9. ASSUME NEW q \in Gets(p) PROVE q \in Nbrs(p) /\ received[q] = M4(q, p)
  <2>1. q \in Nbrs(p)
    BY DEF Gets
  <2>2. took[p] <= 3 /\ ArrivedFrom(chan, p, Gets(p))
    BY <1>1, <1>7, <1>8
  <2>3. Head(chan[q][p]) = Letter(took[p] + 1, q, p)
    BY <1>2, <1>9, <2>1, <2>2, Arrives
  <2>4. Head(chan[q][p]) = M4(q, p)
    BY <1>7, <2>3 DEF Letter
  <2> QED BY <1>8, <2>1, <2>4
<1>10. Makers(p) = Makes(p) /\ AllCounted
  <2>1. AllCounted
    BY <1>2, <1>4 DEF Counted, AllCounted
  <2>2. Makers(p) = Makes(p)
    <3> SUFFICES ASSUME NEW v \in Own(p)
                 PROVE  v \in makers <=>
                          Keeps(match[v]) /\ ~(Local(Partner(match[v]), v) /\ Partner(match[v]) < v)
      BY DEF Makers, Makes
    <3>1. v \in Vertex /\ mate[v] = Partner(match[v])
      BY OwnIs DEF mate
    <3> QED BY <3>1 DEF makers, Local
  <2> QED BY <2>1, <2>2
<1>11. \A v \in Makes(p) : v \in Own(p) /\ v \in Vertex /\ Owner[v] = p /\ v \in makers /\ cmap[p][v] = num[v]
  BY <1>8, MakesAre, OwnIs
<1>12. {cmap[p][v] : v \in Makers(p)} = Nums(p)
  BY <1>10, <1>11 DEF Nums
<1>13. ASSUME NEW v \in Makes(p) PROVE CoarseVertex(p, v, received) = Whole(num[v])
  <2>1. v \in Vertex /\ Owner[v] = p /\ v \in makers /\ cmap[p][v] = num[v] /\ mate[v] = Partner(match[v])
    BY <1>11 DEF mate
  <2>2. Team(num[v]) = {v, mate[v]}
    <3>1. mate[v] \in Vertex
      BY <1>4, <2>1, Pairs
    <3>2. \A u \in Vertex : num[u] = num[v] <=> u = v \/ u = mate[v]
      BY <1>4, <1>10, <2>1, NumsAre
    <3> QED BY <2>1, <3>1, <3>2 DEF Team
  <2>3. ASSUME NEW u \in {v, mate[v]}
        PROVE  (IF u \in Own(p) THEN Shipped(p, u) ELSE received[Owner[u]].list[u]) = List(u)
    <3>1. CASE u \in Own(p)
      BY <1>8, <3>1
    <3>2. CASE u \notin Own(p)
      <4>1. u = mate[v] /\ u \in Vertex
        BY <1>4, <1>11, <3>2, Pairs
      <4>2. Owner[u] \in PE /\ Owner[u] # p
        BY <3>2, <4>1, OwnerIn
      <4>3. v \in Met(p, Owner[u])
        BY <1>11, <2>1, <4>1, <4>2 DEF Met
      <4>4. u \in Gone(Owner[u], p) /\ Owner[u] \in Nbrs(p)
        BY <1>4, <4>1, <4>2, <4>3, ShippedAre
      <4>5. Owner[u] \in Gets(p)
        BY <4>4 DEF Gets
      <4>6. received[Owner[u]] = M4(Owner[u], p)
        BY <1>9, <4>5
      <4>7. received[Owner[u]].list = [x \in Gone(Owner[u], p) |-> List(x)]
        BY <4>6 DEF M4
      <4> QED BY <3>2, <4>4, <4>7
    <3> QED BY <3>1, <3>2
  <2> HIDE DEF received
  <2>4. [u \in {v, mate[v]} |-> IF u \in Own(p) THEN Shipped(p, u) ELSE received[Owner[u]].list[u]]
          = [u \in {v, mate[v]} |-> List(u)]
    BY <2>3
  <2>5. CoarseVertex(p, v, received) = Collapse(num[v], [u \in {v, mate[v]} |-> List(u)])
    BY <2>1, <2>4 DEF CoarseVertex
  <2> QED BY <2>2, <2>5 DEF Whole
<1> HIDE DEF received
<1>14. cg = [c \in Nums(p) |-> Whole(c)]
  <2>1. ASSUME NEW c \in Nums(p)
        PROVE  CoarseVertex(p, CHOOSE v \in Makers(p) : cmap[p][v] = c, received) = Whole(c)
    <3> DEFINE v == CHOOSE v \in Makers(p) : cmap[p][v] = c
    <3>1. \E u \in Makers(p) : cmap[p][u] = c
      BY <1>12
    <3>2. v \in Makers(p) /\ cmap[p][v] = c
      BY <3>1
    <3> HIDE DEF v
    <3>3. CoarseVertex(p, v, received) = Whole(c)
      BY <1>10, <1>11, <1>13, <3>2
    <3> QED BY <3>3 DEF v
  <2>2. cg = [c \in Nums(p) |-> CoarseVertex(p, CHOOSE v \in Makers(p) : cmap[p][v] = c, received)]
    BY <1>12
  <2> QED BY <2>1, <2>2
<1> HIDE DEF cg
<1>15. Numbers' /\ Exchange' /\ Coarse'
  <2> DEFINE cm == cmap[p]
             sc == scand[p]
             rc == rcand[p]
  <2>1. /\ cm = [v \in Own(p) \union Ghosts(p) |-> cm[v]]
        /\ \A v \in Own(p) \union Ghosts(p) : cm[v] = num[v]
    BY <1>1, KnownNow DEF NumbersAt, Counting
  <2>2. \A q \in PE : q # p => pc'[q] = pc[q]
    BY <1>5
  <2>3. \A v \in Own(p) \union Ghosts(p) :
           /\ pc'[p] \in Counting => cm[v] = -1
           /\ pc'[p] \in {"away", "joined"} /\ v \in Own(p) => cm[v] = IF v \in Early THEN num[v] ELSE -1
           /\ pc'[p] = "lists" /\ v \in Own(p) => cm[v] = num[v]
           /\ pc'[p] \notin Counting \union {"away", "joined", "lists"} => cm[v] = num[v]
    BY <1>5, <2>1 DEF Counting
  <2>4. pc'[p] \notin {"sizes", "collapse"}
    BY <1>5
  <2>5. /\ cmap' = [cmap EXCEPT ![p] = cm] /\ counts' = counts
        /\ scand' = [scand EXCEPT ![p] = sc] /\ rcand' = [rcand EXCEPT ![p] = rc]
    BY <1>1, KnownNow
  <2>6. mate' = mate /\ makers' = makers
    BY <1>5
  <2>7. cgraph' = [cgraph EXCEPT ![p] = cg]
    BY <1>1
  <2>8. cm = [v \in Own(p) \union Ghosts(p) |-> cm[v]]
    BY <2>1
  <2> HIDE DEF cm, sc, rc
  <2> QED BY <1>14, <2>2, <2>3, <2>4, <2>5, <2>6, <2>7, <2>8, KnowledgeKeeps
<1>16. Calls(p, TRUE, FALSE, <<>>)
  <2>1. took[p] <= 3
    BY <1>7
  <2> QED BY <1>1, <1>2, <1>8, <2>1, CallsTake
<1>17. Counts(p, TRUE, FALSE)
  BY <1>7 DEF Counts
<1>18. "coarse" \notin {"away", "lists", "sizes", "collapse"} /\ "coarse" # "joined"
  OBVIOUS
<1> QED BY <1>1, <1>2, <1>3, <1>5, <1>15, <1>16, <1>17, <1>18, StepIs

\* A local matching: nothing is shipped.
LEMMA CollapsedLocalKeeps == ASSUME IInv, NEW p \in PE, CollapsedLocal(p) PROVE IInv'
<1> DEFINE cm == Exchanged(chan, p, cmap[p])
           own(v) == [vwgt |-> VWgt[v], edges |-> [u \in Adj[v] |-> cm[u]]]
           cg == [c \in {cm[v] : v \in Own(p)} |->
                    Collapse(c, [v \in {u \in Own(p) : cm[u] = c} |-> own(v)])]
<1>1. /\ pc[p] = "joined" /\ ArrivedFrom(chan, p, Nbrs(p))
      /\ cmap' = [cmap EXCEPT ![p] = cm] /\ cgraph' = [cgraph EXCEPT ![p] = cg]
      /\ chan' = Take(chan, p, Nbrs(p))
      /\ pc' = [pc EXCEPT ![p] = "coarse"]
      /\ mtype' = mtype /\ match' = match /\ counts' = counts /\ scand' = scand
      /\ rcand' = rcand
  BY DEF CollapsedLocal, dropping
<1>2. pc[p] \in Before /\ pc[p] \notin Counting /\ "joined" \in Before /\ "coarse" \in Before \union {"coarse"}
      /\ "joined" \notin Counting /\ "coarse" \notin Counting
  BY <1>1 DEF Before, Counting
<1>3. Moves(p, "joined", "coarse")
  BY <1>1 DEF Moves
<1>4. Mated /\ Placed /\ Counted
  BY DEF IInv
<1>5. /\ mate' = mate /\ makers' = makers /\ Mated' /\ Counted' /\ pc'[p] = "coarse"
      /\ \A q \in PE : q # p => pc'[q] = pc[q]
  BY <1>1, <1>2, <1>3, Steady
<1>6. mtype = "local" /\ mtype' = "local"
  BY <1>1, <1>4 DEF Placed
<1>7. sent[p] = 1 /\ took[p] = 0 /\ sent'[p] = 1 /\ took'[p] = 1
  BY <1>1, <1>2, <1>5, <1>6 DEF sent, took, Counting
<1>8. Gets(p) = Nbrs(p)
  BY <1>7 DEF Gets
<1>9. \A q \in Nbrs(p) : Head(chan[q][p]) = M1(q, p)
  BY <1>1, <1>2, <1>7, <1>8, Arrives DEF Letter
<1>10. \A v \in Vertex : v \in Early /\ Owner[mate[v]] = Owner[v]
  BY <1>4, <1>6 DEF Mated, Early
<1>11. DOMAIN cm = Own(p) \union Ghosts(p) /\ \A v \in Own(p) \union Ghosts(p) : cm[v] = num[v]
  <2> DEFINE data == cmap[p]
  <2>1. DOMAIN data = Own(p) \union Ghosts(p) /\ \A v \in Own(p) : data[v] = num[v]
    <3>1. \A v \in Own(p) : cmap[p][v] = IF v \in Early THEN num[v] ELSE -1
      BY <1>1, KnownNow DEF NumbersAt
    <3>2. \A v \in Own(p) : v \in Early
      BY <1>10, OwnIs
    <3>3. DOMAIN cmap[p] = Own(p) \union Ghosts(p)
      BY KnownNow
    <3> QED BY <3>1, <3>2, <3>3
  <2>2. \A q \in Nbrs(p) : \A v \in Send(q, p) :
          v \in DOMAIN Head(chan[q][p]) /\ Head(chan[q][p])[v] = num[v]
    <3> SUFFICES ASSUME NEW q \in Nbrs(p), NEW v \in Send(q, p)
                 PROVE  v \in DOMAIN Head(chan[q][p]) /\ Head(chan[q][p])[v] = num[v]
      OBVIOUS
    <3>1. v \in Early
      BY <1>10, NbrsIn, SendIs, OwnIs
    <3>2. Head(chan[q][p]) = M1(q, p)
      BY <1>9
    <3> QED BY <3>1, <3>2 DEF M1
  <2>3. cm = Exchanged(chan, p, data)
    OBVIOUS
  <2> HIDE DEF data, cm
  <2> QED BY <2>1, <2>2, <2>3, Learned
<1>12. cm = [v \in Own(p) \union Ghosts(p) |-> cm[v]]
  BY <1>11 DEF Exchanged
<1> HIDE DEF cm
<1>13. \A v \in Own(p) : v \in Vertex /\ Owner[v] = p
  BY OwnIs
<1>14. {cm[v] : v \in Own(p)} = Nums(p)
  <2>1. \A v \in Makes(p) : v \in Own(p)
    BY MakesAre
  <2>2. ASSUME NEW v \in Own(p) PROVE maker[v] \in Makes(p) /\ num[maker[v]] = num[v]
    <3>1. /\ maker[v] \in makers /\ maker[v] \in {v, mate[v]} /\ maker[v] \in Vertex
          /\ mate[v] \in Vertex /\ maker[mate[v]] = maker[v]
      BY <1>4, <1>13, Pairs
    <3>2. Owner[maker[v]] = p
      BY <1>10, <1>13, <3>1
    <3>3. maker[maker[v]] = maker[v]
      BY <3>1
    <3> QED BY <1>13, <3>1, <3>2, <3>3, MakesAre, OwnIs DEF num
  <2>3. ASSUME NEW v \in Own(p) PROVE cm[v] \in Nums(p)
    BY <1>11, <2>2 DEF Nums
  <2>4. ASSUME NEW v \in Makes(p) PROVE num[v] \in {cm[u] : u \in Own(p)}
    BY <1>11, <2>1
  <2> QED BY <2>3, <2>4 DEF Nums
<1>15. AllCounted
  BY <1>2, <1>4 DEF Counted, AllCounted
<1>16. ASSUME NEW v \in Own(p) PROVE {u \in Own(p) : cm[u] = cm[v]} = Team(cm[v])
  <2>1. cm[v] = num[v] /\ v \in Vertex /\ Owner[v] = p
    BY <1>11, <1>13
  <2>2. \A u \in Vertex : num[u] = num[v] => Owner[u] = p
    BY <1>4, <1>10, <1>15, <2>1, NumsAre
  <2> QED BY <1>11, <1>13, <2>1, <2>2, OwnIs DEF Team
<1>17. ASSUME NEW v \in Own(p) PROVE own(v) = List(v)
  <2>1. ASSUME NEW u \in Adj[v] PROVE cm[u] = num[u]
    <3>1. u \in Vertex
      BY <1>13, EdgesBothWays
    <3>2. u \in Own(p) \union Ghosts(p)
      BY <1>13, <3>1, OwnIs, EdgeKnown
    <3> QED BY <1>11, <3>2
  <2> QED BY <2>1 DEF List
<1> HIDE DEF own
<1>18. cg = [c \in Nums(p) |-> Whole(c)]
  <2>1. ASSUME NEW c \in Nums(p)
        PROVE  Collapse(c, [v \in {u \in Own(p) : cm[u] = c} |-> own(v)]) = Whole(c)
    <3>1. PICK w \in Own(p) : cm[w] = c
      BY <1>14
    <3>2. {u \in Own(p) : cm[u] = c} = Team(c)
      BY <1>16, <3>1
    <3>3. \A v \in Team(c) : own(v) = List(v)
      BY <1>17, <3>2
    <3>4. [v \in {u \in Own(p) : cm[u] = c} |-> own(v)] = [v \in Team(c) |-> List(v)]
      BY <3>2, <3>3
    <3> QED BY <3>4 DEF Whole
  <2>2. cg = [c \in Nums(p) |-> Collapse(c, [v \in {u \in Own(p) : cm[u] = c} |-> own(v)])]
    BY <1>14
  <2> QED BY <2>1, <2>2
<1> HIDE DEF cg
<1>19. Numbers' /\ Exchange' /\ Coarse'
  <2> DEFINE sc == scand[p]
             rc == rcand[p]
  <2>1. \A q \in PE : q # p => pc'[q] = pc[q]
    BY <1>5
  <2>2. \A v \in Own(p) \union Ghosts(p) :
           /\ pc'[p] \in Counting => cm[v] = -1
           /\ pc'[p] \in {"away", "joined"} /\ v \in Own(p) => cm[v] = IF v \in Early THEN num[v] ELSE -1
           /\ pc'[p] = "lists" /\ v \in Own(p) => cm[v] = num[v]
           /\ pc'[p] \notin Counting \union {"away", "joined", "lists"} => cm[v] = num[v]
    BY <1>5, <1>11 DEF Counting
  <2>3. pc'[p] \notin {"sizes", "collapse"}
    BY <1>5
  <2>4. /\ cmap' = [cmap EXCEPT ![p] = cm] /\ counts' = counts
        /\ scand' = [scand EXCEPT ![p] = sc] /\ rcand' = [rcand EXCEPT ![p] = rc]
    BY <1>1, KnownNow
  <2>5. mate' = mate /\ makers' = makers
    BY <1>5
  <2>6. cgraph' = [cgraph EXCEPT ![p] = cg]
    BY <1>1
  <2> HIDE DEF sc, rc
  <2> QED BY <1>12, <1>18, <2>1, <2>2, <2>3, <2>4, <2>5, <2>6, KnowledgeKeeps
<1>20. Calls(p, TRUE, FALSE, <<>>)
  <2>1. took[p] <= 3
    BY <1>7
  <2> QED BY <1>1, <1>2, <1>8, <2>1, CallsTake
<1>21. Counts(p, TRUE, FALSE)
  BY <1>7 DEF Counts
<1>22. "coarse" \notin {"away", "lists", "sizes", "collapse"} /\ "coarse" # "joined"
  OBVIOUS
<1> QED BY <1>1, <1>2, <1>3, <1>5, <1>19, <1>20, <1>21, <1>22, StepIs

-----------------------------------------------------------------------------
(* The theorems.                                                           *)

LEMMA StepKeeps == IInv /\ [Next]_vars => IInv'
<1> SUFFICES ASSUME IInv, [Next]_vars PROVE IInv'
  OBVIOUS
<1>1. ASSUME UNCHANGED vars PROVE IInv'
  <2>1. pc' = pc /\ mtype' = mtype /\ match' = match /\ counts' = counts /\ cmap' = cmap
        /\ scand' = scand /\ rcand' = rcand /\ cgraph' = cgraph /\ chan' = chan
    BY <1>1 DEF vars
  <2>2. mate' = mate /\ makers' = makers
    BY <2>1, MatchStays
  <2>3. /\ Early' = Early /\ num' = num /\ \A a, b : Gone(a, b)' = Gone(a, b) /\ Met(a, b)' = Met(a, b)
        /\ \A a : Nums(a)' = Nums(a) /\ Makes(a)' = Makes(a)
        /\ \A c : Whole(c)' = Whole(c)
        /\ \A a, b : /\ M1(a, b)' = M1(a, b) /\ M2(a, b)' = M2(a, b)
                     /\ M3(a, b)' = M3(a, b) /\ M4(a, b)' = M4(a, b)
    BY <2>1, <2>2, PairsStay, NumbersStay
  <2>4. sent' = sent /\ took' = took
    BY <2>1 DEF sent, took
  <2>5. Mated' /\ Counted' /\ Placed' /\ InStep'
    BY <2>1, <2>2, <2>3, <2>4 DEF IInv, Mated, Counted, Placed, InStep
  <2>6. Numbers' /\ Exchange' /\ Coarse'
    <3>1. PICK p \in PE : TRUE
      BY NpesAssumption DEF PE
    <3> DEFINE cm == cmap[p]
               sc == scand[p]
               rc == rcand[p]
               cg == cgraph[p]
    <3>2. NumbersAt(p) /\ ExchangeAt(p) /\ CoarseAt(p) /\ cm = [v \in Own(p) \union Ghosts(p) |-> cm[v]]
      BY KnownNow
    <3>3. /\ cmap' = [cmap EXCEPT ![p] = cm] /\ scand' = [scand EXCEPT ![p] = sc]
          /\ rcand' = [rcand EXCEPT ![p] = rc] /\ cgraph' = [cgraph EXCEPT ![p] = cg]
      BY <2>1, KnownNow
    <3>4. \A v \in Own(p) \union Ghosts(p) :
           /\ pc'[p] \in Counting => cm[v] = -1
           /\ pc'[p] \in {"away", "joined"} /\ v \in Own(p) => cm[v] = IF v \in Early THEN num[v] ELSE -1
           /\ pc'[p] = "lists" /\ v \in Own(p) => cm[v] = num[v]
           /\ pc'[p] \notin Counting \union {"away", "joined", "lists"} => cm[v] = num[v]
      BY <2>1, <3>2 DEF NumbersAt
    <3>5. pc'[p] \in {"sizes", "collapse"} =>
           /\ sc = [q \in PE |-> Gone(p, q)]
           /\ rc = [q \in PE |-> {[key |-> mate[v], val |-> num[v]] : v \in Met(p, q)}]
      BY <2>1, <3>2 DEF ExchangeAt
    <3>6. pc'[p] \in {"coarse", "noise", "median"} => cg = [c \in Nums(p) |-> Whole(c)]
      BY <2>1, <3>2 DEF CoarseAt
    <3>7. counts' = counts /\ \A q \in PE : q # p => pc'[q] = pc[q]
      BY <2>1
    <3> HIDE DEF cm, sc, rc, cg
    <3> QED BY <2>2, <3>2, <3>3, <3>4, <3>5, <3>6, <3>7, KnowledgeKeeps
  <2>7. Queues4'
    BY <2>1, <2>3, <2>4 DEF IInv, Queues4, Queue
  <2> QED BY <2>5, <2>6, <2>7 DEF IInv
<1>2. ASSUME NEW p \in PE, Step(p) PROVE IInv'
  BY <1>2, CountKeeps, NumberKeeps, AwayKeeps, ListsKeeps, SizesKeeps, CollapsedKeeps,
     CollapsedLocalKeeps, DropSteps, ProjectSteps DEF Step
<1> QED BY <1>1, <1>2, PartitionStep DEF Next

\* The invariant of the contraction.
THEOREM Invariance == Spec => []IInv
<1> QED BY InitIs, StepKeeps, PTL DEF Spec

\* The coarse graph is the quotient of the graph by the matching, and the PEs
\* that know a coarse vertex agree on its number (CreateCoarseGraph_Global and
\* CreateCoarseGraph_Local): for every distributed graph, every matching that
\* Match_Global may leave and all interleavings.
THEOREM CoarseIsQuotient == Spec => []Contracted
<1>1. IInv => Contracted
  BY Consistent, Quotient DEF Contracted
<1> QED BY <1>1, Invariance, PTL

-----------------------------------------------------------------------------
(* From the coarse graph on: what DropEdges leaves of it, and the way back.*)

\* The coarse vertices of other PEs that edges of p's lead to, what q shows p
\* of its own, and the PEs p exchanges with.
Near(p) == (UNION {DOMAIN Whole(c).adj : c \in Nums(p)}) \ Nums(p)
Shows(q, p) == {c \in Nums(q) : \E d \in DOMAIN Whole(c).adj : d \in Nums(p)}
Beside(p) == {q \in PE : q # p /\ Shows(q, p) # {}}

\* How many of the two messages of DropEdges p has sent, and taken.
said == [p \in PE |-> IF pc[p] = "coarse" THEN 0 ELSE IF pc[p] = "noise" THEN 1 ELSE 2]
heard == [p \in PE |-> IF pc[p] \in {"coarse", "noise"} THEN 0 ELSE IF pc[p] = "median" THEN 1 ELSE 2]
N1(q, p) == [c \in Shows(q, p) |-> noise[q][c]]
N2(q, p) == [c \in Shows(q, p) |-> median[q][c]]

Trimmed == \A r \in PE : pc[r] \in Trimming
DropMail == Trimmed =>
  /\ chan = [q \in PE |-> [p \in PE |-> chan[q][p]]]
  /\ \A p, q \in PE : chan[q][p] =
       IF q \notin Beside(p) \/ heard[p] = said[q] THEN <<>>
       ELSE IF heard[p] = 1 THEN <<N2(q, p)>>
       ELSE IF said[q] = 1 THEN <<N1(q, p)>> ELSE <<N1(q, p), N2(q, p)>>
  /\ \A p \in PE : \A q \in Beside(p) : heard[p] <= said[q]

\* A median is not more than half of the edges of its vertex are below.
KeysWith(c, ns) == [d \in DOMAIN Whole(c).adj |-> Key(c, d, Whole(c).adj[d], ns)]
Keyed(p, c) == KeysWith(c, noise[p])
Halved(p, c) ==
  /\ median[p][c] \in Nat
  /\ Cardinality(Team(c)) = 1 => median[p][c] = 0
  /\ 2 * Cardinality({d \in DOMAIN Keyed(p, c) : Keyed(p, c)[d] >= median[p][c]})
       >= Cardinality(DOMAIN Keyed(p, c))
Kept(p, c, d) ==
  Keyed(p, c)[d] >= IF median[p][c] < median[p][d] THEN median[p][c] ELSE median[p][d]

Noisy ==
  /\ noise = [p \in PE |-> noise[p]] /\ median = [p \in PE |-> median[p]]
  /\ \A p \in PE : pc[p] \in {"noise", "median", "dropped"} =>
       /\ dropedges
       /\ DOMAIN noise[p] = IF pc[p] = "noise" THEN Nums(p) ELSE Nums(p) \union Near(p)
       /\ \A c \in Nums(p) : noise[p][c] \in Nat
       /\ pc[p] # "noise" => \A q \in PE : \A c \in Near(p) \intersect Nums(q) : noise[p][c] = noise[q][c]
  /\ \A p \in PE : pc[p] \in {"median", "dropped"} =>
       /\ DOMAIN median[p] = IF pc[p] = "median" THEN Nums(p) ELSE Nums(p) \union Near(p)
       /\ \A c \in Nums(p) : Halved(p, c)
       /\ pc[p] # "median" => \A q \in PE : \A c \in Near(p) \intersect Nums(q) : median[p][c] = median[q][c]

\* What is left of the coarse graph.
Thinned ==
  /\ dropedges \in BOOLEAN
  /\ \A p \in PE : pc[p] \in {"dropped"} \union After =>
       /\ DOMAIN cgraph[p] = Nums(p)
       /\ \A c \in Nums(p) :
            /\ cgraph[p][c].vwgt = Whole(c).vwgt
            /\ DOMAIN cgraph[p][c].adj \subseteq DOMAIN Whole(c).adj
            /\ \A d \in DOMAIN cgraph[p][c].adj : cgraph[p][c].adj[d] = Whole(c).adj[d]
            /\ ~dropedges => DOMAIN cgraph[p][c].adj = DOMAIN Whole(c).adj
            /\ pc[p] = "dropped" =>
                 DOMAIN cgraph[p][c].adj = {d \in DOMAIN Whole(c).adj : Kept(p, c, d)}

\* Who is to be sent back to whom.
Shipments ==
  /\ mtype = "local" => \A p, q \in PE : scand[p][q] = {} /\ rcand[p][q] = {}
  /\ \A p \in PE : pc[p] \in Trimming \union After =>
       /\ \A q \in PE : scand[p][q] = Gone(p, q)
       /\ pc[p] \notin {"projected", "done"} =>
            \A q \in PE : rcand[p][q] = {[key |-> mate[v], val |-> num[v]] : v \in Met(p, q)}

Home(q, p) == [phase |-> "where", parts |-> {[key |-> mate[v], val |-> cwhere[num[v]]] : v \in Met(q, p)}]
BackMail == (\A r \in PE : pc[r] \in After) =>
  /\ chan = [q \in PE |-> [p \in PE |-> chan[q][p]]]
  /\ \A p, q \in PE : chan[q][p] =
       IF Met(q, p) # {} /\ pc[q] # "project" /\ pc[p] # "done" THEN <<Home(q, p)>> ELSE <<>>
  /\ \A p, q \in PE : Met(q, p) # {} /\ pc[p] = "done" => pc[q] # "project"

Returned ==
  /\ where = [p \in PE |-> where[p]]
  /\ \A p \in PE : pc[p] \in After => DOMAIN cwhere = 0..(ncoarse - 1)
  /\ \A p \in PE : pc[p] = "projected" =>
       where[p] = [v \in {u \in Own(p) : u \in Early} |-> cwhere[num[v]]]
  /\ \A p \in PE : pc[p] = "done" => where[p] = [v \in Own(p) |-> cwhere[num[v]]]

LInv == Noisy /\ Thinned /\ Shipments /\ DropMail /\ BackMail /\ Returned

LEMMA LateFixed ==
  ASSUME mate' = mate, makers' = makers, counts' = counts
  PROVE  /\ \A p : Near(p)' = Near(p) /\ Beside(p)' = Beside(p)
         /\ \A p, q : Shows(q, p)' = Shows(q, p)
<1>1. \A c : Whole(c)' = Whole(c)
  BY NumbersStay
<1>2. \A p : Nums(p)' = Nums(p)
  BY NumbersStay
<1>3. \A p : Near(p)' = Near(p)
  BY <1>1, <1>2 DEF Near
<1>4. \A p, q : Shows(q, p)' = Shows(q, p)
  BY <1>1, <1>2 DEF Shows
<1>5. \A p : Beside(p)' = Beside(p)
  BY <1>4 DEF Beside
<1> QED BY <1>3, <1>4, <1>5

\* The coarse vertices of the PEs.
LEMMA NumsIn ==
  ASSUME Mated, Counted, AllCounted
  PROVE  /\ \A p \in PE : \A c \in Nums(p) : c \in 0..(ncoarse - 1) /\ COwner(c) = p
         /\ \A c \in 0..(ncoarse - 1) : \E p \in PE : c \in Nums(p)
         /\ \A p, q \in PE : \A c : c \in Nums(p) /\ c \in Nums(q) => p = q
         /\ ncoarse \in Nat /\ ncoarse <= Cardinality(Vertex)
<1>1. npes \in Nat /\ PE = 0..(npes - 1)
  BY NpesAssumption DEF PE
<1>2. ncoarse \in Nat
  <2>1. npes \in 0..npes
    BY <1>1
  <2> QED BY <2>1, Ranges
<1>3. ASSUME NEW p \in PE, NEW c \in Nums(p)
      PROVE  c \in 0..(ncoarse - 1) /\ first[p] <= c /\ c < first[p] + counts[p]
  <2>1. PICK v \in Makes(p) : c = num[v]
    BY DEF Nums
  <2>2. v \in Vertex /\ Owner[v] = p /\ v \in makers
    BY MakesAre, OwnIs
  <2>3. maker[v] = v
    BY <2>2 DEF maker
  <2> QED BY <2>1, <2>2, <2>3, NumsAre
<1>4. \A p \in PE : cvtxdist(p) = first[p] /\ first[p] \in Nat /\ counts[p] \in Nat
  <2>1. \A p \in PE : p \in 0..npes
    BY <1>1
  <2> QED BY <2>1, Ranges DEF first
<1>5. ASSUME NEW p \in PE, NEW q \in PE, NEW c \in Int, first[p] <= c, c < first[p] + counts[p],
             first[q] <= c, c < first[q] + counts[q]
      PROVE  p = q
  <2>1. p < q => first[p] + counts[p] <= first[q]
    BY Ranges
  <2>2. q < p => first[q] + counts[q] <= first[p]
    BY Ranges
  <2>3. p \in Int /\ q \in Int
    BY <1>1
  <2> QED BY <1>4, <1>5, <2>1, <2>2, <2>3
<1>6. ASSUME NEW p \in PE, NEW c \in Nums(p) PROVE COwner(c) = p
  <2> DEFINE within(q) == c \in cvtxdist(q)..(cvtxdist(q) + counts[q] - 1)
  <2>1. c \in Int
    BY <1>2, <1>3
  <2>2. \A q \in PE : within(q) <=> first[q] <= c /\ c < first[q] + counts[q]
    BY <1>4, <2>1
  <2>3. within(p) /\ \A q \in PE : within(q) => q = p
    BY <1>3, <1>5, <2>1, <2>2
  <2>4. COwner(c) = CHOOSE q \in PE : within(q)
    BY DEF COwner
  <2> HIDE DEF within
  <2> QED BY <2>3, <2>4
<1>7. ASSUME NEW c \in 0..(ncoarse - 1) PROVE \E p \in PE : c \in Nums(p)
  <2>1. PICK v \in makers : num[v] = c
    BY NumsAre
  <2>2. v \in Vertex
    BY DEF makers
  <2>3. Owner[v] \in PE /\ v \in Makes(Owner[v])
    BY <2>2, OwnerIn, MakesAre
  <2> QED BY <2>1, <2>3 DEF Nums
<1>8. ncoarse <= Cardinality(Vertex)
  <2> DEFINE f == [c \in 0..(ncoarse - 1) |-> CHOOSE v \in makers : num[v] = c]
  <2>1. \A c \in 0..(ncoarse - 1) : f[c] \in makers /\ num[f[c]] = c
    BY NumsAre
  <2>2. makers \subseteq Vertex
    BY DEF makers
  <2>3. f \in [0..(ncoarse - 1) -> Vertex]
    BY <2>1, <2>2
  <2>4. \A c, d \in 0..(ncoarse - 1) : f[c] = f[d] => c = d
    <3> HIDE DEF f
    <3> QED BY <2>1
  <2>5. f \in Injection(0..(ncoarse - 1), Vertex)
    <3> HIDE DEF f
    <3> QED BY <2>3, <2>4 DEF Injection, IsInjective
  <2>6. Cardinality(0..(ncoarse - 1)) <= Cardinality(Vertex)
    BY <2>5, FiniteAssumption, FS_Injection
  <2>7. Cardinality(0..(ncoarse - 1)) = ncoarse
    <3>1. 0 \in Int /\ ncoarse - 1 \in Int
      BY <1>2
    <3>2. Cardinality(0..(ncoarse - 1)) = IF 0 > ncoarse - 1 THEN 0 ELSE ncoarse - 1 - 0 + 1
      BY <3>1, FS_Interval
    <3> QED BY <1>2, <3>2
  <2> QED BY <2>6, <2>7
<1>9. ASSUME NEW p \in PE, NEW q \in PE, NEW c, c \in Nums(p), c \in Nums(q) PROVE p = q
  BY <1>6, <1>9
<1> QED BY <1>2, <1>3, <1>6, <1>7, <1>8, <1>9

\* Nothing but numbers of coarse vertices is at the other end of an edge.
LEMMA EndsIn ==
  ASSUME Mated, Counted, AllCounted, NEW c
  PROVE  /\ DOMAIN Whole(c).adj \subseteq 0..(ncoarse - 1) /\ IsFiniteSet(DOMAIN Whole(c).adj)
         /\ c \notin DOMAIN Whole(c).adj
         /\ \A d \in DOMAIN Whole(c).adj :
              /\ Whole(c).adj[d] = Between(Team(c), Team(d))
              /\ Whole(c).adj[d] \in Nat /\ Whole(c).adj[d] > 0
<1> DEFINE ends(v) == {num[u] : u \in Adj[v]}
<1>1. /\ DOMAIN Whole(c).adj = (UNION {ends(v) : v \in Team(c)}) \ {c}
      /\ Whole(c).adj = [d \in DOMAIN Whole(c).adj |-> Between(Team(c), Team(d))]
  BY WholeIs, Zenon
<1>2. \A v \in Team(c) : ends(v) \subseteq 0..(ncoarse - 1)
  <2> SUFFICES ASSUME NEW v \in Team(c), NEW u \in Adj[v] PROVE num[u] \in 0..(ncoarse - 1)
    OBVIOUS
  <2>1. u \in Vertex
    BY EdgesBothWays DEF Team
  <2> QED BY <2>1, NumsAre
<1> HIDE DEF ends
<1>3. DOMAIN Whole(c).adj \subseteq 0..(ncoarse - 1) /\ c \notin DOMAIN Whole(c).adj
  BY <1>1, <1>2
<1>4. IsFiniteSet(DOMAIN Whole(c).adj)
  <2>1. ncoarse - 1 \in Int /\ 0 \in Int
    BY NumsIn
  <2>2. IsFiniteSet(0..(ncoarse - 1))
    BY <2>1, FS_Interval
  <2> QED BY <1>3, <2>2, FS_Subset
<1>5. ASSUME NEW d \in DOMAIN Whole(c).adj
      PROVE  /\ Whole(c).adj[d] = Between(Team(c), Team(d))
             /\ Whole(c).adj[d] \in Nat /\ Whole(c).adj[d] > 0
  <2>1. Whole(c).adj[d] = Between(Team(c), Team(d))
    BY <1>1
  <2>2. Between(Team(c), Team(d)) > 0
    BY <1>3, EdgesAre
  <2>3. Between(Team(c), Team(d)) \in Nat
    <3>1. Team(c) \in SUBSET Vertex /\ Team(d) \in SUBSET Vertex
      BY DEF Team
    <3> QED BY <3>1, BetweenIs
  <2> QED BY <2>1, <2>2, <2>3
<1> QED BY <1>3, <1>4, <1>5

\* Edges weigh the same from both of their ends.
LEMMA BetweenBothWays ==
  ASSUME NEW A \in SUBSET Vertex, NEW B \in SUBSET Vertex
  PROVE  Between(A, B) = Between(B, A)
<1> DEFINE E == {e \in A \X B : e[2] \in Adj[e[1]]}
           F == {e \in B \X A : e[2] \in Adj[e[1]]}
           h == [e \in E |-> <<e[2], e[1]>>]
           f == [e \in E |-> AdjWgt[e[1]][e[2]]]
           k == [e \in F |-> AdjWgt[e[1]][e[2]]]
<1>1. E \subseteq {e \in Vertex \X Vertex : e[2] \in Adj[e[1]]}
  OBVIOUS
<1>2. IsFiniteSet(E)
  BY <1>1, EdgesWeighIs
<1>3. \A e \in E : /\ e = <<e[1], e[2]>> /\ e[1] \in A /\ e[2] \in B /\ e[2] \in Adj[e[1]]
                   /\ e[1] \in Adj[e[2]] /\ AdjWgt[e[1]][e[2]] \in Int
                   /\ AdjWgt[e[2]][e[1]] = AdjWgt[e[1]][e[2]]
  <2> SUFFICES ASSUME NEW e \in E
               PROVE  /\ e = <<e[1], e[2]>> /\ e[1] \in A /\ e[2] \in B /\ e[2] \in Adj[e[1]]
                      /\ e[1] \in Adj[e[2]] /\ AdjWgt[e[1]][e[2]] \in Int
                      /\ AdjWgt[e[2]][e[1]] = AdjWgt[e[1]][e[2]]
    OBVIOUS
  <2>1. e = <<e[1], e[2]>> /\ e[1] \in A /\ e[2] \in B /\ e[2] \in Adj[e[1]]
    OBVIOUS
  <2> HIDE DEF E
  <2>2. e[1] \in Adj[e[2]]
    BY <2>1, EdgesBothWays
  <2>3. AdjWgt[e[1]][e[2]] \in Nat /\ AdjWgt[e[1]][e[2]] = AdjWgt[e[2]][e[1]]
    BY <2>1, WeightAssumption
  <2> QED BY <2>1, <2>2, <2>3
<1>4. \A u, v : <<u, v>> \in F <=> u \in B /\ v \in A /\ v \in Adj[u]
  OBVIOUS
<1>5. \A u, v : <<u, v>> \in E <=> u \in A /\ v \in B /\ v \in Adj[u]
  OBVIOUS
<1>6. \A e \in F : e = <<e[1], e[2]>>
  OBVIOUS
<1>7. \A e \in E : h[e] = <<e[2], e[1]>> /\ h[e] \in F
  <2> HIDE DEF E, F
  <2> QED BY <1>3, <1>4
<1>8. \A e \in F : <<e[2], e[1]>> \in E /\ h[<<e[2], e[1]>>] = e
  <2>1. \A e \in F : e[1] \in B /\ e[2] \in A /\ e[2] \in Adj[e[1]] /\ e[1] \in Adj[e[2]]
    <3> HIDE DEF F
    <3> QED BY <1>4, <1>6, EdgesBothWays
  <2> HIDE DEF E, F
  <2> QED BY <1>5, <1>6, <2>1
<1>9. {h[e] : e \in E} = F
  <2> HIDE DEF E, F, h
  <2> QED BY <1>7, <1>8
<1>10. \A e \in E : f[e] = k[h[e]] /\ f[e] \in Int
  <2>1. \A e \in E : f[e] = AdjWgt[e[1]][e[2]]
    OBVIOUS
  <2>2. \A e \in F : k[e] = AdjWgt[e[1]][e[2]]
    OBVIOUS
  <2> HIDE DEF E, F, h, f, k
  <2> QED BY <1>3, <1>7, <2>1, <2>2
<1>11. \A e, x \in E : h[e] = h[x] => e = x
  <2> HIDE DEF E, F, h
  <2> QED BY <1>3, <1>7
<1>12. Between(A, B) = SumFunctionOnSet(f, E) /\ Between(B, A) = SumFunctionOnSet(k, F)
  BY DEF Between, EdgesWeigh, SumFunction
<1> HIDE DEF E, F, h, f, k
<1> QED BY <1>2, <1>9, <1>10, <1>11, <1>12, SumRenamed

LEMMA LinkedBothWays ==
  ASSUME Mated, Counted, AllCounted, NEW c \in 0..(ncoarse - 1), NEW d \in DOMAIN Whole(c).adj
  PROVE  /\ d \in 0..(ncoarse - 1) /\ c \in DOMAIN Whole(d).adj
         /\ Whole(d).adj[c] = Whole(c).adj[d]
<1>1. d \in 0..(ncoarse - 1)
  BY EndsIn
<1>2. d # c /\ Between(Team(c), Team(d)) > 0
  BY <1>1, EdgesAre
<1>3. Team(c) \in SUBSET Vertex /\ Team(d) \in SUBSET Vertex
  BY DEF Team
<1>4. Between(Team(d), Team(c)) = Between(Team(c), Team(d))
  BY <1>3, BetweenBothWays
<1>5. c \in DOMAIN Whole(d).adj
  BY <1>2, <1>4, EdgesAre
<1> QED BY <1>1, <1>4, <1>5, EndsIn

\* Who is near whom: a coarse vertex is shown to those who have it next to
\* one of theirs.
LEMMA NearIs ==
  ASSUME Mated, Counted, AllCounted, NEW p \in PE
  PROVE  /\ \A q \in PE : \A c : c \in Shows(q, p) /\ q # p => c \in Near(p)
         /\ \A q \in PE : \A c : c \in Near(p) /\ c \in Nums(q) => c \in Shows(q, p) /\ q \in Beside(p)
         /\ \A c \in Near(p) : /\ c \notin Nums(p) /\ c \in 0..(ncoarse - 1)
                               /\ COwner(c) \in Beside(p) /\ c \in Shows(COwner(c), p)
         /\ \A q \in PE : q \in Beside(p) <=> p \in Beside(q)
<1> DEFINE Links(c) == DOMAIN Whole(c).adj
<1>1. \A c \in 0..(ncoarse - 1) : \A d \in Links(c) : d \in 0..(ncoarse - 1) /\ c \in Links(d)
  BY LinkedBothWays
<1>2. \A q \in PE : \A c : c \in Shows(q, p) <=> c \in Nums(q) /\ \E d \in Links(c) : d \in Nums(p)
  BY DEF Shows
<1>3. \A q \in PE : \A c : c \in Shows(p, q) <=> c \in Nums(p) /\ \E d \in Links(c) : d \in Nums(q)
  BY DEF Shows
<1>4. \A c : c \in Near(p) <=> c \notin Nums(p) /\ \E d \in Nums(p) : c \in Links(d)
  BY DEF Near
<1>5. /\ \A q \in PE : \A c \in Nums(q) : c \in 0..(ncoarse - 1) /\ COwner(c) = q
      /\ \A c \in 0..(ncoarse - 1) : \E q \in PE : c \in Nums(q)
      /\ \A q, r \in PE : \A c : c \in Nums(q) /\ c \in Nums(r) => q = r
  BY NumsIn
<1>6. \A q \in PE : \A r \in PE : r \in Beside(q) <=> r # q /\ Shows(r, q) # {}
  BY DEF Beside
<1> HIDE DEF Links
<1>7. ASSUME NEW q \in PE, NEW c, c \in Shows(q, p), q # p PROVE c \in Near(p)
  BY <1>1, <1>2, <1>4, <1>5, <1>7
<1>8. ASSUME NEW q \in PE, NEW c, c \in Near(p), c \in Nums(q) PROVE c \in Shows(q, p) /\ q \in Beside(p)
  <2>1. c \in Shows(q, p)
    BY <1>1, <1>2, <1>4, <1>5, <1>8
  <2>2. q # p
    BY <1>4, <1>8
  <2> QED BY <1>6, <2>1, <2>2
<1>9. ASSUME NEW c \in Near(p)
      PROVE  /\ c \notin Nums(p) /\ c \in 0..(ncoarse - 1)
             /\ COwner(c) \in Beside(p) /\ c \in Shows(COwner(c), p)
  <2>1. c \notin Nums(p) /\ c \in 0..(ncoarse - 1)
    BY <1>1, <1>4, <1>5
  <2>2. PICK q \in PE : c \in Nums(q)
    BY <1>5, <2>1
  <2> QED BY <1>5, <1>8, <2>1, <2>2
<1>10. ASSUME NEW q \in PE PROVE q \in Beside(p) <=> p \in Beside(q)
  <2>1. Shows(q, p) # {} => Shows(p, q) # {}
    BY <1>1, <1>2, <1>3, <1>5
  <2>2. Shows(p, q) # {} => Shows(q, p) # {}
    BY <1>1, <1>2, <1>3, <1>5
  <2> QED BY <1>6, <2>1, <2>2
<1> QED BY <1>7, <1>8, <1>9, <1>10

\* What CommSetup sets up for the coarse graph.
LEMMA CommIs ==
  ASSUME Mated, Counted, AllCounted, NEW p \in PE, cgraph[p] = [c \in Nums(p) |-> Whole(c)]
  PROVE  /\ DOMAIN cgraph[p] = Nums(p) /\ \A c \in Nums(p) : cgraph[p][c] = Whole(c)
         /\ CGhosts(p) = Near(p)
         /\ CNbrs(p) = Beside(p)
         /\ \A data : CInterface(p, data) = [q \in Beside(p) |-> [c \in Shows(p, q) |-> data[c]]]
<1>1. DOMAIN cgraph[p] = Nums(p) /\ \A c \in Nums(p) : cgraph[p][c] = Whole(c)
  OBVIOUS
<1>2. CGhosts(p) = Near(p)
  <2>1. {DOMAIN cgraph[p][c].adj : c \in DOMAIN cgraph[p]} = {DOMAIN Whole(c).adj : c \in Nums(p)}
    BY <1>1
  <2> QED BY <1>1, <2>1 DEF CGhosts, Near
<1>3. CNbrs(p) = Beside(p)
  <2>1. \A c \in Near(p) : COwner(c) \in Beside(p)
    BY NearIs
  <2>2. ASSUME NEW q \in Beside(p) PROVE \E c \in Near(p) : COwner(c) = q
    <3>1. q \in PE /\ q # p
      BY DEF Beside
    <3>2. PICK c \in Shows(q, p) : TRUE
      BY DEF Beside
    <3>3. c \in Nums(q)
      BY DEF Shows
    <3>4. c \in Near(p)
      BY <3>1, NearIs
    <3> QED BY <3>1, <3>3, <3>4, NumsIn
  <2> QED BY <1>2, <2>1, <2>2 DEF CNbrs
<1>4. ASSUME NEW data
      PROVE  CInterface(p, data) = [q \in Beside(p) |-> [c \in Shows(p, q) |-> data[c]]]
  <2>1. ASSUME NEW q \in Beside(p)
        PROVE  {d \in DOMAIN cgraph[p] : \E e \in DOMAIN cgraph[p][d].adj : COwner(e) = q} = Shows(p, q)
    <3>1. q \in PE
      BY DEF Beside
    <3>2. \A d \in Nums(p) : \A e \in DOMAIN Whole(d).adj : COwner(e) = q <=> e \in Nums(q)
      <4>1. \A d \in Nums(p) : \A e \in DOMAIN Whole(d).adj : e \in 0..(ncoarse - 1)
        BY EndsIn
      <4> QED BY <3>1, <4>1, NumsIn
    <3> QED BY <1>1, <3>2 DEF Shows
  <2>2. \A q \in Beside(p) :
          [c \in {d \in DOMAIN cgraph[p] : \E e \in DOMAIN cgraph[p][d].adj : COwner(e) = q} |-> data[c]]
            = [c \in Shows(p, q) |-> data[c]]
    BY <2>1
  <2> QED BY <1>3, <2>2 DEF CInterface
<1> QED BY <1>1, <1>2, <1>3, <1>4

-----------------------------------------------------------------------------
(* Medians.                                                                *)

LEMMA Lowest ==
  ASSUME NEW S, IsFiniteSet(S), S # {}, NEW keys, \A d \in S : keys[d] \in Int
  PROVE  \E x \in S : \A y \in S : keys[x] <= keys[y]
<1> DEFINE Low(x) == {d \in S : keys[d] < keys[x]}
           T == {Low(x) : x \in S}
<1>1. T \subseteq SUBSET S /\ T # {}
  OBVIOUS
<1>2. \E X \in T : \A Y \in T : ~(Y \subseteq X /\ Y # X)
  <2> HIDE DEF T
  <2> QED BY <1>1, MinimalSet
<1>3. PICK x \in S : \A y \in S : ~(Low(y) \subseteq Low(x) /\ Low(y) # Low(x))
  <2> HIDE DEF Low
  <2>1. PICK X \in T : \A Y \in T : ~(Y \subseteq X /\ Y # X)
    BY <1>2
  <2>2. PICK x \in S : X = Low(x)
    OBVIOUS
  <2>3. \A y \in S : Low(y) \in T
    OBVIOUS
  <2> QED BY <2>1, <2>2, <2>3
<1>4. ASSUME NEW y \in S, keys[y] < keys[x] PROVE FALSE
  <2>1. y \in Low(x) /\ y \notin Low(y)
    BY <1>4
  <2>2. Low(y) \subseteq Low(x)
    BY <1>4
  <2> QED BY <1>3, <2>1, <2>2
<1> QED BY <1>4

LEMMA Halves == \A n \in Nat : /\ n \div 2 \in Nat /\ 2 * (n \div 2) <= n /\ n < 2 * (n \div 2) + 2
                               /\ n # 0 => n \div 2 < n
BY SMT

\* There is a median, and at least half of the keys reach it.
LEMMA MedianIs ==
  ASSUME NEW keys, IsFiniteSet(DOMAIN keys), \A d \in DOMAIN keys : keys[d] \in Nat
  PROVE  /\ Median(keys) \in Nat
         /\ 2 * Cardinality({d \in DOMAIN keys : keys[d] >= Median(keys)}) >= Cardinality(DOMAIN keys)
<1> DEFINE D == DOMAIN keys
           half == Cardinality(D) \div 2
           Up(x) == {d \in D : keys[d] >= keys[x]}
           Over(x) == {d \in D : keys[d] > keys[x]}
           good(k) == /\ Cardinality({d \in D : keys[d] > k}) <= half
                      /\ Cardinality({d \in D : keys[d] >= k}) > half
<1>1. Cardinality(D) \in Nat /\ half \in Nat /\ 2 * half <= Cardinality(D)
      /\ Cardinality(D) < 2 * half + 2 /\ (D # {} => half < Cardinality(D))
  BY FS_CardinalityType, FS_EmptySet, Halves
<1>2. \A S \in SUBSET D : IsFiniteSet(S) /\ Cardinality(S) \in Nat
  BY FS_Subset, FS_CardinalityType
<1>3. ASSUME D = {} PROVE Median(keys) = 0 /\ Cardinality(D) = 0
  BY <1>3, FS_EmptySet DEF Median
<1>4. ASSUME D # {} PROVE \E x \in D : good(keys[x])
  <2> DEFINE T == {Up(x) : x \in {y \in D : Cardinality(Up(y)) > half}}
  <2>1. T # {}
    <3>1. PICK x \in D : \A y \in D : keys[x] <= keys[y]
      BY <1>4, Lowest
    <3>2. Up(x) = D
      BY <3>1
    <3> QED BY <1>1, <1>4, <3>2
  <2>2. T \subseteq SUBSET D
    OBVIOUS
  <2>3. \E X \in T : \A Y \in T : ~(Y \subseteq X /\ Y # X)
    <3> HIDE DEF T
    <3> QED BY <2>1, <2>2, MinimalSet
  <2>4. PICK x \in D : /\ Cardinality(Up(x)) > half
                       /\ \A y \in D : Cardinality(Up(y)) > half => ~(Up(y) \subseteq Up(x) /\ Up(y) # Up(x))
    <3> HIDE DEF Up, half
    <3>1. PICK X \in T : \A Y \in T : ~(Y \subseteq X /\ Y # X)
      BY <2>3
    <3>2. PICK x \in D : Cardinality(Up(x)) > half /\ X = Up(x)
      OBVIOUS
    <3>3. \A y \in D : Cardinality(Up(y)) > half => Up(y) \in T
      OBVIOUS
    <3> QED BY <3>1, <3>2, <3>3
  <2>5. Cardinality(Over(x)) <= half
    <3>1. CASE Over(x) = {}
      <4> HIDE DEF Over, half
      <4> QED BY <1>1, <3>1, FS_EmptySet
    <3>2. CASE Over(x) # {}
      <4>1. IsFiniteSet(Over(x)) /\ \A d \in Over(x) : keys[d] \in Int
        BY <1>2
      <4>2. PICK y \in Over(x) : \A z \in Over(x) : keys[y] <= keys[z]
        BY <3>2, <4>1, Lowest
      <4>3. Over(x) = Up(y)
        BY <4>2
      <4>4. Up(y) \subseteq Up(x) /\ x \in Up(x) /\ x \notin Up(y)
        BY <4>2
      <4>5. ~(Cardinality(Up(y)) > half)
        BY <2>4, <4>4
      <4>6. Cardinality(Up(y)) \in Nat
        BY <1>2
      <4> HIDE DEF Up, Over, half
      <4> QED BY <1>1, <4>3, <4>5, <4>6
    <3> QED BY <3>1, <3>2
  <2> QED BY <2>4, <2>5
<1>5. ASSUME D # {} PROVE Median(keys) \in Nat /\ good(Median(keys))
  <2>1. Median(keys) = CHOOSE k \in {keys[d] : d \in D} : good(k)
    BY <1>5 DEF Median
  <2> HIDE DEF good
  <2>2. \E k \in {keys[d] : d \in D} : good(k)
    BY <1>4, <1>5
  <2> QED BY <2>1, <2>2
<1>6. CASE D = {}
  <2>1. {d \in D : keys[d] >= Median(keys)} = {}
    BY <1>6
  <2> QED BY <1>3, <1>6, <2>1
<1>7. CASE D # {}
  <2> DEFINE S == {d \in D : keys[d] >= Median(keys)}
  <2>1. Cardinality(S) > half
    BY <1>5, <1>7
  <2>2. Cardinality(S) \in Nat
    BY <1>2
  <2> HIDE DEF half, D, S
  <2>3. 2 * Cardinality(S) >= Cardinality(D)
    BY <1>1, <2>1, <2>2
  <2> QED BY <1>5, <1>7, <2>3 DEF S, D
<1> QED BY <1>6, <1>7

-----------------------------------------------------------------------------
(* Until the coarse graph is there.                                        *)

LEMMA LateInit == Init => LInv
<1> SUFFICES ASSUME Init PROVE LInv
  OBVIOUS
<1>1. /\ \A p \in PE : pc[p] = "count" /\ \A q \in PE : scand[p][q] = {} /\ rcand[p][q] = {}
      /\ noise = [p \in PE |-> <<>>] /\ median = [p \in PE |-> <<>>] /\ where = [p \in PE |-> <<>>]
      /\ dropedges \in BOOLEAN
  BY DEF Init
<1>2. 0 \in PE
  BY NpesAssumption DEF PE
<1>3. \A p \in PE : pc[p] \notin Trimming /\ pc[p] \notin After
  BY <1>1 DEF Trimming, After
<1>4. ~Trimmed /\ ~(\A r \in PE : pc[r] \in After)
  BY <1>2, <1>3 DEF Trimmed
<1>5. Noisy
  BY <1>1 DEF Noisy
<1>6. Thinned /\ Shipments
  BY <1>1, <1>3 DEF Thinned, Shipments
<1>7. DropMail /\ BackMail
  BY <1>4 DEF DropMail, BackMail
<1>8. Returned
  BY <1>1, <1>3 DEF Returned
<1> QED BY <1>5, <1>6, <1>7, <1>8 DEF LInv

\* What is to be sent back is recorded once.
LEMMA ShipmentsStay ==
  ASSUME Shipments, NEW p \in PE, mate' = mate, makers' = makers, num' = num, mtype' = mtype,
         \A q \in PE : q # p => pc'[q] = pc[q] /\ scand'[q] = scand[q] /\ rcand'[q] = rcand[q],
         mtype = "local" => \A q \in PE : scand'[p][q] = {} /\ rcand'[p][q] = {},
         pc'[p] \in Trimming \union After =>
           \A q \in PE :
             /\ scand'[p][q] = Gone(p, q)
             /\ pc'[p] \notin {"projected", "done"} =>
                  rcand'[p][q] = {[key |-> mate[v], val |-> num[v]] : v \in Met(p, q)}
  PROVE  Shipments'
<1>1. \A a, b : Gone(a, b)' = Gone(a, b) /\ Met(a, b)' = Met(a, b)
  BY PairsStay
<1>2. \A a, b : {[key |-> mate'[v], val |-> num'[v]] : v \in Met(a, b)'}
                  = {[key |-> mate[v], val |-> num[v]] : v \in Met(a, b)}
  BY <1>1
<1>3. mtype' = "local" => \A a, b \in PE : scand'[a][b] = {} /\ rcand'[a][b] = {}
  BY DEF Shipments
<1>4. ASSUME NEW a \in PE, pc'[a] \in Trimming \union After, NEW b \in PE
      PROVE  /\ scand'[a][b] = Gone(a, b)
             /\ pc'[a] \notin {"projected", "done"} =>
                  rcand'[a][b] = {[key |-> mate[v], val |-> num[v]] : v \in Met(a, b)}
  <2>1. CASE a = p
    BY <1>4, <2>1
  <2>2. CASE a # p
    <3>1. pc'[a] = pc[a] /\ scand'[a] = scand[a] /\ rcand'[a] = rcand[a]
      BY <2>2
    <3> QED BY <1>4, <3>1 DEF Shipments
  <2> QED BY <2>1, <2>2
<1> QED BY <1>1, <1>2, <1>3, <1>4 DEF Shipments

\* A step before the coarse graph is there, or that makes it.
LEMMA EarlyKeeps ==
  ASSUME IInv, IInv', LInv, NEW p \in PE, NEW t \in Before \union {"coarse"}, pc[p] \in Before,
         pc' = [pc EXCEPT ![p] = t],
         noise' = noise, median' = median, where' = where, dropedges' = dropedges, Shipments'
  PROVE  LInv'
<1>1. Placed /\ Noisy /\ Thinned /\ Returned
  BY DEF IInv, LInv
<1>2. \A q \in PE : pc'[q] \in Before \union {"coarse"}
  BY <1>1 DEF Placed
<1>3. \A q \in PE : /\ pc'[q] \notin {"noise", "median", "dropped"} /\ pc'[q] \notin After
                    /\ pc'[q] \in Trimming => pc'[q] = "coarse"
  BY <1>2 DEF Before, Counting, Trimming, After
<1>4. Noisy'
  BY <1>1, <1>3 DEF Noisy
<1>5. Thinned'
  <2>1. \A q \in PE : pc'[q] \notin {"dropped"} \union After
    BY <1>3
  <2> QED BY <1>1, <2>1 DEF Thinned
<1>6. Returned'
  BY <1>1, <1>3 DEF Returned, After
<1>7. BackMail'
  <2>1. 0 \in PE
    BY NpesAssumption DEF PE
  <2> QED BY <1>3, <2>1 DEF BackMail
<1>8. DropMail'
  <2>1. ASSUME Trimmed' PROVE \A a \in PE : pc'[a] = "coarse"
    BY <1>3, <2>1 DEF Trimmed
  <2>2. ASSUME Trimmed', NEW a \in PE, NEW b \in PE
        PROVE  Queue(b, a)' = <<>> /\ said'[b] = 0 /\ heard'[a] = 0
    <3>1. sent'[b] = took'[a] /\ took'[a] \in {1, 4} /\ said'[b] = 0 /\ heard'[a] = 0
      BY <2>1, <2>2 DEF sent, took, Counting, said, heard
    <3>2. Queue(b, a)' = Left(sent'[b], took'[a], Gone(b, a)', M1(b, a)', M2(b, a)', M3(b, a)', M4(b, a)')
      BY DEF Queue
    <3>3. \A gone, m1, m2, m3, m4 : Left(1, 1, gone, m1, m2, m3, m4) = <<>>
                                    /\ Left(4, 4, gone, m1, m2, m3, m4) = <<>>
      BY DEF Left
    <3> QED BY <3>1, <3>2, <3>3
  <2>3. ASSUME Trimmed'
        PROVE  /\ chan' = [q \in PE |-> [r \in PE |-> chan'[q][r]]]
               /\ \A a, b \in PE : chan'[b][a] = <<>>
    <3>1. /\ chan' = [q \in PE |-> [r \in PE |-> chan'[q][r]]]
          /\ \A a, b \in PE : chan'[b][a] = IF b \in Nbrs(a) THEN Queue(b, a)' ELSE <<>>
      BY <2>1, <2>3 DEF IInv, Queues4
    <3> QED BY <2>2, <2>3, <3>1
  <2>4. \A a : \A q \in Beside(a)' : q \in PE
    BY DEF Beside
  <2> QED BY <2>2, <2>3, <2>4 DEF DropMail
<1> QED BY <1>4, <1>5, <1>6, <1>7, <1>8 DEF LInv

LEMMA BeforeSteps ==
  ASSUME IInv, IInv', LInv, NEW p \in PE,
         \/ Count(p) \/ Number(p) \/ Away(p) \/ Lists(p) \/ Sizes(p) \/ Collapsed(p) \/ CollapsedLocal(p)
  PROVE  LInv'
<1>1. Mated /\ Counted /\ Placed /\ Numbers /\ Exchange
  BY DEF IInv
<1>2. Shipments
  BY DEF LInv
<1>3. /\ scand = [q \in PE |-> scand[q]] /\ rcand = [q \in PE |-> rcand[q]]
  BY <1>1 DEF Exchange
<1>4. CASE Count(p)
  <2>1. /\ pc[p] = "count" /\ pc' = [pc EXCEPT ![p] = "number"] /\ mtype' = mtype
        /\ scand' = scand /\ rcand' = rcand
        /\ noise' = noise /\ median' = median /\ where' = where /\ dropedges' = dropedges
    BY <1>4 DEF Count, dropping
  <2>2. \A q \in PE : pc'[q] \in Counting
    BY <1>1, <2>1 DEF Counted, Placed, Counting
  <2>3. \A q \in PE : pc'[q] \notin Trimming \union After
    BY <2>2 DEF Trimming, After, Counting
  <2>4. Shipments'
    BY <1>2, <2>1, <2>3 DEF Shipments
  <2>5. "number" \in Before \union {"coarse"} /\ pc[p] \in Before
    BY <2>1 DEF Before, Counting
  <2> QED BY <2>1, <2>4, <2>5, EarlyKeeps
<1>5. CASE Number(p)
  <2> DEFINE t == IF mtype = "local" THEN "joined" ELSE "away"
  <2>1. /\ pc[p] = "number" /\ pc' = [pc EXCEPT ![p] = t] /\ mtype' = mtype
        /\ \A q \in PE : counts[q] # -1
        /\ match' = [v \in Vertex |->
                       match[v] + IF v \in Joined(p) /\ ~Keeps(match[v]) THEN KeepBit ELSE 0]
        /\ scand' = scand /\ rcand' = rcand /\ counts' = counts
        /\ noise' = noise /\ median' = median /\ where' = where /\ dropedges' = dropedges
    BY <1>5 DEF Number, dropping
  <2>2. t \in {"joined", "away"}
    OBVIOUS
  <2>3. pc'[p] = t /\ \A q \in PE : q # p => pc'[q] = pc[q]
    BY <1>1, <2>1 DEF Placed
  <2> HIDE DEF t
  <2>4. t \in Before \union {"coarse"} /\ pc[p] \in Before /\ t \notin Counting /\ t \notin Trimming \union After
    BY <2>1, <2>2 DEF Before, Counting, Trimming, After
  <2>5. AllCounted
    BY <1>1, <2>1 DEF AllCounted, Counted
  <2>6. mate' = mate /\ makers' = makers
    BY <2>1, <2>3, <2>4, <2>5, JoinedKeep
  <2>7. num' = num
    BY <2>1, <2>6, NumbersStay
  <2>8. Shipments'
    BY <1>2, <2>1, <2>3, <2>4, <2>6, <2>7, ShipmentsStay DEF Shipments
  <2> QED BY <2>1, <2>4, <2>8, EarlyKeeps
<1>6. CASE Away(p)
  <2>1. /\ Moves(p, "away", "lists") /\ mtype' = mtype /\ match' = match
        /\ scand' = scand /\ rcand' = rcand /\ counts' = counts
        /\ noise' = noise /\ median' = median /\ where' = where /\ dropedges' = dropedges
    BY <1>6 DEF Away, dropping, Moves
  <2>2. "away" \notin Counting /\ "lists" \notin Counting /\ "lists" \in Before \union {"coarse"} /\ "away" \in Before
        /\ "lists" \notin Trimming \union After
    BY DEF Before, Counting, Trimming, After
  <2>3. /\ mate' = mate /\ makers' = makers /\ num' = num /\ pc'[p] = "lists"
        /\ \A q \in PE : q # p => pc'[q] = pc[q]
    BY <2>1, <2>2, Steady
  <2>4. Shipments'
    BY <1>2, <2>1, <2>2, <2>3, ShipmentsStay DEF Shipments
  <2> QED BY <2>1, <2>2, <2>4, EarlyKeeps DEF Moves
<1>7. CASE Lists(p)
  <2>1. /\ Moves(p, "lists", "sizes") /\ mtype' = mtype /\ match' = match
        /\ \E x : scand' = [scand EXCEPT ![p] = x]
        /\ \E x : rcand' = [rcand EXCEPT ![p] = x] 
        /\ counts' = counts
        /\ noise' = noise /\ median' = median /\ where' = where /\ dropedges' = dropedges
    BY <1>7 DEF Lists, dropping, Moves
  <2>2. "sizes" \notin Counting /\ "lists" \notin Counting /\ "sizes" \in Before \union {"coarse"} /\ "lists" \in Before
        /\ "sizes" \notin Trimming \union After
    BY DEF Before, Counting, Trimming, After
  <2>3. /\ mate' = mate /\ makers' = makers /\ num' = num /\ pc'[p] = "sizes"
        /\ \A q \in PE : q # p => pc'[q] = pc[q]
    BY <2>1, <2>2, Steady
  <2>4. mtype # "local"
    BY <1>1, <2>1 DEF Placed, Moves
  <2>5. \A q \in PE : q # p => scand'[q] = scand[q] /\ rcand'[q] = rcand[q]
    BY <1>3, <2>1
  <2>6. Shipments'
    BY <1>2, <2>1, <2>2, <2>3, <2>4, <2>5, ShipmentsStay
  <2> QED BY <2>1, <2>2, <2>6, EarlyKeeps DEF Moves
<1>8. CASE Sizes(p)
  <2>1. /\ Moves(p, "sizes", "collapse") /\ mtype' = mtype /\ match' = match
        /\ scand' = scand /\ rcand' = rcand /\ counts' = counts
        /\ noise' = noise /\ median' = median /\ where' = where /\ dropedges' = dropedges
    BY <1>8 DEF Sizes, dropping, Moves
  <2>2. "sizes" \notin Counting /\ "collapse" \notin Counting /\ "collapse" \in Before \union {"coarse"}
        /\ "sizes" \in Before /\ "collapse" \notin Trimming \union After
    BY DEF Before, Counting, Trimming, After
  <2>3. /\ mate' = mate /\ makers' = makers /\ num' = num /\ pc'[p] = "collapse"
        /\ \A q \in PE : q # p => pc'[q] = pc[q]
    BY <2>1, <2>2, Steady
  <2>4. Shipments'
    BY <1>2, <2>1, <2>2, <2>3, ShipmentsStay DEF Shipments
  <2> QED BY <2>1, <2>2, <2>4, EarlyKeeps DEF Moves
<1>9. CASE Collapsed(p)
  <2>1. /\ Moves(p, "collapse", "coarse") /\ mtype' = mtype /\ match' = match
        /\ scand' = scand /\ rcand' = rcand /\ counts' = counts
        /\ noise' = noise /\ median' = median /\ where' = where /\ dropedges' = dropedges
    BY <1>9 DEF Collapsed, dropping, Moves
  <2>2. "coarse" \notin Counting /\ "collapse" \notin Counting /\ "coarse" \in Before \union {"coarse"}
        /\ "collapse" \in Before
    BY DEF Before, Counting
  <2>3. /\ mate' = mate /\ makers' = makers /\ num' = num /\ pc'[p] = "coarse"
        /\ \A q \in PE : q # p => pc'[q] = pc[q]
    BY <2>1, <2>2, Steady
  <2>4. /\ scand[p] = [q \in PE |-> Gone(p, q)]
        /\ rcand[p] = [q \in PE |-> {[key |-> mate[v], val |-> num[v]] : v \in Met(p, q)}]
    BY <1>1, <2>1 DEF Exchange, Moves
  <2>5. mtype = "local" => \A q \in PE : scand'[p][q] = {} /\ rcand'[p][q] = {}
    BY <1>2, <2>1 DEF Shipments
  <2>6. \A q \in PE : /\ scand'[p][q] = Gone(p, q)
                      /\ rcand'[p][q] = {[key |-> mate[v], val |-> num[v]] : v \in Met(p, q)}
    BY <2>1, <2>4
  <2>7. Shipments'
    BY <1>2, <2>1, <2>3, <2>5, <2>6, ShipmentsStay
  <2> QED BY <2>1, <2>2, <2>7, EarlyKeeps DEF Moves
<1>10. CASE CollapsedLocal(p)
  <2>1. /\ Moves(p, "joined", "coarse") /\ mtype' = mtype /\ match' = match
        /\ scand' = scand /\ rcand' = rcand /\ counts' = counts
        /\ noise' = noise /\ median' = median /\ where' = where /\ dropedges' = dropedges
    BY <1>10 DEF CollapsedLocal, dropping, Moves
  <2>2. "coarse" \notin Counting /\ "joined" \notin Counting /\ "coarse" \in Before \union {"coarse"}
        /\ "joined" \in Before
    BY DEF Before, Counting
  <2>3. /\ mate' = mate /\ makers' = makers /\ num' = num /\ pc'[p] = "coarse"
        /\ \A q \in PE : q # p => pc'[q] = pc[q]
    BY <2>1, <2>2, Steady
  <2>4. mtype = "local"
    BY <1>1, <2>1 DEF Placed, Moves
  <2>5. \A q \in PE : scand'[p][q] = {} /\ rcand'[p][q] = {}
    BY <1>2, <2>1, <2>4 DEF Shipments
  <2>6. \A q \in PE : Gone(p, q) = {} /\ Met(p, q) = {}
    <3>1. \A v \in Own(p) : v \in Vertex /\ Owner[v] = p /\ Owner[mate[v]] = Owner[v] /\ v \in Early
      BY <1>1, <2>4, OwnIs DEF Mated, Early
    <3> QED BY <3>1 DEF Gone, Met
  <2>7. \A q \in PE : {[key |-> mate[v], val |-> num[v]] : v \in Met(p, q)} = {}
    BY <2>6
  <2>8. Shipments'
    BY <1>2, <2>1, <2>3, <2>5, <2>6, <2>7, ShipmentsStay
  <2> QED BY <2>1, <2>2, <2>8, EarlyKeeps DEF Moves
<1> QED BY <1>4, <1>5, <1>6, <1>7, <1>8, <1>9, <1>10

-----------------------------------------------------------------------------
(* DropEdges: the messages.                                                *)

LEMMA TrimmedIs ==
  ASSUME IInv, NEW p \in PE, pc[p] \in {"noise", "median", "dropped"}
  PROVE  Trimmed
<1>1. Placed
  BY DEF IInv
<1>2. \A q \in PE : pc[q] \notin Before
  BY <1>1 DEF Placed, Before, Counting
<1>3. \A q \in PE : pc[q] \notin After
  BY <1>1 DEF Placed, After
<1> QED BY <1>1, <1>2, <1>3 DEF Placed, Trimmed

LEMMA NumberedIs ==
  ASSUME IInv, NEW p \in PE, pc[p] \in Trimming \union After
  PROVE  Mated /\ Counted /\ AllCounted
BY DEF IInv, Counted, AllCounted, Trimming, After, Counting

LEMMA SaidIs ==
  ASSUME NEW p \in PE
  PROVE  /\ said[p] \in {0, 1, 2} /\ heard[p] \in {0, 1, 2}
         /\ said[p] = IF pc[p] = "coarse" THEN 0 ELSE IF pc[p] = "noise" THEN 1 ELSE 2
         /\ heard[p] = IF pc[p] \in {"coarse", "noise"} THEN 0 ELSE IF pc[p] = "median" THEN 1 ELSE 2
BY DEF said, heard

\* A message that waits is the next one p needs.
LEMMA Waiting ==
  ASSUME DropMail, Trimmed, NEW p \in PE, NEW q \in Beside(p), chan[q][p] # <<>>
  PROVE  /\ heard[p] < said[q]
         /\ Head(chan[q][p]) = IF heard[p] = 1 THEN N2(q, p) ELSE N1(q, p)
<1>1. q \in PE
  BY DEF Beside
<1>2. /\ chan[q][p] = IF heard[p] = said[q] THEN <<>>
                      ELSE IF heard[p] = 1 THEN <<N2(q, p)>>
                      ELSE IF said[q] = 1 THEN <<N1(q, p)>> ELSE <<N1(q, p), N2(q, p)>>
      /\ heard[p] <= said[q]
  BY <1>1 DEF DropMail
<1>3. heard[p] \in {0, 1, 2} /\ said[q] \in {0, 1, 2}
  BY <1>1, SaidIs
<1> QED BY <1>2, <1>3, Queues

\* A step of p that sends the next message, takes it, or both.
Mails(p, take, put, msgs) ==
  /\ said'[p] = IF put THEN said[p] + 1 ELSE said[p]
  /\ heard'[p] = IF take THEN heard[p] + 1 ELSE heard[p]
  /\ take => \A a \in Beside(p) : chan[a][p] # <<>>
  /\ chan' = [a \in PE |-> [b \in PE |-> chan'[a][b]]]
  /\ \A a, b \in PE : chan'[a][b] =
       IF take /\ b = p /\ a \in Beside(p) THEN Tail(chan[a][b])
       ELSE IF put /\ a = p /\ b \in Beside(p) THEN Append(chan[a][b], msgs[b])
       ELSE chan[a][b]
  /\ put => \A b \in Beside(p) : msgs[b] = IF said[p] = 0 THEN N1(p, b)' ELSE N2(p, b)'
  /\ \A a, b \in PE : /\ said[a] >= 1 => N1(a, b)' = N1(a, b)
                      /\ said[a] = 2 => N2(a, b)' = N2(a, b)

LEMMA MailMoves ==
  ASSUME DropMail, Trimmed, Mated, Counted, AllCounted,
         NEW p \in PE, NEW take, NEW put, NEW msgs,
         mate' = mate, makers' = makers, counts' = counts,
         \A a \in PE : a # p => pc'[a] = pc[a], Mails(p, take, put, msgs)
  PROVE  DropMail'
<1>0. /\ said'[p] = IF put THEN said[p] + 1 ELSE said[p]
      /\ heard'[p] = IF take THEN heard[p] + 1 ELSE heard[p]
      /\ take => \A a \in Beside(p) : chan[a][p] # <<>>
      /\ chan' = [a \in PE |-> [b \in PE |-> chan'[a][b]]]
      /\ \A a, b \in PE : chan'[a][b] =
           IF take /\ b = p /\ a \in Beside(p) THEN Tail(chan[a][b])
           ELSE IF put /\ a = p /\ b \in Beside(p) THEN Append(chan[a][b], msgs[b])
           ELSE chan[a][b]
      /\ put => \A b \in Beside(p) : msgs[b] = IF said[p] = 0 THEN N1(p, b)' ELSE N2(p, b)'
  BY DEF Mails
<1>10. \A a, b \in PE : /\ said[a] >= 1 => N1(a, b)' = N1(a, b)
                        /\ said[a] = 2 => N2(a, b)' = N2(a, b)
  BY DEF Mails
<1>1. \A a \in PE : /\ said[a] \in {0, 1, 2} /\ heard[a] \in {0, 1, 2}
                    /\ said'[a] \in {0, 1, 2} /\ heard'[a] \in {0, 1, 2}
  BY DEF said, heard
<1>2. \A a \in PE : a # p => said'[a] = said[a] /\ heard'[a] = heard[a]
  BY DEF said, heard
<1>3. \A a : Beside(a)' = Beside(a)
  BY LateFixed
<1>4. \A a, b \in PE : a \in Beside(b) <=> b \in Beside(a)
  BY NearIs
<1>5. \A a, b \in PE : a \in Beside(b) => a # b
  BY DEF Beside
<1>6. \A a, b \in PE : /\ chan[a][b] = IF a \notin Beside(b) \/ heard[b] = said[a] THEN <<>>
                                       ELSE IF heard[b] = 1 THEN <<N2(a, b)>>
                                       ELSE IF said[a] = 1 THEN <<N1(a, b)>> ELSE <<N1(a, b), N2(a, b)>>
                       /\ a \in Beside(b) => heard[b] <= said[a]
  BY DEF DropMail
<1>7. ASSUME NEW a \in PE, NEW b \in PE
      PROVE  /\ chan'[a][b] = IF a \notin Beside(b) \/ heard'[b] = said'[a] THEN <<>>
                              ELSE IF heard'[b] = 1 THEN <<N2(a, b)'>>
                              ELSE IF said'[a] = 1 THEN <<N1(a, b)'>> ELSE <<N1(a, b)', N2(a, b)'>>
             /\ a \in Beside(b) => heard'[b] <= said'[a]
  <2> DEFINE n1 == N1(a, b)
             n2 == N2(a, b)
             m1 == N1(a, b)'
             m2 == N2(a, b)'
             old == chan[a][b]
             now == chan'[a][b]
  <2>1. /\ old = IF a \notin Beside(b) \/ heard[b] = said[a] THEN <<>>
                 ELSE IF heard[b] = 1 THEN <<n2>> ELSE IF said[a] = 1 THEN <<n1>> ELSE <<n1, n2>>
        /\ a \in Beside(b) => heard[b] <= said[a]
        /\ said[a] >= 1 => m1 = n1
        /\ said[a] = 2 => m2 = n2
    <3>1. (said[a] >= 1 => m1 = n1) /\ (said[a] = 2 => m2 = n2)
      BY <1>10
    <3> QED BY <1>6, <3>1
  <2>2. now = IF take /\ b = p /\ a \in Beside(p) THEN Tail(old)
              ELSE IF put /\ a = p /\ b \in Beside(p) THEN Append(old, msgs[b]) ELSE old
    BY <1>0
  <2>3. /\ a = p /\ put /\ b \in Beside(p) => msgs[b] = IF said[a] = 0 THEN m1 ELSE m2
        /\ said[a] \in {0, 1, 2} /\ heard[b] \in {0, 1, 2} /\ said'[a] \in {0, 1, 2} /\ heard'[b] \in {0, 1, 2}
    BY <1>0, <1>1
  <2>4. /\ said'[a] = IF a = p /\ put THEN said[a] + 1 ELSE said[a]
        /\ heard'[b] = IF b = p /\ take THEN heard[b] + 1 ELSE heard[b]
    BY <1>0, <1>2
  <2>5. b = p /\ take /\ a \in Beside(b) => old # <<>>
    BY <1>0
  <2>6. a \in Beside(b) <=> b \in Beside(a)
    BY <1>4
  <2> HIDE DEF n1, n2, m1, m2, old, now
  <2>7. /\ now = IF a \notin Beside(b) \/ heard'[b] = said'[a] THEN <<>>
                 ELSE IF heard'[b] = 1 THEN <<m2>> ELSE IF said'[a] = 1 THEN <<m1>> ELSE <<m1, m2>>
        /\ a \in Beside(b) => heard'[b] <= said'[a]
    <3>1. CASE a \notin Beside(b)
      BY <2>1, <2>2, <2>6, <3>1
    <3>2. CASE a \in Beside(b) /\ b = p /\ take
      <4>1. a # p
        BY <1>5, <3>2
      <4>2. now = Tail(old) /\ said'[a] = said[a] /\ heard'[b] = heard[b] + 1 /\ old # <<>>
        BY <2>2, <2>4, <2>5, <3>2, <4>1
      <4> QED BY <2>1, <2>3, <3>2, <4>2, Queues
    <3>3. CASE a \in Beside(b) /\ a = p /\ put
      <4>1. b # p /\ b \in Beside(p)
        BY <1>5, <2>6, <3>3
      <4>2. now = Append(old, msgs[b]) /\ said'[a] = said[a] + 1 /\ heard'[b] = heard[b]
            /\ msgs[b] = IF said[a] = 0 THEN m1 ELSE m2
        BY <2>2, <2>3, <2>4, <3>3, <4>1
      <4>3. \/ said[a] = 0 /\ heard[b] = 0 /\ old = <<>>
            \/ said[a] = 1 /\ heard[b] = 0 /\ old = <<m1>>
            \/ said[a] = 1 /\ heard[b] = 1 /\ old = <<>>
        <5>1. \/ said[a] = 0 /\ heard[b] = 0
              \/ said[a] = 1 /\ heard[b] = 0
              \/ said[a] = 1 /\ heard[b] = 1
          <6>1. heard[b] <= said[a] /\ said[a] + 1 \in {0, 1, 2} /\ said[a] \in {0, 1, 2} /\ heard[b] \in {0, 1, 2}
            BY <2>1, <2>3, <3>3, <4>2, Zenon
          <6> QED BY <6>1
        <5>2. heard[b] = said[a] => old = <<>>
          BY <2>1, Zenon
        <5>3. said[a] = 1 /\ heard[b] = 0 => old = <<n1>> /\ m1 = n1
          BY <2>1, <3>3
        <5> QED BY <5>1, <5>2, <5>3
      <4>4. \A x, y : Append(<<>>, x) = <<x>> /\ Append(<<x>>, y) = <<x, y>>
        BY Queues, Zenon
      <4>5. \/ said'[a] = 1 /\ heard'[b] = 0 /\ now = <<m1>>
            \/ said'[a] = 2 /\ heard'[b] = 0 /\ now = <<m1, m2>>
            \/ said'[a] = 2 /\ heard'[b] = 1 /\ now = <<m2>>
        <5>1. CASE said[a] = 0 /\ heard[b] = 0 /\ old = <<>>
          <6>1. msgs[b] = m1 /\ said'[a] = 1
            BY <4>2, <5>1
          <6>2. now = <<m1>>
            BY <4>2, <4>4, <5>1, <6>1, Zenon
          <6> QED BY <4>2, <5>1, <6>1, <6>2
        <5>2. CASE said[a] = 1 /\ heard[b] = 0 /\ old = <<m1>>
          <6>1. msgs[b] = m2 /\ said'[a] = 2
            BY <4>2, <5>2
          <6>2. now = <<m1, m2>>
            BY <4>2, <4>4, <5>2, <6>1, Zenon
          <6> QED BY <4>2, <5>2, <6>1, <6>2
        <5>3. CASE said[a] = 1 /\ heard[b] = 1 /\ old = <<>>
          <6>1. msgs[b] = m2 /\ said'[a] = 2
            BY <4>2, <5>3
          <6>2. now = <<m2>>
            BY <4>2, <4>4, <5>3, <6>1, Zenon
          <6> QED BY <4>2, <5>3, <6>1, <6>2
        <5> QED BY <4>3, <5>1, <5>2, <5>3
      <4> QED BY <3>3, <4>5
    <3>4. CASE a \in Beside(b) /\ ~(b = p /\ take) /\ ~(a = p /\ put)
      <4>1. now = old /\ said'[a] = said[a] /\ heard'[b] = heard[b]
        BY <2>2, <2>4, <3>4
      <4> QED BY <2>1, <2>3, <3>4, <4>1
    <3> QED BY <3>1, <3>2, <3>3, <3>4
  <2> QED BY <2>7 DEF m1, m2, now
<1>8. \A a : \A b \in Beside(a) : b \in PE
  BY DEF Beside
<1>9. /\ \A b, a \in PE : chan'[a][b] =
           IF a \notin Beside(b)' \/ heard'[b] = said'[a] THEN <<>>
           ELSE IF heard'[b] = 1 THEN <<N2(a, b)'>>
           ELSE IF said'[a] = 1 THEN <<N1(a, b)'>> ELSE <<N1(a, b)', N2(a, b)'>>
      /\ \A b \in PE : \A a \in Beside(b)' : heard'[b] <= said'[a]
  BY <1>3, <1>7, <1>8
<1> QED BY <1>0, <1>9 DEF DropMail

-----------------------------------------------------------------------------
(* DropEdges: the steps.                                                   *)

\* What the steps of DropEdges have in common.
LEMMA TrimStep ==
  ASSUME IInv, LInv, NEW p \in PE, NEW s \in {"coarse", "noise", "median"},
         NEW t \in {"noise", "median", "dropped"}, Moves(p, s, t), Trimmed,
         match' = match, counts' = counts, mtype' = mtype, scand' = scand, rcand' = rcand, where' = where
  PROVE  /\ Mated /\ Counted /\ AllCounted
         /\ mate' = mate /\ makers' = makers /\ pc[p] = s /\ pc'[p] = t
         /\ \A q \in PE : q # p => pc'[q] = pc[q]
         /\ \A q \in PE : Nums(q)' = Nums(q) /\ Near(q)' = Near(q) /\ Beside(q)' = Beside(q)
         /\ \A q, r \in PE : Shows(q, r)' = Shows(q, r)
         /\ \A c : Whole(c)' = Whole(c) /\ Team(c)' = Team(c)
         /\ Shipments' /\ BackMail' /\ Returned'
<1>1. pc[p] = s /\ s \notin Counting /\ t \notin Counting /\ s \in Trimming /\ t \in Trimming
      /\ t \notin After /\ s \notin After /\ t \notin {"projected", "done"}
  BY DEF Moves, Counting, Trimming, After
<1>2. Mated /\ Counted /\ AllCounted
  BY <1>1, NumberedIs
<1>3. /\ mate' = mate /\ makers' = makers /\ num' = num /\ pc'[p] = t
      /\ \A q \in PE : q # p => pc'[q] = pc[q]
  BY <1>1, Steady
<1>4. /\ \A q \in PE : Nums(q)' = Nums(q) /\ Near(q)' = Near(q) /\ Beside(q)' = Beside(q)
      /\ \A q, r \in PE : Shows(q, r)' = Shows(q, r)
      /\ \A c : Whole(c)' = Whole(c) /\ Team(c)' = Team(c)
  BY <1>3, NumbersStay, LateFixed
<1>5. Shipments'
  <2>1. Shipments
    BY DEF LInv
  <2>2. \A q \in PE : /\ scand'[p][q] = Gone(p, q)
                      /\ rcand'[p][q] = {[key |-> mate[v], val |-> num[v]] : v \in Met(p, q)}
    BY <1>1, <2>1 DEF Shipments
  <2>3. mtype = "local" => \A q \in PE : scand'[p][q] = {} /\ rcand'[p][q] = {}
    BY <2>1 DEF Shipments
  <2> QED BY <1>3, <2>1, <2>2, <2>3, ShipmentsStay
<1>6. \A q \in PE : pc'[q] \notin After
  <2>1. \A q \in PE : pc[q] \notin After
    BY DEF Trimmed, Trimming, After
  <2> QED BY <1>1, <1>3, <2>1
<1>7. BackMail'
  BY <1>6 DEF BackMail
<1>8. Returned'
  BY <1>6 DEF Returned, LInv, After
<1> QED BY <1>1, <1>2, <1>3, <1>4, <1>5, <1>7, <1>8

\* Keys and medians as long as what they are made from stays.
LEMMA KeysStay ==
  ASSUME \A c : Whole(c)' = Whole(c) /\ Team(c)' = Team(c), NEW q, noise'[q] = noise[q]
  PROVE  /\ \A c : Keyed(q, c)' = Keyed(q, c)
         /\ \A c : median'[q][c] = median[q][c] => Halved(q, c)' = Halved(q, c)
         /\ median'[q] = median[q] => \A c, d : Kept(q, c, d)' = Kept(q, c, d)
<1>1. ASSUME NEW c PROVE Keyed(q, c)' = Keyed(q, c)
  BY DEF Keyed, KeysWith, Key
<1>2. ASSUME NEW c, median'[q][c] = median[q][c] PROVE Halved(q, c)' = Halved(q, c)
  <2>1. Keyed(q, c)' = Keyed(q, c) /\ Team(c)' = Team(c)
    BY <1>1
  <2> QED BY <1>2, <2>1 DEF Halved
<1>3. ASSUME median'[q] = median[q], NEW c, NEW d PROVE Kept(q, c, d)' = Kept(q, c, d)
  <2>1. Keyed(q, c)' = Keyed(q, c)
    BY <1>1
  <2> QED BY <1>3, <2>1 DEF Kept
<1> QED BY <1>1, <1>2, <1>3

\* The channels after a step of DropEdges.
LEMMA DropChannels ==
  ASSUME DropMail, Trimmed, NEW p \in PE, NEW From, NEW msgs,
         chan' = Post(Take(chan, p, From), p, msgs), From \subseteq PE \ {p}
  PROVE  /\ chan' = [a \in PE |-> [b \in PE |-> chan'[a][b]]]
         /\ \A a, b \in PE : chan'[a][b] =
              IF b = p /\ a \in From THEN Tail(chan[a][b])
              ELSE IF a = p /\ b \in DOMAIN msgs THEN Append(chan[a][b], msgs[b])
              ELSE chan[a][b]
<1> DEFINE mid == Take(chan, p, From)
<1>1. chan = [q \in PE |-> [r \in PE |-> chan[q][r]]]
  BY DEF DropMail
<1>2. /\ mid = [q \in PE |-> [r \in PE |-> mid[q][r]]]
      /\ \A q, r \in PE : mid[q][r] = IF q \in From /\ r = p THEN Tail(chan[q][r]) ELSE chan[q][r]
  BY <1>1, Taken
<1> HIDE DEF mid
<1>3. chan' = Post(mid, p, msgs)
  BY DEF mid
<1>4. /\ chan' = [q \in PE |-> [r \in PE |-> chan'[q][r]]]
      /\ \A q, r \in PE : chan'[q][r] =
           IF q = p /\ r \in DOMAIN msgs THEN Append(mid[q][r], msgs[r]) ELSE mid[q][r]
  BY <1>2, <1>3, Posted
<1> QED BY <1>2, <1>4

LEMMA SameNoise ==
  ASSUME Noisy, NEW a \in PE, pc[a] \in {"median", "dropped"}, NEW b \in PE, NEW c, c \in Near(a), c \in Nums(b)
  PROVE  /\ noise[a][c] = noise[b][c]
         /\ pc[a] = "dropped" => median[a][c] = median[b][c]
<1>1. c \in Near(a) \intersect Nums(b) /\ pc[a] # "noise"
  OBVIOUS
<1>2. noise[a][c] = noise[b][c]
  BY <1>1 DEF Noisy
<1>3. pc[a] = "dropped" => median[a][c] = median[b][c]
  BY <1>1 DEF Noisy
<1> QED BY <1>2, <1>3

LEMMA NoiseKeeps == ASSUME IInv, LInv, NEW p \in PE, MakeNoise(p) PROVE LInv'
<1>1. PICK f \in Noises :
        /\ noise' = [noise EXCEPT ![p] = [c \in DOMAIN cgraph[p] |-> f[c]]]
        /\ chan' = Post(chan, p, CInterface(p, [c \in DOMAIN cgraph[p] |-> f[c]]))
  BY DEF MakeNoise
<1> DEFINE mine == [c \in Nums(p) |-> f[c]]
           msgs == CInterface(p, mine)
<1>2. /\ Moves(p, "coarse", "noise") /\ Trimmed /\ dropedges
      /\ match' = match /\ counts' = counts /\ mtype' = mtype /\ scand' = scand /\ rcand' = rcand
      /\ where' = where /\ median' = median /\ cgraph' = cgraph /\ dropedges' = dropedges
  <2>1. \A q \in PE : pc[q] \in {"coarse", "noise", "median", "dropped"}
    BY DEF MakeNoise
  <2> QED BY <2>1 DEF MakeNoise, Moves, Trimmed, Trimming
<1>3. /\ Mated /\ Counted /\ AllCounted
      /\ mate' = mate /\ makers' = makers /\ pc[p] = "coarse" /\ pc'[p] = "noise"
      /\ \A q \in PE : q # p => pc'[q] = pc[q]
      /\ \A q \in PE : Nums(q)' = Nums(q) /\ Near(q)' = Near(q) /\ Beside(q)' = Beside(q)
      /\ \A q, r \in PE : Shows(q, r)' = Shows(q, r)
      /\ \A c : Whole(c)' = Whole(c) /\ Team(c)' = Team(c)
      /\ Shipments' /\ BackMail' /\ Returned'
  BY <1>2, TrimStep
<1>4. /\ DOMAIN cgraph[p] = Nums(p)
      /\ DOMAIN msgs = Beside(p) /\ \A q \in Beside(p) : msgs[q] = [c \in Shows(p, q) |-> mine[c]]
  <2>1. cgraph[p] = [c \in Nums(p) |-> Whole(c)]
    BY <1>3 DEF IInv, Coarse
  <2>2. /\ DOMAIN cgraph[p] = Nums(p)
        /\ \A data : CInterface(p, data) = [q \in Beside(p) |-> [c \in Shows(p, q) |-> data[c]]]
    BY <1>3, <2>1, CommIs
  <2> HIDE DEF mine
  <2>3. msgs = [q \in Beside(p) |-> [c \in Shows(p, q) |-> mine[c]]]
    BY <2>2
  <2> HIDE DEF msgs
  <2> QED BY <2>2, <2>3
<1>5. Noisy /\ Thinned /\ DropMail
  BY DEF LInv
<1>6. /\ noise' = [q \in PE |-> noise'[q]] /\ noise'[p] = mine
      /\ \A q \in PE : q # p => noise'[q] = noise[q]
      /\ chan' = Post(chan, p, msgs)
  <2>1. noise = [q \in PE |-> noise[q]]
    BY <1>5 DEF Noisy
  <2> QED BY <1>1, <1>4, <2>1
<1> HIDE DEF msgs
<1>7. ASSUME NEW c \in Nums(p) PROVE mine[c] \in Nat
  <2>1. c \in 0..(ncoarse - 1) /\ ncoarse \in Nat /\ ncoarse <= Cardinality(Vertex)
    BY <1>3, NumsIn
  <2>2. Cardinality(Vertex) \in Nat
    BY FiniteAssumption, FS_CardinalityType
  <2>3. c \in 0..(Cardinality(Vertex) - 1)
    BY <2>1, <2>2
  <2> QED BY <2>3, NoisesAssumption
<1>8. Noisy'
  <2>1. \A q \in PE : q # p => \A c : Halved(q, c)' = Halved(q, c)
    BY <1>2, <1>3, <1>6, KeysStay
  <2>2. ASSUME NEW a \in PE, pc'[a] \in {"median", "dropped"}, NEW b \in PE, NEW c \in Near(a) \intersect Nums(b)
        PROVE  noise'[a][c] = noise'[b][c]
    <3>1. a # p /\ pc[a] \in {"median", "dropped"}
      BY <1>3, <2>2
    <3>2. b \in Beside(a)
      BY <1>3, NearIs
    <3>3. heard[a] <= said[b] /\ heard[a] \in {1, 2}
      BY <1>2, <1>5, <3>1, <3>2, SaidIs DEF DropMail
    <3>4. b # p
      BY <1>3, <3>3, SaidIs
    <3>5. noise[a][c] = noise[b][c]
      BY <1>5, <3>1, SameNoise
    <3> QED BY <1>6, <3>1, <3>4, <3>5
  <2>3. ASSUME NEW a \in PE, pc'[a] \in {"noise", "median", "dropped"}
        PROVE  /\ DOMAIN noise'[a] = IF pc'[a] = "noise" THEN Nums(a) ELSE Nums(a) \union Near(a)
               /\ \A c \in Nums(a) : noise'[a][c] \in Nat
    <3>1. CASE a = p
      BY <1>3, <1>6, <1>7, <3>1
    <3>2. CASE a # p
      BY <1>3, <1>5, <1>6, <2>3, <3>2 DEF Noisy
    <3> QED BY <3>1, <3>2
  <2>4. ASSUME NEW a \in PE, pc'[a] \in {"median", "dropped"}
        PROVE  /\ DOMAIN median'[a] = IF pc'[a] = "median" THEN Nums(a) ELSE Nums(a) \union Near(a)
               /\ \A c \in Nums(a) : Halved(a, c)'
               /\ pc'[a] # "median" => \A q \in PE : \A c \in Near(a) \intersect Nums(q) :
                                         median'[a][c] = median'[q][c]
    <3>1. a # p /\ pc'[a] = pc[a]
      BY <1>3, <2>4
    <3> QED BY <1>2, <1>5, <2>1, <2>4, <3>1 DEF Noisy
  <2>5. median' = [q \in PE |-> median'[q]]
    BY <1>2, <1>5 DEF Noisy
  <2>6. ASSUME NEW a \in PE, pc'[a] \in {"noise", "median", "dropped"}
        PROVE  /\ dropedges'
               /\ DOMAIN noise'[a] = IF pc'[a] = "noise" THEN Nums(a)' ELSE Nums(a)' \union Near(a)'
               /\ \A c \in Nums(a)' : noise'[a][c] \in Nat
               /\ pc'[a] # "noise" => \A q \in PE : \A c \in Near(a)' \intersect Nums(q)' :
                                         noise'[a][c] = noise'[q][c]
    BY <1>2, <1>3, <2>2, <2>3, <2>6
  <2>7. ASSUME NEW a \in PE, pc'[a] \in {"median", "dropped"}
        PROVE  /\ DOMAIN median'[a] = IF pc'[a] = "median" THEN Nums(a)' ELSE Nums(a)' \union Near(a)'
               /\ \A c \in Nums(a)' : Halved(a, c)'
               /\ pc'[a] # "median" => \A q \in PE : \A c \in Near(a)' \intersect Nums(q)' :
                                         median'[a][c] = median'[q][c]
    BY <1>3, <2>4, <2>7
  <2> QED BY <1>6, <2>5, <2>6, <2>7 DEF Noisy
<1>9. Thinned'
  <2>1. \A q \in PE : q # p => \A c, d : Kept(q, c, d)' = Kept(q, c, d)
    BY <1>2, <1>3, <1>6, KeysStay
  <2> QED BY <1>2, <1>3, <1>5, <2>1 DEF Thinned, After
<1>10. DropMail'
  <2>1. /\ chan' = [a \in PE |-> [b \in PE |-> chan'[a][b]]]
        /\ \A a, b \in PE : chan'[a][b] =
             IF a = p /\ b \in Beside(p) THEN Append(chan[a][b], msgs[b]) ELSE chan[a][b]
    <3>1. chan = [q \in PE |-> [r \in PE |-> chan[q][r]]]
      BY <1>2, <1>5 DEF DropMail
    <3> QED BY <1>4, <1>6, <3>1, Posted
  <2>2. \A b \in Beside(p) : msgs[b] = N1(p, b)'
    <3>1. \A b \in Beside(p) : b \in PE
      BY DEF Beside
    <3> QED BY <1>3, <1>4, <1>6, <3>1 DEF N1
  <2>3. /\ said[p] = 0 /\ said'[p] = 1 /\ heard[p] = 0 /\ heard'[p] = 0
    BY <1>3 DEF said, heard
  <2>4. \A a, b \in PE : /\ said[a] >= 1 => N1(a, b)' = N1(a, b)
                         /\ said[a] = 2 => N2(a, b)' = N2(a, b)
    BY <1>2, <1>3, <1>6, <2>3 DEF N1, N2
  <2> HIDE DEF mine
  <2>5. Mails(p, FALSE, TRUE, msgs)
    BY <2>1, <2>2, <2>3, <2>4 DEF Mails
  <2> QED BY <1>2, <1>3, <1>5, <2>5, MailMoves
<1> QED BY <1>3, <1>8, <1>9, <1>10 DEF LInv

\* What p has of its own and of the coarse vertices near it after an exchange.
LEMMA CExchangedIs ==
  ASSUME IInv, LInv, NEW p \in PE, pc[p] \in {"noise", "median"}, ArrivedFrom(chan, p, CNbrs(p)),
         NEW data, DOMAIN data = Nums(p)
  PROVE  /\ DOMAIN CExchanged(p, data) = Nums(p) \union Near(p)
         /\ \A c \in Nums(p) : CExchanged(p, data)[c] = data[c]
         /\ \A q \in PE : \A c : c \in Near(p) /\ c \in Nums(q) =>
              CExchanged(p, data)[c] = IF pc[p] = "noise" THEN noise[q][c] ELSE median[q][c]
         /\ \A q \in Beside(p) : chan[q][p] # <<>> /\ heard[p] < said[q]
<1>1. Mated /\ Counted /\ AllCounted
  BY NumberedIs DEF Trimming
<1>2. cgraph[p] = [c \in Nums(p) |-> Whole(c)]
  BY DEF IInv, Coarse
<1>3. CGhosts(p) = Near(p) /\ CNbrs(p) = Beside(p)
  BY <1>1, <1>2, CommIs
<1>4. DropMail /\ Trimmed
  BY TrimmedIs DEF LInv
<1>5. heard[p] = IF pc[p] = "noise" THEN 0 ELSE 1
  BY SaidIs
<1>6. \A q \in Beside(p) : chan[q][p] # <<>>
  BY <1>3 DEF ArrivedFrom
<1>7. \A q \in Beside(p) : /\ Head(chan[q][p]) = IF pc[p] = "noise" THEN N1(q, p) ELSE N2(q, p)
                           /\ heard[p] < said[q]
  BY <1>4, <1>5, <1>6, Waiting
<1> DEFINE new == CExchanged(p, data)
<1>8. new = [c \in Nums(p) \union Near(p) |->
              IF c \in Nums(p) THEN data[c] ELSE Head(chan[COwner(c)][p])[c]]
  BY <1>3 DEF CExchanged
<1> HIDE DEF new
<1>9. ASSUME NEW q \in PE, NEW c, c \in Near(p), c \in Nums(q)
      PROVE  new[c] = IF pc[p] = "noise" THEN noise[q][c] ELSE median[q][c]
  <2>1. q \in Beside(p) /\ c \in Shows(q, p) /\ COwner(c) = q /\ c \notin Nums(p)
    BY <1>1, <1>9, NearIs, NumsIn
  <2>2. new[c] = Head(chan[q][p])[c]
    BY <1>8, <1>9, <2>1
  <2>3. Head(chan[q][p]) = IF pc[p] = "noise" THEN N1(q, p) ELSE N2(q, p)
    BY <1>7, <2>1
  <2> QED BY <2>1, <2>2, <2>3 DEF N1, N2
<1>10. /\ DOMAIN new = Nums(p) \union Near(p)
       /\ \A c \in Nums(p) : new[c] = data[c]
  BY <1>8
<1> QED BY <1>6, <1>7, <1>9, <1>10 DEF new

\* A coarse vertex that nothing was merged into.
LEMMA UnmatedIs ==
  ASSUME IInv, NEW p \in PE, pc[p] = "noise", NEW c, Cardinality(Team(c)) = 1
  PROVE  Unmated(p, c)
<1>1. Mated /\ Counted /\ AllCounted
  BY NumberedIs DEF Trimming
<1>2. \A v \in Own(p) : cmap[p][v] = num[v] /\ v \in Vertex /\ Partner(match[v]) = mate[v]
  <2>1. \A v \in Own(p) : cmap[p][v] = num[v]
    BY KnownNow DEF NumbersAt, Counting
  <2> QED BY <2>1, OwnIs DEF mate
<1>3. IsFiniteSet(Team(c))
  <2>1. Team(c) \in SUBSET Vertex
    BY DEF Team
  <2> QED BY <2>1, FiniteAssumption, FS_Subset
<1>4. PICK w : Team(c) = {w}
  BY <1>3, FS_Singleton
<1>5. \A v \in Vertex : num[v] = c => v = w
  BY <1>4 DEF Team
<1>6. \A v \in Vertex : mate[v] \in Vertex /\ num[mate[v]] = num[v]
  BY <1>1, Pairs, NumsAre
<1> QED BY <1>2, <1>5, <1>6 DEF Unmated

\* A median over keys that are there splits them.
LEMMA HalvedIs ==
  ASSUME Mated, Counted, AllCounted, NEW p \in PE, NEW c \in Nums(p),
         NEW ns, \A d \in Nums(p) \union Near(p) : ns[d] \in Nat,
         NEW m, m = 0 \/ m = Median(KeysWith(c, ns))
  PROVE  /\ m \in Nat
         /\ 2 * Cardinality({d \in DOMAIN KeysWith(c, ns) : KeysWith(c, ns)[d] >= m})
              >= Cardinality(DOMAIN KeysWith(c, ns))
<1> DEFINE keys == KeysWith(c, ns)
           adj == Whole(c).adj
<1>1. IsFiniteSet(DOMAIN adj) /\ \A d \in DOMAIN adj : adj[d] \in Nat
  BY EndsIn
<1>2. DOMAIN keys = DOMAIN adj
  BY DEF KeysWith
<1>3. \A d \in DOMAIN adj : d \in Nums(p) \union Near(p)
  BY DEF Near
<1>4. ASSUME NEW d \in DOMAIN adj PROVE keys[d] \in Nat
  <2>1. keys[d] = adj[d] * NoiseUnit + ns[c] + ns[d]
    BY DEF KeysWith, Key
  <2>2. adj[d] \in Nat /\ ns[c] \in Nat /\ ns[d] \in Nat /\ NoiseUnit = 4
    BY <1>1, <1>3 DEF NoiseUnit
  <2> HIDE DEF keys, adj
  <2> QED BY <2>1, <2>2
<1> HIDE DEF keys, adj
<1>5. /\ Median(keys) \in Nat
      /\ 2 * Cardinality({d \in DOMAIN keys : keys[d] >= Median(keys)}) >= Cardinality(DOMAIN keys)
  BY <1>1, <1>2, <1>4, MedianIs
<1>6. {d \in DOMAIN keys : keys[d] >= 0} = DOMAIN keys /\ Cardinality(DOMAIN keys) \in Nat
  <2>1. \A d \in DOMAIN keys : keys[d] \in Nat
    BY <1>2, <1>4
  <2>2. {d \in DOMAIN keys : keys[d] >= 0} = DOMAIN keys
    BY <2>1
  <2>3. Cardinality(DOMAIN keys) \in Nat
    BY <1>1, <1>2, FS_CardinalityType
  <2> QED BY <2>2, <2>3
<1>7. CASE m = 0
  <2>1. {d \in DOMAIN keys : keys[d] >= m} = DOMAIN keys
    BY <1>6, <1>7
  <2>2. 2 * Cardinality(DOMAIN keys) >= Cardinality(DOMAIN keys)
    BY <1>6
  <2> QED BY <1>7, <2>1, <2>2 DEF keys
<1>8. CASE m = Median(keys)
  BY <1>5, <1>8 DEF keys
<1> QED BY <1>7, <1>8 DEF keys

\* Every PE that has heard the noise of the PEs near it goes by it.
LEMMA MediansKeep == ASSUME IInv, LInv, NEW p \in PE, Medians(p) PROVE LInv'
<1> DEFINE ns == CExchanged(p, noise[p])
           mine == [c \in Nums(p) |-> IF Unmated(p, c) THEN 0 ELSE Median(KeysWith(c, ns))]
           msgs == CInterface(p, mine)
<1>0. pc[p] = "noise" /\ ArrivedFrom(chan, p, CNbrs(p))
  BY DEF Medians
<1>1. /\ Moves(p, "noise", "median") /\ Trimmed
      /\ match' = match /\ counts' = counts /\ mtype' = mtype /\ scand' = scand /\ rcand' = rcand
      /\ where' = where /\ cgraph' = cgraph /\ dropedges' = dropedges
  BY <1>0, TrimmedIs DEF Medians, Moves
<1>2. /\ Mated /\ Counted /\ AllCounted
      /\ mate' = mate /\ makers' = makers /\ pc[p] = "noise" /\ pc'[p] = "median"
      /\ \A q \in PE : q # p => pc'[q] = pc[q]
      /\ \A q \in PE : Nums(q)' = Nums(q) /\ Near(q)' = Near(q) /\ Beside(q)' = Beside(q)
      /\ \A q, r \in PE : Shows(q, r)' = Shows(q, r)
      /\ \A c : Whole(c)' = Whole(c) /\ Team(c)' = Team(c)
      /\ Shipments' /\ BackMail' /\ Returned'
  BY <1>1, TrimStep
<1>3. Noisy /\ Thinned /\ DropMail
  BY DEF LInv
<1>4. /\ dropedges /\ DOMAIN noise[p] = Nums(p) /\ \A c \in Nums(p) : noise[p][c] \in Nat
      /\ noise = [q \in PE |-> noise[q]] /\ median = [q \in PE |-> median[q]]
  BY <1>0, <1>3 DEF Noisy
<1>5. cgraph[p] = [c \in Nums(p) |-> Whole(c)]
  BY <1>0 DEF IInv, Coarse
<1>6. /\ DOMAIN cgraph[p] = Nums(p) /\ \A c \in Nums(p) : cgraph[p][c] = Whole(c)
      /\ CNbrs(p) = Beside(p)
      /\ \A data : CInterface(p, data) = [q \in Beside(p) |-> [c \in Shows(p, q) |-> data[c]]]
  BY <1>2, <1>5, CommIs
<1>7. /\ DOMAIN ns = Nums(p) \union Near(p)
      /\ \A c \in Nums(p) : ns[c] = noise[p][c]
      /\ \A q \in PE : \A c : c \in Near(p) /\ c \in Nums(q) => ns[c] = noise[q][c]
      /\ \A q \in Beside(p) : chan[q][p] # <<>> /\ heard[p] < said[q]
  <2>1. /\ DOMAIN ns = Nums(p) \union Near(p)
        /\ \A c \in Nums(p) : ns[c] = noise[p][c]
        /\ \A q \in PE : \A c : c \in Near(p) /\ c \in Nums(q) =>
             ns[c] = IF pc[p] = "noise" THEN noise[q][c] ELSE median[q][c]
        /\ \A q \in Beside(p) : chan[q][p] # <<>> /\ heard[p] < said[q]
    <3>1. pc[p] \in {"noise", "median"}
      BY <1>0
    <3> QED BY <1>0, <1>4, <3>1, CExchangedIs
  <2> HIDE DEF ns
  <2> QED BY <1>0, <2>1
<1>8. /\ noise' = [noise EXCEPT ![p] = ns]
      /\ median' = [median EXCEPT ![p] = mine]
      /\ chan' = Post(Take(chan, p, CNbrs(p)), p, msgs)
  <2>1. \A c \in Nums(p) : Keys(p, c, ns) = KeysWith(c, ns)
    <3> HIDE DEF ns
    <3> QED BY <1>6 DEF Keys, KeysWith
  <2>2. [c \in DOMAIN cgraph[p] |-> IF Unmated(p, c) THEN 0 ELSE Median(Keys(p, c, ns))] = mine
    <3> HIDE DEF ns
    <3> QED BY <1>6, <2>1
  <2> QED BY <2>2 DEF Medians
<1> HIDE DEF ns
<1>9. /\ noise'[p] = ns /\ median'[p] = mine
      /\ \A q \in PE : q # p => noise'[q] = noise[q] /\ median'[q] = median[q]
      /\ noise' = [q \in PE |-> noise'[q]] /\ median' = [q \in PE |-> median'[q]]
  BY <1>4, <1>8
<1>10. DOMAIN msgs = Beside(p) /\ \A q \in Beside(p) : msgs[q] = [c \in Shows(p, q) |-> mine[c]]
  <2> HIDE DEF mine
  <2>1. msgs = [q \in Beside(p) |-> [c \in Shows(p, q) |-> mine[c]]]
    BY <1>6
  <2> HIDE DEF msgs
  <2> QED BY <2>1
<1> HIDE DEF msgs
<1>11. \A q \in PE : \A c \in Nums(q) : noise'[q][c] = noise[q][c]
  BY <1>7, <1>9
<1>12. \A d \in Nums(p) \union Near(p) : ns[d] \in Nat
  <2>1. ASSUME NEW d \in Near(p) PROVE ns[d] \in Nat
    <3>1. PICK q \in PE : d \in Nums(q)
      BY <1>2, NearIs, NumsIn
    <3>2. q \in Beside(p)
      BY <1>2, <3>1, NearIs
    <3>3. said[q] > 0
      BY <1>0, <1>7, <3>2, SaidIs
    <3>4. pc[q] \in {"noise", "median", "dropped"}
      BY <1>1, <3>3, SaidIs DEF Trimmed, Trimming
    <3>5. noise[q][d] \in Nat
      BY <1>3, <3>1, <3>4 DEF Noisy
    <3> QED BY <1>7, <3>1, <3>5
  <2> QED BY <1>4, <1>7, <2>1
<1>13. ASSUME NEW c \in Nums(p) PROVE Halved(p, c)'
  <2>1. mine[c] = 0 \/ mine[c] = Median(KeysWith(c, ns))
    OBVIOUS
  <2>2. Cardinality(Team(c)) = 1 => mine[c] = 0
    BY <1>0, UnmatedIs
  <2> HIDE DEF mine
  <2>3. /\ mine[c] \in Nat
        /\ 2 * Cardinality({d \in DOMAIN KeysWith(c, ns) : KeysWith(c, ns)[d] >= mine[c]})
             >= Cardinality(DOMAIN KeysWith(c, ns))
    BY <1>2, <1>12, <2>1, HalvedIs
  <2>4. Keyed(p, c)' = KeysWith(c, ns)
    BY <1>2, <1>9 DEF Keyed, KeysWith, Key
  <2>5. Team(c)' = Team(c) /\ median'[p][c] = mine[c]
    BY <1>2, <1>9
  <2> QED BY <2>2, <2>3, <2>4, <2>5 DEF Halved
<1>14. DOMAIN mine = Nums(p)
  OBVIOUS
<1> HIDE DEF mine
<1>15. Noisy'
  <2>1. \A q \in PE : q # p => \A c : Halved(q, c)' = Halved(q, c)
    BY <1>2, <1>9, KeysStay
  <2>2. ASSUME NEW a \in PE, pc'[a] \in {"median", "dropped"}, NEW b \in PE, NEW c \in Near(a) \intersect Nums(b)
        PROVE  /\ noise'[a][c] = noise'[b][c]
               /\ pc'[a] # "median" => median'[a][c] = median'[b][c]
    <3>1. noise'[b][c] = noise[b][c]
      BY <1>11
    <3>2. CASE a = p
      BY <1>2, <1>7, <1>9, <3>1, <3>2
    <3>3. CASE a # p
      <4>1. pc[a] = pc'[a] /\ noise'[a] = noise[a] /\ median'[a] = median[a]
        BY <1>2, <1>9, <3>3
      <4>2. noise[a][c] = noise[b][c] /\ (pc[a] = "dropped" => median[a][c] = median[b][c])
        BY <1>3, <2>2, <4>1, SameNoise
      <4>3. pc[a] = "dropped" => b # p
        <5>1. b \in Beside(a)
          BY <1>2, NearIs
        <5>2. heard[a] <= said[b]
          BY <1>1, <1>3, <5>1 DEF DropMail
        <5> QED BY <1>2, <5>2, SaidIs
      <4> QED BY <1>9, <2>2, <3>1, <4>1, <4>2, <4>3
    <3> QED BY <3>2, <3>3
  <2>3. ASSUME NEW a \in PE, pc'[a] \in {"noise", "median", "dropped"}
        PROVE  /\ dropedges'
               /\ DOMAIN noise'[a] = IF pc'[a] = "noise" THEN Nums(a) ELSE Nums(a) \union Near(a)
               /\ \A c \in Nums(a) : noise'[a][c] \in Nat
    <3>1. CASE a = p
      BY <1>1, <1>2, <1>4, <1>7, <1>9, <3>1
    <3>2. CASE a # p
      <4>1. pc'[a] = pc[a] /\ noise'[a] = noise[a] /\ pc[a] \in {"noise", "median", "dropped"}
        BY <1>2, <1>9, <2>3, <3>2
      <4>2. /\ DOMAIN noise[a] = IF pc[a] = "noise" THEN Nums(a) ELSE Nums(a) \union Near(a)
            /\ \A c \in Nums(a) : noise[a][c] \in Nat
        BY <1>3, <4>1 DEF Noisy
      <4> QED BY <1>1, <1>4, <4>1, <4>2
    <3> QED BY <3>1, <3>2
  <2>4. ASSUME NEW a \in PE, pc'[a] \in {"median", "dropped"}
        PROVE  /\ DOMAIN median'[a] = IF pc'[a] = "median" THEN Nums(a) ELSE Nums(a) \union Near(a)
               /\ \A c \in Nums(a) : Halved(a, c)'
    <3>1. CASE a = p
      BY <1>2, <1>9, <1>13, <1>14, <3>1
    <3>2. CASE a # p
      <4>1. pc'[a] = pc[a] /\ median'[a] = median[a]
        BY <1>2, <1>9, <3>2
      <4>2. /\ DOMAIN median[a] = IF pc[a] = "median" THEN Nums(a) ELSE Nums(a) \union Near(a)
            /\ \A c \in Nums(a) : Halved(a, c)
        BY <1>3, <2>4, <4>1 DEF Noisy
      <4> QED BY <2>1, <3>2, <4>1, <4>2
    <3> QED BY <3>1, <3>2
  <2>5. ASSUME NEW a \in PE, pc'[a] \in {"noise", "median", "dropped"}
        PROVE  /\ dropedges'
               /\ DOMAIN noise'[a] = IF pc'[a] = "noise" THEN Nums(a)' ELSE Nums(a)' \union Near(a)'
               /\ \A c \in Nums(a)' : noise'[a][c] \in Nat
               /\ pc'[a] # "noise" => \A q \in PE : \A c \in Near(a)' \intersect Nums(q)' :
                                         noise'[a][c] = noise'[q][c]
    BY <1>2, <2>2, <2>3, <2>5
  <2>6. ASSUME NEW a \in PE, pc'[a] \in {"median", "dropped"}
        PROVE  /\ DOMAIN median'[a] = IF pc'[a] = "median" THEN Nums(a)' ELSE Nums(a)' \union Near(a)'
               /\ \A c \in Nums(a)' : Halved(a, c)'
               /\ pc'[a] # "median" => \A q \in PE : \A c \in Near(a)' \intersect Nums(q)' :
                                         median'[a][c] = median'[q][c]
    BY <1>2, <2>2, <2>4, <2>6
  <2> QED BY <1>9, <2>5, <2>6 DEF Noisy
<1>16. Thinned'
  <2>1. \A q \in PE : q # p => \A c, d : Kept(q, c, d)' = Kept(q, c, d)
    BY <1>2, <1>9, KeysStay
  <2> QED BY <1>1, <1>2, <1>3, <2>1 DEF Thinned, After
<1>17. DropMail'
  <2>1. \A b \in Beside(p) : b \in PE /\ b # p
    BY DEF Beside
  <2>2. /\ chan' = [a \in PE |-> [b \in PE |-> chan'[a][b]]]
        /\ \A a, b \in PE : chan'[a][b] =
             IF b = p /\ a \in Beside(p) THEN Tail(chan[a][b])
             ELSE IF a = p /\ b \in Beside(p) THEN Append(chan[a][b], msgs[b])
             ELSE chan[a][b]
    <3>1. Beside(p) \subseteq PE \ {p}
      BY <2>1
    <3>2. chan' = Post(Take(chan, p, Beside(p)), p, msgs)
      BY <1>6, <1>8
    <3> QED BY <1>1, <1>3, <1>10, <3>1, <3>2, DropChannels
  <2>3. \A b \in Beside(p) : msgs[b] = N2(p, b)'
    BY <1>2, <1>9, <1>10, <2>1 DEF N2
  <2>4. /\ said[p] = 1 /\ said'[p] = 2 /\ heard[p] = 0 /\ heard'[p] = 1
    BY <1>2 DEF said, heard
  <2>5. \A a, b \in PE : /\ said[a] >= 1 => N1(a, b)' = N1(a, b)
                         /\ said[a] = 2 => N2(a, b)' = N2(a, b)
    <3>1. \A a, b \in PE : Shows(a, b) \subseteq Nums(a)
      BY DEF Shows
    <3> QED BY <1>2, <1>9, <1>11, <2>4, <3>1 DEF N1, N2
  <2>6. Mails(p, TRUE, TRUE, msgs)
    BY <1>7, <2>2, <2>3, <2>4, <2>5 DEF Mails
  <2> QED BY <1>1, <1>2, <1>3, <2>6, MailMoves
<1> QED BY <1>2, <1>15, <1>16, <1>17 DEF LInv

\* And every PE that has heard the medians of the PEs near it drops edges.
LEMMA DropKeeps == ASSUME IInv, LInv, NEW p \in PE, Drop(p) PROVE LInv'
<1> DEFINE ms == CExchanged(p, median[p])
           thin(c, r) == [vwgt |-> r.vwgt, adj |-> [d \in {e \in DOMAIN r.adj : Stays(p, c, e, noise[p], ms)} |-> r.adj[d]]]
<1>0. pc[p] = "median" /\ ArrivedFrom(chan, p, CNbrs(p))
  BY DEF Drop
<1>1. /\ Moves(p, "median", "dropped") /\ Trimmed
      /\ match' = match /\ counts' = counts /\ mtype' = mtype /\ scand' = scand /\ rcand' = rcand
      /\ where' = where /\ noise' = noise /\ dropedges' = dropedges
  BY <1>0, TrimmedIs DEF Drop, Moves
<1>2. /\ Mated /\ Counted /\ AllCounted
      /\ mate' = mate /\ makers' = makers /\ pc[p] = "median" /\ pc'[p] = "dropped"
      /\ \A q \in PE : q # p => pc'[q] = pc[q]
      /\ \A q \in PE : Nums(q)' = Nums(q) /\ Near(q)' = Near(q) /\ Beside(q)' = Beside(q)
      /\ \A q, r \in PE : Shows(q, r)' = Shows(q, r)
      /\ \A c : Whole(c)' = Whole(c) /\ Team(c)' = Team(c)
      /\ Shipments' /\ BackMail' /\ Returned'
  BY <1>1, TrimStep
<1>3. Noisy /\ Thinned /\ DropMail
  BY DEF LInv
<1>4. /\ dropedges /\ DOMAIN median[p] = Nums(p)
      /\ noise = [q \in PE |-> noise[q]] /\ median = [q \in PE |-> median[q]]
  BY <1>0, <1>3 DEF Noisy
<1>5. cgraph[p] = [c \in Nums(p) |-> Whole(c)] /\ cgraph = [q \in PE |-> cgraph[q]]
  BY <1>0 DEF IInv, Coarse
<1>6. /\ DOMAIN cgraph[p] = Nums(p) /\ \A c \in Nums(p) : cgraph[p][c] = Whole(c)
      /\ CNbrs(p) = Beside(p)
  BY <1>2, <1>5, CommIs
<1>7. /\ DOMAIN ms = Nums(p) \union Near(p)
      /\ \A c \in Nums(p) : ms[c] = median[p][c]
      /\ \A q \in PE : \A c : c \in Near(p) /\ c \in Nums(q) => ms[c] = median[q][c]
      /\ \A q \in Beside(p) : chan[q][p] # <<>> /\ heard[p] < said[q]
  <2>1. /\ DOMAIN ms = Nums(p) \union Near(p)
        /\ \A c \in Nums(p) : ms[c] = median[p][c]
        /\ \A q \in PE : \A c : c \in Near(p) /\ c \in Nums(q) =>
             ms[c] = IF pc[p] = "noise" THEN noise[q][c] ELSE median[q][c]
        /\ \A q \in Beside(p) : chan[q][p] # <<>> /\ heard[p] < said[q]
    <3>1. pc[p] \in {"noise", "median"}
      BY <1>0
    <3>2. DOMAIN median[p] = Nums(p)
      BY <1>4
    <3> QED BY <1>0, <3>1, <3>2, CExchangedIs, Zenon
  <2> HIDE DEF ms
  <2> QED BY <1>0, <2>1
<1>8. /\ median' = [median EXCEPT ![p] = ms]
      /\ cgraph' = [cgraph EXCEPT ![p] = [c \in DOMAIN cgraph[p] |-> thin(c, cgraph[p][c])]]
      /\ chan' = Take(chan, p, CNbrs(p))
  <2>1. median' = [median EXCEPT ![p] = ms] /\ chan' = Take(chan, p, CNbrs(p))
    BY DEF Drop
  <2>3. cgraph' = [cgraph EXCEPT ![p] = [c \in DOMAIN cgraph[p] |-> thin(c, cgraph[p][c])]]
    BY Zenon DEF Drop
  <2> HIDE DEF ms
  <2> HIDE DEF thin
  <2> QED BY <2>1, <2>3
<1> HIDE DEF ms, thin
<1>9. /\ median'[p] = ms
      /\ \A q \in PE : q # p => median'[q] = median[q] /\ cgraph'[q] = cgraph[q]
      /\ median' = [q \in PE |-> median'[q]]
  BY <1>4, <1>5, <1>8
<1>10. \A q \in PE : \A c \in Nums(q) : median'[q][c] = median[q][c]
  BY <1>7, <1>9
<1>11. Noisy'
  <2>1. \A q \in PE : \A c \in Nums(q) : Halved(q, c)' = Halved(q, c)
    BY <1>1, <1>2, <1>10, KeysStay
  <2>2. ASSUME NEW a \in PE, pc'[a] \in {"median", "dropped"}, NEW b \in PE, NEW c \in Near(a) \intersect Nums(b)
        PROVE  /\ noise'[a][c] = noise'[b][c]
               /\ pc'[a] # "median" => median'[a][c] = median'[b][c]
    <3>1. pc[a] \in {"median", "dropped"}
      BY <1>2, <2>2
    <3>2. noise[a][c] = noise[b][c] /\ (pc[a] = "dropped" => median[a][c] = median[b][c])
      BY <1>3, <3>1, SameNoise
    <3>3. pc'[a] # "median" => median'[a][c] = median'[b][c]
      <4>1. median'[b][c] = median[b][c]
        BY <1>10
      <4>2. CASE a = p
        BY <1>7, <1>9, <4>1, <4>2
      <4>3. CASE a # p
        BY <1>2, <1>9, <2>2, <3>2, <4>1, <4>3
      <4> QED BY <4>2, <4>3
    <3> QED BY <1>1, <3>2, <3>3
  <2>3. ASSUME NEW a \in PE, pc'[a] \in {"noise", "median", "dropped"}
        PROVE  /\ dropedges'
               /\ DOMAIN noise'[a] = IF pc'[a] = "noise" THEN Nums(a) ELSE Nums(a) \union Near(a)
               /\ \A c \in Nums(a) : noise'[a][c] \in Nat
    <3>1. /\ pc[a] \in {"noise", "median", "dropped"}
          /\ pc[a] = "noise" <=> pc'[a] = "noise"
      BY <1>2, <2>3
    <3>2. /\ DOMAIN noise[a] = IF pc[a] = "noise" THEN Nums(a) ELSE Nums(a) \union Near(a)
          /\ \A c \in Nums(a) : noise[a][c] \in Nat
      BY <1>3, <3>1 DEF Noisy
    <3> QED BY <1>1, <1>4, <3>1, <3>2
  <2>4. ASSUME NEW a \in PE, pc'[a] \in {"median", "dropped"}
        PROVE  /\ DOMAIN median'[a] = IF pc'[a] = "median" THEN Nums(a) ELSE Nums(a) \union Near(a)
               /\ \A c \in Nums(a) : Halved(a, c)'
    <3>1. pc[a] \in {"median", "dropped"}
      BY <1>2, <2>4
    <3>2. /\ DOMAIN median[a] = IF pc[a] = "median" THEN Nums(a) ELSE Nums(a) \union Near(a)
          /\ \A c \in Nums(a) : Halved(a, c)
      BY <1>3, <3>1 DEF Noisy
    <3>3. CASE a = p
      BY <1>2, <1>7, <1>9, <2>1, <3>2, <3>3
    <3>4. CASE a # p
      BY <1>2, <1>9, <2>1, <3>2, <3>4
    <3> QED BY <3>3, <3>4
  <2>5. ASSUME NEW a \in PE, pc'[a] \in {"noise", "median", "dropped"}
        PROVE  /\ dropedges'
               /\ DOMAIN noise'[a] = IF pc'[a] = "noise" THEN Nums(a)' ELSE Nums(a)' \union Near(a)'
               /\ \A c \in Nums(a)' : noise'[a][c] \in Nat
               /\ pc'[a] # "noise" => \A q \in PE : \A c \in Near(a)' \intersect Nums(q)' :
                                         noise'[a][c] = noise'[q][c]
    <3>1. pc'[a] # "noise" => pc'[a] \in {"median", "dropped"}
      BY <2>5
    <3>2. pc'[a] # "noise" => \A q \in PE : \A c \in Near(a) \intersect Nums(q) : noise'[a][c] = noise'[q][c]
      BY <2>2, <3>1
    <3> QED BY <1>2, <2>3, <2>5, <3>2
  <2>6. ASSUME NEW a \in PE, pc'[a] \in {"median", "dropped"}
        PROVE  /\ DOMAIN median'[a] = IF pc'[a] = "median" THEN Nums(a)' ELSE Nums(a)' \union Near(a)'
               /\ \A c \in Nums(a)' : Halved(a, c)'
               /\ pc'[a] # "median" => \A q \in PE : \A c \in Near(a)' \intersect Nums(q)' :
                                         median'[a][c] = median'[q][c]
    BY <1>2, <2>2, <2>4, <2>6
  <2>7. noise' = [q \in PE |-> noise'[q]]
    BY <1>1, <1>4
  <2> QED BY <1>9, <2>5, <2>6, <2>7 DEF Noisy
<1>12. Thinned'
  <2>1. ASSUME NEW c \in Nums(p)
        PROVE  /\ cgraph'[p][c].vwgt = Whole(c).vwgt
               /\ DOMAIN cgraph'[p][c].adj = {d \in DOMAIN Whole(c).adj : Kept(p, c, d)'}
               /\ \A d \in DOMAIN cgraph'[p][c].adj : cgraph'[p][c].adj[d] = Whole(c).adj[d]
    <3> DEFINE old == Whole(c)
               adj == [d \in {e \in DOMAIN old.adj : Stays(p, c, e, noise[p], ms)} |-> old.adj[d]]
    <3>1. cgraph'[p][c] = thin(c, old)
      <4> HIDE DEF old
      <4>1. cgraph[p][c] = old
        BY <1>6 DEF old
      <4> QED BY <1>5, <1>6, <1>8, <4>1
    <3>2. \A e \in DOMAIN old.adj : Stays(p, c, e, noise[p], ms) <=> Kept(p, c, e)'
      <4>1. cgraph[p][c] = old
        BY <1>6
      <4>2. Keyed(p, c)' = KeysWith(c, noise[p])
        BY <1>1, <1>2 DEF Keyed, KeysWith, Key
      <4>3. \A e \in DOMAIN old.adj : KeysWith(c, noise[p])[e] = Key(c, e, old.adj[e], noise[p])
        BY DEF KeysWith
      <4> HIDE DEF old
      <4> QED BY <1>9, <4>1, <4>2, <4>3 DEF Stays, Kept
    <3> HIDE DEF old
    <3>4. cgraph'[p][c].vwgt = old.vwgt /\ cgraph'[p][c].adj = adj
      BY <3>1 DEF thin
    <3> QED BY <3>2, <3>4 DEF old
  <2>2. DOMAIN cgraph'[p] = Nums(p)
    BY <1>5, <1>6, <1>8
  <2>3. \A q \in PE : q # p => \A c, d : Kept(q, c, d)' = Kept(q, c, d)
    BY <1>1, <1>2, <1>9, KeysStay
  <2>4. ASSUME NEW a \in PE, pc'[a] \in {"dropped"} \union After
        PROVE  /\ DOMAIN cgraph'[a] = Nums(a)
               /\ \A c \in Nums(a) :
                    /\ cgraph'[a][c].vwgt = Whole(c).vwgt
                    /\ DOMAIN cgraph'[a][c].adj \subseteq DOMAIN Whole(c).adj
                    /\ \A d \in DOMAIN cgraph'[a][c].adj : cgraph'[a][c].adj[d] = Whole(c).adj[d]
                    /\ ~dropedges => DOMAIN cgraph'[a][c].adj = DOMAIN Whole(c).adj
                    /\ pc'[a] = "dropped" =>
                         DOMAIN cgraph'[a][c].adj = {d \in DOMAIN Whole(c).adj : Kept(a, c, d)'}
    <3>1. CASE a = p
      BY <1>4, <2>1, <2>2, <3>1
    <3>2. CASE a # p
      <4>1. pc'[a] = pc[a] /\ cgraph'[a] = cgraph[a]
        BY <1>2, <1>9, <3>2
      <4>2. /\ DOMAIN cgraph[a] = Nums(a)
            /\ \A c \in Nums(a) :
                 /\ cgraph[a][c].vwgt = Whole(c).vwgt
                 /\ DOMAIN cgraph[a][c].adj \subseteq DOMAIN Whole(c).adj
                 /\ \A d \in DOMAIN cgraph[a][c].adj : cgraph[a][c].adj[d] = Whole(c).adj[d]
                 /\ ~dropedges => DOMAIN cgraph[a][c].adj = DOMAIN Whole(c).adj
                 /\ pc[a] = "dropped" =>
                      DOMAIN cgraph[a][c].adj = {d \in DOMAIN Whole(c).adj : Kept(a, c, d)}
        BY <1>3, <2>4, <4>1 DEF Thinned
      <4>3. \A c, d : Kept(a, c, d)' = Kept(a, c, d)
        BY <2>3, <3>2
      <4> QED BY <4>1, <4>2, <4>3
    <3> QED BY <3>1, <3>2
  <2>5. dropedges' \in BOOLEAN
    BY <1>1, <1>3 DEF Thinned
  <2> QED BY <1>1, <1>2, <2>4, <2>5 DEF Thinned
<1>13. DropMail'
  <2>1. /\ chan' = [a \in PE |-> [b \in PE |-> chan'[a][b]]]
        /\ \A a, b \in PE : chan'[a][b] = IF a \in Beside(p) /\ b = p THEN Tail(chan[a][b]) ELSE chan[a][b]
    <3>1. chan = [q \in PE |-> [r \in PE |-> chan[q][r]]]
      BY <1>1, <1>3 DEF DropMail
    <3> QED BY <1>6, <1>8, <3>1, Taken
  <2>2. /\ said[p] = 2 /\ said'[p] = 2 /\ heard[p] = 1 /\ heard'[p] = 2
    BY <1>2 DEF said, heard
  <2>3. \A a, b \in PE : N1(a, b)' = N1(a, b) /\ N2(a, b)' = N2(a, b)
    <3>1. \A a, b \in PE : Shows(a, b) \subseteq Nums(a)
      BY DEF Shows
    <3> QED BY <1>1, <1>2, <1>10, <3>1 DEF N1, N2
  <2>4. Mails(p, TRUE, FALSE, <<>>)
    BY <1>7, <2>1, <2>2, <2>3 DEF Mails
  <2> QED BY <1>1, <1>2, <1>3, <2>4, MailMoves
<1> QED BY <1>2, <1>11, <1>12, <1>13 DEF LInv

-----------------------------------------------------------------------------
(* The way back.                                                           *)

\* The coarser levels begin with what DropEdges has left, and with no message
\* of it in flight.
LEMMA PartitionKeeps == ASSUME IInv, LInv, Partition PROVE LInv'
<1>1. /\ match' = match /\ counts' = counts /\ mtype' = mtype /\ scand' = scand /\ rcand' = rcand
      /\ cgraph' = cgraph /\ dropedges' = dropedges /\ noise' = noise /\ median' = median
      /\ where' = where /\ chan' = chan
      /\ \A p \in PE : pc'[p] = "project" /\ pc[p] = IF dropedges THEN "dropped" ELSE "coarse"
      /\ DOMAIN cwhere' = UNION {DOMAIN cgraph[p] : p \in PE}
  BY DEF Partition, dropping
<1>2. mate' = mate /\ makers' = makers /\ num' = num
  BY <1>1, MatchStays, NumbersStay
<1>3. 0 \in PE
  BY NpesAssumption DEF PE
<1>4. Mated /\ Counted /\ AllCounted /\ Coarse
  BY <1>1, <1>3, NumberedIs DEF IInv, Trimming
<1>5. Noisy /\ Thinned /\ Shipments /\ DropMail /\ Returned
  BY DEF LInv
<1>6. \A q : Nums(q)' = Nums(q) /\ \A c : Whole(c)' = Whole(c)
  BY <1>1, <1>2, NumbersStay
<1>7. \A a, b : Gone(a, b)' = Gone(a, b) /\ Met(a, b)' = Met(a, b)
  BY <1>2, PairsStay
<1>8. ASSUME NEW p \in PE
      PROVE  /\ DOMAIN cgraph[p] = Nums(p)
             /\ \A c \in Nums(p) :
                  /\ cgraph[p][c].vwgt = Whole(c).vwgt
                  /\ DOMAIN cgraph[p][c].adj \subseteq DOMAIN Whole(c).adj
                  /\ \A d \in DOMAIN cgraph[p][c].adj : cgraph[p][c].adj[d] = Whole(c).adj[d]
                  /\ ~dropedges => DOMAIN cgraph[p][c].adj = DOMAIN Whole(c).adj
  <2>1. CASE dropedges
    <3>1. pc[p] \in {"dropped"} \union After
      BY <1>1, <2>1
    <3> QED BY <1>5, <3>1 DEF Thinned
  <2>2. CASE ~dropedges
    <3>1. pc[p] \in {"coarse", "noise", "median"}
      BY <1>1, <2>2
    <3>2. cgraph[p] = [c \in Nums(p) |-> Whole(c)]
      BY <1>4, <3>1 DEF Coarse
    <3> QED BY <3>2
  <2> QED BY <2>1, <2>2
<1>9. Noisy'
  BY <1>1, <1>5 DEF Noisy
<1>10. Thinned'
  <2>1. dropedges' \in BOOLEAN
    BY <1>1, <1>5 DEF Thinned
  <2>2. \A p \in PE : pc'[p] # "dropped"
    BY <1>1
  <2> QED BY <1>1, <1>6, <1>8, <2>1, <2>2 DEF Thinned
<1>11. Shipments'
  <2>1. \A p \in PE : pc[p] \in Trimming \union After /\ pc[p] \notin {"projected", "done"}
    BY <1>1 DEF Trimming
  <2>2. \A p, q \in PE : /\ scand[p][q] = Gone(p, q)
                         /\ rcand[p][q] = {[key |-> mate[v], val |-> num[v]] : v \in Met(p, q)}
    BY <1>5, <2>1 DEF Shipments
  <2>3. mtype' = "local" => \A p, q \in PE : scand'[p][q] = {} /\ rcand'[p][q] = {}
    BY <1>1, <1>5 DEF Shipments
  <2>4. \A p, q \in PE : /\ scand'[p][q] = Gone(p, q)'
                         /\ rcand'[p][q] = {[key |-> mate'[v], val |-> num'[v]] : v \in Met(p, q)'}
    BY <1>1, <1>2, <1>7, <2>2
  <2> QED BY <2>3, <2>4 DEF Shipments
<1>12. DropMail'
  BY <1>1, <1>3 DEF DropMail, Trimmed, Trimming
<1>13. BackMail'
  <2>1. Trimmed
    BY <1>1 DEF Trimmed, Trimming
  <2>2. \A p, q \in PE : heard[p] = said[q]
    BY <1>1 DEF heard, said
  <2>3. chan = [q \in PE |-> [p \in PE |-> chan[q][p]]] /\ \A p, q \in PE : chan[q][p] = <<>>
    BY <1>5, <2>1, <2>2 DEF DropMail
  <2> QED BY <1>1, <2>3 DEF BackMail
<1>14. Returned'
  <2>1. DOMAIN cwhere' = 0..(ncoarse - 1)
    <3>1. \A c : c \in UNION {DOMAIN cgraph[p] : p \in PE} <=> \E p \in PE : c \in Nums(p)
      BY <1>8
    <3>2. \A c : c \in 0..(ncoarse - 1) <=> \E p \in PE : c \in Nums(p)
      BY <1>4, NumsIn
    <3> QED BY <1>1, <3>1, <3>2
  <2>2. ncoarse' = ncoarse
    BY <1>1 DEF ncoarse
  <2> QED BY <1>1, <1>5, <2>1, <2>2 DEF Returned
<1> QED BY <1>9, <1>10, <1>11, <1>12, <1>13, <1>14 DEF LInv

\* What the steps of ProjectPartition have in common.
LEMMA BackStep ==
  ASSUME IInv, LInv, NEW p \in PE, NEW s \in {"project", "projected"}, NEW t \in {"projected", "done"},
         Moves(p, s, t), match' = match, counts' = counts, mtype' = mtype, dropedges' = dropedges,
         scand' = scand, cgraph' = cgraph, noise' = noise, median' = median, cwhere' = cwhere,
         \A q \in PE : q # p => rcand'[q] = rcand[q],
         \A q \in PE : rcand[p][q] = {} => rcand'[p][q] = {}
  PROVE  /\ Mated /\ Counted /\ AllCounted
         /\ mate' = mate /\ makers' = makers /\ num' = num /\ Early' = Early /\ pc[p] = s /\ pc'[p] = t
         /\ \A q \in PE : q # p => pc'[q] = pc[q]
         /\ \A q \in PE : pc[q] \in After /\ pc'[q] \in After
         /\ \A a, b : Met(a, b)' = Met(a, b) /\ Home(a, b)' = Home(a, b)
         /\ Noisy' /\ Thinned' /\ Shipments' /\ DropMail' /\ ncoarse' = ncoarse
<1>1. pc[p] = s /\ s \notin Counting /\ t \notin Counting /\ s \in After /\ t \in After
  BY DEF Moves, Counting, After
<1>2. Mated /\ Counted /\ AllCounted /\ Placed
  BY <1>1, NumberedIs DEF IInv
<1>3. /\ mate' = mate /\ makers' = makers /\ num' = num /\ Early' = Early /\ pc'[p] = t
      /\ \A q \in PE : q # p => pc'[q] = pc[q]
  BY <1>1, Steady
<1>4. \A q \in PE : pc[q] \in After /\ pc'[q] \in After
  BY <1>1, <1>2, <1>3 DEF Placed
<1>5. \A q \in PE : pc'[q] \notin Trimming /\ pc[q] \notin Trimming
  BY <1>4 DEF After, Trimming
<1>6. \A a, b : Gone(a, b)' = Gone(a, b) /\ Met(a, b)' = Met(a, b)
  BY <1>3, PairsStay
<1>7. \A a, b : Home(a, b)' = Home(a, b)
  BY <1>3, <1>6 DEF Home
<1>8. Noisy /\ Thinned /\ Shipments
  BY DEF LInv
<1>9. Noisy'
  BY <1>5, <1>8 DEF Noisy, Trimming
<1>10. Thinned'
  <2>1. \A q : Nums(q)' = Nums(q) /\ \A c : Whole(c)' = Whole(c)
    BY <1>3, NumbersStay
  <2>2. \A q \in PE : pc'[q] # "dropped"
    BY <1>5 DEF Trimming
  <2>3. \A a \in PE :
          /\ DOMAIN cgraph[a] = Nums(a)
          /\ \A c \in Nums(a) :
               /\ cgraph[a][c].vwgt = Whole(c).vwgt
               /\ DOMAIN cgraph[a][c].adj \subseteq DOMAIN Whole(c).adj
               /\ \A d \in DOMAIN cgraph[a][c].adj : cgraph[a][c].adj[d] = Whole(c).adj[d]
               /\ ~dropedges => DOMAIN cgraph[a][c].adj = DOMAIN Whole(c).adj
    BY <1>4, <1>8 DEF Thinned
  <2>4. dropedges' \in BOOLEAN
    BY <1>8 DEF Thinned
  <2> QED BY <2>1, <2>2, <2>3, <2>4 DEF Thinned
<1>11. Shipments'
  <2>1. \A q \in PE : scand'[p][q] = Gone(p, q)
    BY <1>1, <1>8 DEF Shipments
  <2>2. mtype = "local" => \A q \in PE : scand'[p][q] = {} /\ rcand'[p][q] = {}
    BY <1>8 DEF Shipments
  <2>3. pc'[p] \in {"projected", "done"} /\ \A q \in PE : q # p => scand'[q] = scand[q]
    BY <1>3
  <2> QED BY <1>3, <1>8, <2>1, <2>2, <2>3, ShipmentsStay
<1>12. DropMail'
  BY <1>3, <1>5 DEF DropMail, Trimmed
<1>13. ncoarse' = ncoarse
  BY DEF ncoarse
<1> QED BY <1>1, <1>2, <1>3, <1>4, <1>6, <1>7, <1>9, <1>10, <1>11, <1>12, <1>13

\* The parts of the vertices from afar go back to where these are.
LEMMA ProjectKeeps == ASSUME IInv, LInv, NEW p \in PE, Project(p) PROVE LInv'
<1> DEFINE parts == [q \in PE |-> {[r EXCEPT !.val = cwhere[@]] : r \in rcand[p][q]}]
           msgs == [q \in ReceivesOf(p) |-> [phase |-> "where", parts |-> parts[q]]]
           mine == [v \in {u \in Own(p) : Keeps(match[u])} |-> cwhere[cmap[p][v]]]
<1>1. /\ Moves(p, "project", "projected")
      /\ match' = match /\ counts' = counts /\ mtype' = mtype /\ dropedges' = dropedges
      /\ scand' = scand /\ cgraph' = cgraph /\ noise' = noise /\ median' = median /\ cwhere' = cwhere
      /\ rcand' = [rcand EXCEPT ![p] = parts]
      /\ chan' = Post(chan, p, msgs)
      /\ where' = [where EXCEPT ![p] = mine]
  BY DEF Project, dropping, Moves
<1>2. rcand = [q \in PE |-> rcand[q]]
  BY DEF IInv, Exchange
<1>3. \A q \in PE : q # p => rcand'[q] = rcand[q]
  BY <1>1, <1>2
<1>4. \A q \in PE : rcand[p][q] = {} => rcand'[p][q] = {}
  BY <1>1, <1>2
<1>5. /\ Mated /\ Counted /\ AllCounted
      /\ mate' = mate /\ makers' = makers /\ num' = num /\ Early' = Early
      /\ pc[p] = "project" /\ pc'[p] = "projected"
      /\ \A q \in PE : q # p => pc'[q] = pc[q]
      /\ \A q \in PE : pc[q] \in After /\ pc'[q] \in After
      /\ \A a, b : Met(a, b)' = Met(a, b) /\ Home(a, b)' = Home(a, b)
      /\ Noisy' /\ Thinned' /\ Shipments' /\ DropMail' /\ ncoarse' = ncoarse
  <2> HIDE DEF parts, msgs, mine
  <2> QED BY <1>1, <1>3, <1>4, BackStep
<1>6. Shipments /\ BackMail /\ Returned
  BY DEF LInv
<1>7. \A q \in PE : rcand[p][q] = {[key |-> mate[v], val |-> num[v]] : v \in Met(p, q)}
  BY <1>5, <1>6 DEF Shipments
<1>8. \A q : q \in ReceivesOf(p) <=> q \in PE /\ Met(p, q) # {}
  <2>1. ASSUME NEW q \in PE PROVE rcand[p][q] # {} <=> Met(p, q) # {}
    <3> DEFINE S == Met(p, q)
               mates == {[key |-> mate[v], val |-> num[v]] : v \in S}
    <3>1. rcand[p][q] = mates
      BY <1>7
    <3> HIDE DEF S
    <3>2. mates # {} <=> S # {}
      OBVIOUS
    <3> HIDE DEF mates
    <3> QED BY <3>1, <3>2 DEF S
  <2>2. \A q \in PE : Met(p, q) # {} => q \in Nbrs(p)
    BY <1>5, ShippedAre
  <2> QED BY <2>1, <2>2, NbrsIn DEF ReceivesOf
<1>9. ASSUME NEW q \in PE PROVE parts[q] = {[key |-> mate[v], val |-> cwhere[num[v]]] : v \in Met(p, q)}
  <2> DEFINE S == Met(p, q)
             rec(v) == [key |-> mate[v], val |-> num[v]]
             back(r) == [r EXCEPT !.val = cwhere[@]]
             new(v) == [key |-> mate[v], val |-> cwhere[num[v]]]
  <2>1. rcand[p][q] = {rec(v) : v \in S}
    BY <1>7
  <2>2. parts[q] = {back(r) : r \in rcand[p][q]}
    OBVIOUS
  <2>3. \A v : back(rec(v)) = new(v)
    OBVIOUS
  <2> HIDE DEF S, rec, back, parts
  <2>4. parts[q] = {new(v) : v \in S}
    <3> HIDE DEF new
    <3> QED BY <2>1, <2>2, <2>3
  <2> QED BY <2>4 DEF S
<1>10. DOMAIN msgs = ReceivesOf(p) /\ \A q \in ReceivesOf(p) : msgs[q] = Home(p, q)
  <2> HIDE DEF parts
  <2> QED BY <1>8, <1>9 DEF Home
<1> HIDE DEF parts, msgs
<1>11. BackMail'
  <2>1. /\ chan = [q \in PE |-> [r \in PE |-> chan[q][r]]]
        /\ \A r, q \in PE : chan[q][r] =
             IF Met(q, r) # {} /\ pc[q] # "project" /\ pc[r] # "done" THEN <<Home(q, r)>> ELSE <<>>
        /\ \A r, q \in PE : Met(q, r) # {} /\ pc[r] = "done" => pc[q] # "project"
    BY <1>5, <1>6 DEF BackMail
  <2>2. /\ chan' = [q \in PE |-> [r \in PE |-> chan'[q][r]]]
        /\ \A q, r \in PE : chan'[q][r] =
             IF q = p /\ r \in DOMAIN msgs THEN Append(chan[q][r], msgs[r]) ELSE chan[q][r]
    <3>1. chan' = Post(chan, p, msgs)
      BY <1>1
    <3>2. chan = [q \in PE |-> [r \in PE |-> chan[q][r]]]
      BY <2>1
    <3> QED BY <3>1, <3>2, Posted
  <2>3. ASSUME NEW q \in PE, NEW r \in PE
        PROVE  /\ chan'[q][r] = IF Met(q, r) # {} /\ pc'[q] # "project" /\ pc'[r] # "done"
                                THEN <<Home(q, r)>> ELSE <<>>
               /\ Met(q, r) # {} /\ pc'[r] = "done" => pc'[q] # "project"
    <3>1. CASE q # p
      <4>1. chan'[q][r] = chan[q][r] /\ pc'[q] = pc[q] /\ (pc'[r] = "done" <=> pc[r] = "done")
        BY <1>5, <2>2, <3>1
      <4> QED BY <2>1, <4>1
    <3>2. CASE q = p
      <4>1. r \in DOMAIN msgs <=> Met(p, r) # {}
        BY <1>8, <1>10
      <4>2. chan[p][r] = <<>> /\ (Met(p, r) # {} => pc[r] # "done" /\ pc'[r] # "done")
        BY <1>5, <2>1
      <4>3. Met(p, r) # {} => chan'[p][r] = Append(<<>>, Home(p, r))
        BY <1>10, <2>2, <4>1, <4>2
      <4>4. Append(<<>>, Home(p, r)) = <<Home(p, r)>>
        BY Queues, Zenon
      <4>5. Met(p, r) = {} => chan'[p][r] = <<>>
        BY <2>2, <4>1, <4>2
      <4> QED BY <1>5, <3>2, <4>2, <4>3, <4>4, <4>5
    <3> QED BY <3>1, <3>2
  <2> QED BY <1>5, <2>2, <2>3 DEF BackMail
<1>12. Returned'
  <2>1. mine = [v \in {u \in Own(p) : u \in Early} |-> cwhere[num[v]]]
    <3>1. \A v \in Own(p) : v \in Vertex /\ Owner[v] = p
      BY OwnIs
    <3>2. pc[p] \notin Counting
      BY <1>5 DEF Counting
    <3>3. \A v \in Own(p) : Keeps(match[v]) <=> v \in Early
      BY <1>5, <3>1, <3>2, KeepsEarly
    <3>4. \A v \in Own(p) : cmap[p][v] = num[v]
      BY <1>5, KnownNow DEF NumbersAt, Counting
    <3> QED BY <3>3, <3>4
  <2> HIDE DEF mine
  <2>2. /\ where = [q \in PE |-> where[q]]
        /\ \A q \in PE : DOMAIN cwhere = 0..(ncoarse - 1)
        /\ \A q \in PE : pc[q] = "projected" =>
             where[q] = [v \in {u \in Own(q) : u \in Early} |-> cwhere[num[v]]]
        /\ \A q \in PE : pc[q] = "done" => where[q] = [v \in Own(q) |-> cwhere[num[v]]]
    BY <1>5, <1>6 DEF Returned
  <2>3. /\ where' = [q \in PE |-> where'[q]] /\ where'[p] = mine
        /\ \A q \in PE : q # p => where'[q] = where[q]
    BY <1>1, <2>2
  <2>4. \A q \in PE : pc'[q] = "projected" =>
          where'[q] = [v \in {u \in Own(q) : u \in Early} |-> cwhere[num[v]]]
    BY <1>5, <2>1, <2>2, <2>3
  <2>5. \A q \in PE : pc'[q] = "done" => where'[q] = [v \in Own(q) |-> cwhere[num[v]]]
    BY <1>5, <2>2, <2>3
  <2> QED BY <1>1, <1>5, <2>2, <2>3, <2>4, <2>5 DEF Returned
<1> QED BY <1>5, <1>11, <1>12 DEF LInv

\* And every PE that went without a part for one of its vertices gets it.
LEMMA ProjectReceivedKeeps == ASSUME IInv, LInv, NEW p \in PE, ProjectReceived(p) PROVE LInv'
<1> DEFINE back == UNION {Head(chan[q][p]).parts : q \in SendsTo(p)}
           mine == [v \in DOMAIN where[p] \cup {r.key : r \in back} |->
                      IF \E r \in back : r.key = v
                      THEN (CHOOSE r \in back : r.key = v).val ELSE where[p][v]]
<1>1. /\ Moves(p, "projected", "done") /\ ArrivedFrom(chan, p, SendsTo(p))
      /\ match' = match /\ counts' = counts /\ mtype' = mtype /\ dropedges' = dropedges
      /\ scand' = scand /\ cgraph' = cgraph /\ noise' = noise /\ median' = median /\ cwhere' = cwhere
      /\ rcand' = rcand
      /\ chan' = Take(chan, p, SendsTo(p))
      /\ where' = [where EXCEPT ![p] = mine]
  BY DEF ProjectReceived, dropping, Moves
<1> HIDE DEF mine
<1>2. /\ Mated /\ Counted /\ AllCounted
      /\ mate' = mate /\ makers' = makers /\ num' = num /\ Early' = Early
      /\ pc[p] = "projected" /\ pc'[p] = "done"
      /\ \A q \in PE : q # p => pc'[q] = pc[q]
      /\ \A q \in PE : pc[q] \in After /\ pc'[q] \in After
      /\ \A a, b : Met(a, b)' = Met(a, b) /\ Home(a, b)' = Home(a, b)
      /\ Noisy' /\ Thinned' /\ Shipments' /\ DropMail' /\ ncoarse' = ncoarse
  BY <1>1, BackStep
<1>3. Shipments /\ BackMail /\ Returned
  BY DEF LInv
<1>4. \A q : q \in SendsTo(p) <=> q \in PE /\ Met(q, p) # {}
  <2>1. \A q \in PE : scand[p][q] = Gone(p, q)
    BY <1>2, <1>3 DEF Shipments
  <2>2. \A q \in PE : Gone(p, q) # {} <=> Met(q, p) # {}
    BY <1>2, ShippedAre
  <2>3. ASSUME NEW q \in PE, Gone(p, q) # {} PROVE q \in Nbrs(p)
    <3>1. PICK v : v \in Gone(p, q)
      BY <2>3
    <3> QED BY <1>2, <3>1, ShippedAre
  <2> QED BY <2>1, <2>2, <2>3, NbrsIn DEF SendsTo
<1>5. /\ chan = [q \in PE |-> [r \in PE |-> chan[q][r]]]
      /\ \A r, q \in PE : chan[q][r] =
           IF Met(q, r) # {} /\ pc[q] # "project" /\ pc[r] # "done" THEN <<Home(q, r)>> ELSE <<>>
      /\ \A r, q \in PE : Met(q, r) # {} /\ pc[r] = "done" => pc[q] # "project"
  BY <1>2, <1>3 DEF BackMail
<1>6. \A q \in SendsTo(p) : q \in PE /\ chan[q][p] = <<Home(q, p)>> /\ pc[q] # "project"
  <2>1. \A q \in SendsTo(p) : q \in PE /\ chan[q][p] # <<>>
    BY <1>1, <1>4 DEF ArrivedFrom
  <2> QED BY <1>5, <2>1
<1>7. BackMail'
  <2>1. /\ chan' = [q \in PE |-> [r \in PE |-> chan'[q][r]]]
        /\ \A q, r \in PE : chan'[q][r] = IF q \in SendsTo(p) /\ r = p THEN Tail(chan[q][r]) ELSE chan[q][r]
    <3>1. chan' = Take(chan, p, SendsTo(p)) /\ chan = [q \in PE |-> [r \in PE |-> chan[q][r]]]
      BY <1>1, <1>5
    <3> QED BY <3>1, Taken
  <2>2. ASSUME NEW q \in PE, NEW r \in PE
        PROVE  /\ chan'[q][r] = IF Met(q, r) # {} /\ pc'[q] # "project" /\ pc'[r] # "done"
                                THEN <<Home(q, r)>> ELSE <<>>
               /\ Met(q, r) # {} /\ pc'[r] = "done" => pc'[q] # "project"
    <3>1. pc'[q] = "project" <=> pc[q] = "project"
      BY <1>2
    <3>2. CASE r # p
      <4>1. chan'[q][r] = chan[q][r] /\ pc'[r] = pc[r]
        BY <1>2, <2>1, <3>2
      <4> QED BY <1>5, <3>1, <4>1
    <3>3. CASE r = p /\ q \in SendsTo(p)
      <4>1. chan'[q][r] = Tail(<<Home(q, p)>>)
        BY <1>6, <2>1, <3>3
      <4>2. Tail(<<Home(q, p)>>) = <<>>
        BY Queues, Zenon
      <4> QED BY <1>2, <1>6, <3>1, <3>3, <4>1, <4>2
    <3>4. CASE r = p /\ q \notin SendsTo(p)
      BY <1>2, <1>4, <1>5, <2>1, <3>4
    <3> QED BY <3>2, <3>3, <3>4
  <2> QED BY <1>2, <2>1, <2>2 DEF BackMail
<1>8. mine = [v \in Own(p) |-> cwhere[num[v]]]
  <2>1. \A q \in SendsTo(p) : Head(chan[q][p]).parts =
          {[key |-> mate[v], val |-> cwhere[num[v]]] : v \in Met(q, p)}
    <3>1. \A x : Head(<<x>>) = x
      BY Queues, Zenon
    <3>2. \A q \in SendsTo(p) : Head(chan[q][p]) = Home(q, p)
      BY <1>6, <3>1
    <3>3. \A q : Home(q, p).parts = {[key |-> mate[v], val |-> cwhere[num[v]]] : v \in Met(q, p)}
      BY DEF Home
    <3> QED BY <3>2, <3>3
  <2>2. \A v \in Vertex : mate[v] \in Vertex /\ mate[mate[v]] = v /\ num[mate[v]] = num[v]
    BY <1>2, Pairs, NumsAre
  <2>3. \A r \in back : r.key \in Own(p) /\ r.key \notin Early /\ r.val = cwhere[num[r.key]]
    <3>1. SUFFICES ASSUME NEW r \in back PROVE r.key \in Own(p) /\ r.key \notin Early /\ r.val = cwhere[num[r.key]]
      OBVIOUS
    <3>2. PICK q \in SendsTo(p) : r \in Head(chan[q][p]).parts
      OBVIOUS
    <3>3. PICK v \in Met(q, p) : r = [key |-> mate[v], val |-> cwhere[num[v]]]
      BY <2>1, <3>2
    <3>4. v \in Vertex /\ mate[v] \in Gone(p, q)
      BY <1>2, <1>6, <3>2, ShippedAre
    <3> QED BY <2>2, <3>3, <3>4 DEF Gone
  <2>4. ASSUME NEW v \in Own(p), v \notin Early PROVE \E r \in back : r.key = v
    <3>1. v \in Vertex
      BY OwnIs
    <3>2. mate[v] \in Vertex
      BY <2>2, <3>1
    <3>3. Owner[mate[v]] \in PE /\ v \in Gone(p, Owner[mate[v]])
      BY <2>4, <3>2, OwnerIn DEF Gone
    <3> DEFINE q == Owner[mate[v]]
    <3>4. mate[v] \in Met(q, p)
      BY <1>2, <3>3, ShippedAre
    <3>5. q \in SendsTo(p)
      BY <1>4, <3>3, <3>4
    <3>6. [key |-> mate[mate[v]], val |-> cwhere[num[mate[v]]]] \in Head(chan[q][p]).parts
      BY <2>1, <3>4, <3>5
    <3>7. [key |-> mate[mate[v]], val |-> cwhere[num[mate[v]]]] \in back
      BY <3>5, <3>6
    <3> HIDE DEF back
    <3> QED BY <2>2, <3>1, <3>7
  <2>5. where[p] = [v \in {u \in Own(p) : u \in Early} |-> cwhere[num[v]]]
    BY <1>2, <1>3 DEF Returned
  <2> HIDE DEF back
  <2>6. DOMAIN where[p] = {u \in Own(p) : u \in Early} /\ \A v \in Own(p) : v \in Early => where[p][v] = cwhere[num[v]]
    BY <2>5
  <2>7. DOMAIN where[p] \cup {r.key : r \in back} = Own(p)
    BY <2>3, <2>4, <2>6
  <2>8. ASSUME NEW v \in Own(p)
        PROVE  (IF \E r \in back : r.key = v THEN (CHOOSE r \in back : r.key = v).val ELSE where[p][v])
                 = cwhere[num[v]]
    <3>1. CASE \E r \in back : r.key = v
      <4> DEFINE c == CHOOSE r \in back : r.key = v
      <4>1. c \in back /\ c.key = v
        BY <3>1
      <4> QED BY <2>3, <3>1, <4>1
    <3>2. CASE ~\E r \in back : r.key = v
      <4>1. v \in Early
        BY <2>4, <3>2
      <4> QED BY <2>6, <3>2, <4>1
    <3> QED BY <3>1, <3>2
  <2>9. mine = [v \in Own(p) |-> IF \E r \in back : r.key = v
                                 THEN (CHOOSE r \in back : r.key = v).val ELSE where[p][v]]
    BY <2>7 DEF mine
  <2> QED BY <2>8, <2>9
<1>9. Returned'
  <2>1. /\ where = [q \in PE |-> where[q]]
        /\ \A q \in PE : DOMAIN cwhere = 0..(ncoarse - 1)
        /\ \A q \in PE : pc[q] = "projected" =>
             where[q] = [v \in {u \in Own(q) : u \in Early} |-> cwhere[num[v]]]
        /\ \A q \in PE : pc[q] = "done" => where[q] = [v \in Own(q) |-> cwhere[num[v]]]
    BY <1>2, <1>3 DEF Returned
  <2>2. /\ where' = [q \in PE |-> where'[q]] /\ where'[p] = mine
        /\ \A q \in PE : q # p => where'[q] = where[q]
    BY <1>1, <2>1
  <2>3. \A q \in PE : pc'[q] = "projected" =>
          where'[q] = [v \in {u \in Own(q) : u \in Early} |-> cwhere[num[v]]]
    BY <1>2, <2>1, <2>2
  <2>4. \A q \in PE : pc'[q] = "done" => where'[q] = [v \in Own(q) |-> cwhere[num[v]]]
    BY <1>2, <1>8, <2>1, <2>2
  <2> QED BY <1>1, <1>2, <2>1, <2>2, <2>3, <2>4 DEF Returned
<1> QED BY <1>2, <1>7, <1>9 DEF LInv

LEMMA LateKeeps == IInv /\ LInv /\ [Next]_vars => LInv'
<1> SUFFICES ASSUME IInv, LInv, [Next]_vars PROVE LInv'
  OBVIOUS
<1>1. IInv'
  BY StepKeeps
<1>2. ASSUME UNCHANGED vars PROVE LInv'
  <2>1. /\ pc' = pc /\ mtype' = mtype /\ match' = match /\ counts' = counts
        /\ scand' = scand /\ rcand' = rcand /\ cgraph' = cgraph /\ chan' = chan
        /\ dropedges' = dropedges /\ noise' = noise /\ median' = median
        /\ cwhere' = cwhere /\ where' = where
    BY <1>2 DEF vars, dropping
  <2>2. mate' = mate /\ makers' = makers
    BY <2>1, MatchStays
  <2>3. /\ Early' = Early /\ num' = num /\ \A a, b : Gone(a, b)' = Gone(a, b) /\ Met(a, b)' = Met(a, b)
        /\ \A a : Nums(a)' = Nums(a)
        /\ \A c : Whole(c)' = Whole(c) /\ Team(c)' = Team(c)
    BY <2>1, <2>2, PairsStay, NumbersStay
  <2>4. /\ \A a : Near(a)' = Near(a) /\ Beside(a)' = Beside(a)
        /\ \A a, b : Shows(a, b)' = Shows(a, b)
    BY <2>1, <2>2, LateFixed
  <2>5. said' = said /\ heard' = heard /\ (Trimmed' <=> Trimmed) /\ ncoarse' = ncoarse
    BY <2>1 DEF said, heard, Trimmed, ncoarse
  <2>6. /\ \A a, b : N1(a, b)' = N1(a, b) /\ N2(a, b)' = N2(a, b) /\ Home(a, b)' = Home(a, b)
        /\ \A a, c : Halved(a, c)' = Halved(a, c)
        /\ \A a, c, d : Kept(a, c, d)' = Kept(a, c, d)
    <3>1. \A a, b : N1(a, b)' = N1(a, b) /\ N2(a, b)' = N2(a, b)
      BY <2>1, <2>4 DEF N1, N2
    <3>2. \A a, b : Home(a, b)' = Home(a, b)
      BY <2>1, <2>2, <2>3 DEF Home
    <3>3. /\ \A a, c : Halved(a, c)' = Halved(a, c)
          /\ \A a, c, d : Kept(a, c, d)' = Kept(a, c, d)
      BY <2>1, <2>3, KeysStay
    <3> QED BY <3>1, <3>2, <3>3
  <2>7. Noisy'
    <3>1. Noisy
      BY DEF LInv
    <3>2. noise' = [p \in PE |-> noise'[p]] /\ median' = [p \in PE |-> median'[p]]
      BY <2>1, <3>1 DEF Noisy
    <3>3. \A p \in PE : pc'[p] \in {"noise", "median", "dropped"} =>
            /\ dropedges'
            /\ DOMAIN noise'[p] = IF pc'[p] = "noise" THEN Nums(p)' ELSE Nums(p)' \union Near(p)'
            /\ \A c \in Nums(p)' : noise'[p][c] \in Nat
            /\ pc'[p] # "noise" => \A q \in PE : \A c \in Near(p)' \intersect Nums(q)' : noise'[p][c] = noise'[q][c]
      <4>1. \A p \in PE : pc[p] \in {"noise", "median", "dropped"} =>
              /\ dropedges
              /\ DOMAIN noise[p] = IF pc[p] = "noise" THEN Nums(p) ELSE Nums(p) \union Near(p)
              /\ \A c \in Nums(p) : noise[p][c] \in Nat
              /\ pc[p] # "noise" => \A q \in PE : \A c \in Near(p) \intersect Nums(q) : noise[p][c] = noise[q][c]
        BY <3>1 DEF Noisy
      <4> QED BY <2>1, <2>3, <2>4, <4>1
    <3>4. \A p \in PE : pc'[p] \in {"median", "dropped"} =>
            /\ DOMAIN median'[p] = IF pc'[p] = "median" THEN Nums(p)' ELSE Nums(p)' \union Near(p)'
            /\ \A c \in Nums(p)' : Halved(p, c)'
            /\ pc'[p] # "median" => \A q \in PE : \A c \in Near(p)' \intersect Nums(q)' : median'[p][c] = median'[q][c]
      <4>1. \A p \in PE : pc[p] \in {"median", "dropped"} =>
              /\ DOMAIN median[p] = IF pc[p] = "median" THEN Nums(p) ELSE Nums(p) \union Near(p)
              /\ \A c \in Nums(p) : Halved(p, c)
              /\ pc[p] # "median" => \A q \in PE : \A c \in Near(p) \intersect Nums(q) : median[p][c] = median[q][c]
        BY <3>1 DEF Noisy
      <4> QED BY <2>1, <2>3, <2>4, <2>6, <4>1
    <3> QED BY <3>2, <3>3, <3>4 DEF Noisy
  <2>8. Thinned'
    BY <2>1, <2>3, <2>6 DEF LInv, Thinned
  <2>9. Shipments'
    BY <2>1, <2>2, <2>3 DEF LInv, Shipments
  <2>10. DropMail'
    BY <2>1, <2>4, <2>5, <2>6 DEF LInv, DropMail
  <2>11. BackMail' /\ Returned'
    <3>1. BackMail'
      BY <2>1, <2>3, <2>6 DEF LInv, BackMail
    <3>2. Returned'
      <4>1. Returned
        BY DEF LInv
      <4>2. /\ where' = [p \in PE |-> where'[p]]
            /\ \A p \in PE : pc'[p] \in After => DOMAIN cwhere' = 0..(ncoarse' - 1)
        BY <2>1, <2>5, <4>1 DEF Returned
      <4>3. ASSUME NEW p \in PE
            PROVE  /\ pc'[p] = "projected" =>
                        where'[p] = [v \in {u \in Own(p) : u \in Early'} |-> cwhere'[num'[v]]]
                   /\ pc'[p] = "done" => where'[p] = [v \in Own(p) |-> cwhere'[num'[v]]]
        <5>1. /\ pc[p] = "projected" =>
                   where[p] = [v \in {u \in Own(p) : u \in Early} |-> cwhere[num[v]]]
              /\ pc[p] = "done" => where[p] = [v \in Own(p) |-> cwhere[num[v]]]
          BY <4>1 DEF Returned
        <5> QED BY <2>1, <2>3, <5>1
      <4> QED BY <4>2, <4>3 DEF Returned
    <3> QED BY <3>1, <3>2
  <2> QED BY <2>7, <2>8, <2>9, <2>10, <2>11 DEF LInv
<1>3. ASSUME NEW p \in PE, Step(p) PROVE LInv'
  BY <1>1, <1>3, BeforeSteps, NoiseKeeps, MediansKeep, DropKeeps, ProjectKeeps, ProjectReceivedKeeps DEF Step
<1> QED BY <1>2, <1>3, PartitionKeeps DEF Next

\* The invariant of what follows the contraction.
THEOREM LateInvariance == Spec => [](IInv /\ LInv)
<1> QED BY InitIs, LateInit, StepKeeps, LateKeeps, PTL DEF Spec

-----------------------------------------------------------------------------
(* Both ends of an edge drop it, or both keep it.                          *)

\* A coarse vertex is where its number says.
LEMMA CoarseOfIs ==
  ASSUME Mated, Counted, AllCounted, \A p \in PE : DOMAIN cgraph[p] = Nums(p), NEW p \in PE, NEW c \in Nums(p)
  PROVE  CoarseOf(c) = cgraph[p][c]
<1> DEFINE q == CHOOSE r \in PE : c \in DOMAIN cgraph[r]
<1>1. c \in DOMAIN cgraph[p]
  OBVIOUS
<1>2. q \in PE /\ c \in DOMAIN cgraph[q]
  BY <1>1
<1> HIDE DEF q
<1>3. q = p
  BY <1>2, NumsIn
<1> QED BY <1>3 DEF CoarseOf, q

\* The coarse graph, who is in which coarse vertex, and what is left when all
\* have dropped.
LEMMA DroppedIs ==
  ASSUME IInv, LInv, \A p \in PE : pc[p] = "dropped"
  PROVE  /\ Mated /\ Counted /\ AllCounted
         /\ \A c : Members(c) = Team(c)
         /\ \A p \in PE : \A c \in Nums(p) :
              /\ CoarseOf(c) = cgraph[p][c]
              /\ DOMAIN CoarseOf(c).adj = {d \in DOMAIN Whole(c).adj : Kept(p, c, d)}
              /\ \A d \in DOMAIN CoarseOf(c).adj : CoarseOf(c).adj[d] = Whole(c).adj[d]
<1>1. 0 \in PE
  BY NpesAssumption DEF PE
<1>2. Mated /\ Counted /\ AllCounted
  BY <1>1, NumberedIs DEF Trimming
<1>3. \A c : Members(c) = Team(c)
  <2>1. ASSUME NEW v \in Vertex PROVE cmap[Owner[v]][v] = num[v]
    <3>1. Owner[v] \in PE /\ v \in Own(Owner[v]) /\ pc[Owner[v]] = "dropped"
      BY OwnerIn
    <3> QED BY <3>1, KnownNow DEF NumbersAt, Counting
  <2> QED BY <2>1 DEF Members, Team
<1>4. \A p \in PE :
        /\ DOMAIN cgraph[p] = Nums(p)
        /\ \A c \in Nums(p) :
             /\ DOMAIN cgraph[p][c].adj = {d \in DOMAIN Whole(c).adj : Kept(p, c, d)}
             /\ \A d \in DOMAIN cgraph[p][c].adj : cgraph[p][c].adj[d] = Whole(c).adj[d]
  BY DEF LInv, Thinned
<1>5. \A p \in PE : \A c \in Nums(p) : CoarseOf(c) = cgraph[p][c]
  BY <1>2, <1>4, CoarseOfIs
<1> QED BY <1>2, <1>3, <1>4, <1>5

\* The two PEs at the ends of an edge give it the same key and compare it with
\* the same medians.
LEMMA BothKeep ==
  ASSUME IInv, LInv, \A r \in PE : pc[r] = "dropped", Mated, Counted, AllCounted,
         NEW p \in PE, NEW c \in Nums(p), NEW d \in DOMAIN Whole(c).adj, NEW q \in PE, d \in Nums(q)
  PROVE  /\ Kept(p, c, d) <=> Kept(q, d, c)
         /\ Keyed(p, c)[d] \in Nat
         /\ median[p][c] \in Nat /\ median[p][d] \in Nat
<1>1. Noisy
  BY DEF LInv
<1>2. c \in 0..(ncoarse - 1) /\ c \in DOMAIN Whole(d).adj /\ Whole(d).adj[c] = Whole(c).adj[d]
  BY NumsIn, LinkedBothWays
<1>3. Whole(c).adj[d] \in Nat
  BY EndsIn
<1>4. \A r \in PE : \A x \in Nums(r) : noise[r][x] \in Nat /\ Halved(r, x)
  BY <1>1 DEF Noisy
<1>5. noise[p][d] = noise[q][d] /\ median[p][d] = median[q][d]
  <2>1. CASE p = q
    BY <2>1
  <2>2. CASE p # q
    <3>1. d \in Near(p)
      BY <2>2, NumsIn DEF Near
    <3> QED BY <1>1, <3>1, SameNoise
  <2> QED BY <2>1, <2>2
<1>6. noise[q][c] = noise[p][c] /\ median[q][c] = median[p][c]
  <2>1. CASE p = q
    BY <2>1
  <2>2. CASE p # q
    <3>1. c \in Near(q)
      BY <1>2, <2>2, NumsIn DEF Near
    <3> QED BY <1>1, <3>1, SameNoise
  <2> QED BY <2>1, <2>2
<1>7. /\ Keyed(p, c)[d] = Whole(c).adj[d] * NoiseUnit + noise[p][c] + noise[p][d]
      /\ Keyed(q, d)[c] = Whole(d).adj[c] * NoiseUnit + noise[q][d] + noise[q][c]
  BY <1>2 DEF Keyed, KeysWith, Key
<1>8. noise[p][c] \in Nat /\ noise[p][d] \in Nat /\ median[p][c] \in Nat /\ median[p][d] \in Nat
  BY <1>4, <1>5 DEF Halved
<1> DEFINE w == Whole(c).adj[d]
           x == noise[p][c]
           y == noise[p][d]
<1>9. Keyed(p, c)[d] = w * 4 + x + y /\ Keyed(q, d)[c] = w * 4 + y + x
  BY <1>2, <1>5, <1>6, <1>7 DEF NoiseUnit
<1>10. w \in Nat /\ x \in Nat /\ y \in Nat
  BY <1>3, <1>8
<1> HIDE DEF w, x, y
<1>11. Keyed(p, c)[d] = Keyed(q, d)[c] /\ Keyed(p, c)[d] \in Nat
  BY <1>9, <1>10
<1>12. Kept(p, c, d) <=> Kept(q, d, c)
  BY <1>5, <1>6, <1>8, <1>11 DEF Kept
<1> QED BY <1>8, <1>11, <1>12

LEMMA KeptAlike == ASSUME IInv, LInv PROVE DroppedAlike
<1> SUFFICES ASSUME \A p \in PE : pc[p] = "dropped", NEW c \in 0..(ncoarse - 1)
             PROVE  /\ \A d \in DOMAIN CoarseOf(c).adj : /\ c \in DOMAIN CoarseOf(d).adj
                                                         /\ CoarseOf(d).adj[c] = CoarseOf(c).adj[d]
                    /\ LET all == {d \in 0..(ncoarse - 1) : d # c /\ Between(Members(c), Members(d)) > 0} IN
                       /\ 2 * Cardinality(DOMAIN CoarseOf(c).adj) >= Cardinality(all)
                       /\ Cardinality(Members(c)) = 1 => DOMAIN CoarseOf(c).adj = all
  BY DEF DroppedAlike
<1> DEFINE all == {d \in 0..(ncoarse - 1) : d # c /\ Between(Members(c), Members(d)) > 0}
           left == DOMAIN CoarseOf(c).adj
           links == DOMAIN Whole(c).adj
<1>1. /\ Mated /\ Counted /\ AllCounted
      /\ \A x : Members(x) = Team(x)
      /\ \A p \in PE : \A x \in Nums(p) :
           /\ DOMAIN CoarseOf(x).adj = {d \in DOMAIN Whole(x).adj : Kept(p, x, d)}
           /\ \A d \in DOMAIN CoarseOf(x).adj : CoarseOf(x).adj[d] = Whole(x).adj[d]
  BY DroppedIs
<1>2. PICK p \in PE : c \in Nums(p)
  BY <1>1, NumsIn
<1>3. ASSUME NEW d \in left
      PROVE  c \in DOMAIN CoarseOf(d).adj /\ CoarseOf(d).adj[c] = CoarseOf(c).adj[d]
  <2>1. d \in links /\ Kept(p, c, d) /\ CoarseOf(c).adj[d] = Whole(c).adj[d]
    BY <1>1, <1>2
  <2>2. d \in 0..(ncoarse - 1) /\ c \in DOMAIN Whole(d).adj /\ Whole(d).adj[c] = Whole(c).adj[d]
    BY <1>1, <2>1, LinkedBothWays
  <2>3. PICK q \in PE : d \in Nums(q)
    BY <1>1, <2>2, NumsIn
  <2>4. Kept(q, d, c)
    BY <1>1, <1>2, <2>1, <2>3, BothKeep
  <2> QED BY <1>1, <2>1, <2>2, <2>3, <2>4
<1>4. all = links
  <2>1. \A d \in 0..(ncoarse - 1) : d \in links <=> d # c /\ Between(Team(c), Team(d)) > 0
    BY <1>1, EdgesAre
  <2>2. links \subseteq 0..(ncoarse - 1)
    BY <1>1, EndsIn
  <2> QED BY <1>1, <2>1, <2>2
<1>5. /\ IsFiniteSet(links)
      /\ \A d \in links : Keyed(p, c)[d] \in Nat /\ median[p][c] \in Nat /\ median[p][d] \in Nat
  <2>1. IsFiniteSet(links)
    BY <1>1, EndsIn
  <2>2. ASSUME NEW d \in links
        PROVE  Keyed(p, c)[d] \in Nat /\ median[p][c] \in Nat /\ median[p][d] \in Nat
    <3>1. PICK q \in PE : d \in Nums(q)
      BY <1>1, EndsIn, NumsIn
    <3> QED BY <1>1, <1>2, <3>1, BothKeep
  <2> QED BY <2>1, <2>2
<1>6. left = {d \in links : Kept(p, c, d)} /\ DOMAIN Keyed(p, c) = links
  BY <1>1, <1>2 DEF Keyed, KeysWith
<1>7. Halved(p, c)
  BY <1>2 DEF LInv, Noisy
<1>8. 2 * Cardinality(left) >= Cardinality(links)
  <2> DEFINE up == {d \in links : Keyed(p, c)[d] >= median[p][c]}
  <2>1. 2 * Cardinality(up) >= Cardinality(links)
    BY <1>6, <1>7 DEF Halved
  <2>2. \A d \in up : Kept(p, c, d)
    BY <1>5 DEF Kept
  <2> HIDE DEF links
  <2>3. up \subseteq left /\ left \subseteq links
    BY <1>6, <2>2
  <2>4. IsFiniteSet(left) /\ IsFiniteSet(up)
    BY <1>5, <2>3, FS_Subset
  <2>5. Cardinality(up) <= Cardinality(left) /\ Cardinality(up) \in Nat /\ Cardinality(left) \in Nat
        /\ Cardinality(links) \in Nat
    BY <1>5, <2>3, <2>4, FS_Subset, FS_CardinalityType
  <2> HIDE DEF up, left
  <2> QED BY <2>1, <2>5
<1>9. ASSUME Cardinality(Members(c)) = 1 PROVE left = links
  <2>1. median[p][c] = 0
    BY <1>1, <1>7, <1>9 DEF Halved
  <2>2. \A d \in links : Kept(p, c, d)
    BY <1>5, <2>1 DEF Kept
  <2> QED BY <1>6, <2>2
<1> QED BY <1>3, <1>4, <1>8, <1>9

\* DropEdges leaves an undirected graph: both ends of an edge come to the same
\* decision, each from its own noise and medians and from those of the other
\* PE, and every coarse vertex keeps at least half of its edges, all of them
\* if nothing was merged into it; for every distributed graph, matching and
\* noise, and all interleavings.
THEOREM EdgesDroppedAlike == Spec => []DroppedAlike
<1>1. IInv /\ LInv => DroppedAlike
  BY KeptAlike
<1> QED BY <1>1, LateInvariance, PTL

-----------------------------------------------------------------------------
(* The cut and the weights of the parts.                                   *)

\* A sum over S, taken by where in I its elements are at.
Placing(S, I, at, f, sum) ==
  /\ \A x \in S : at[x] \in I /\ f[x] \in Int
  /\ \A i \in I : sum[i] = SumFunctionOnSet(f, {x \in S : at[x] = i})

LEMMA SumByPlace ==
  ASSUME NEW S, IsFiniteSet(S), NEW I, IsFiniteSet(I), NEW at, NEW f, NEW sum, Placing(S, I, at, f, sum)
  PROVE  SumFunctionOnSet(f, S) = SumFunctionOnSet(sum, I)
<1>0. \A x \in S : at[x] \in I /\ f[x] \in Int
  BY DEF Placing
<1> DEFINE part == [i \in I |-> {x \in S : at[x] = i}]
<1>1. ASSUME NEW i \in I
      PROVE  /\ IsFiniteSet(part[i]) /\ \A x \in part[i] : f[x] \in Int
             /\ sum[i] = SumFunctionOnSet(f, part[i])
  <2>1. part[i] = {x \in S : at[x] = i}
    OBVIOUS
  <2>2. part[i] \in SUBSET S
    BY <2>1
  <2> HIDE DEF part
  <2>3. IsFiniteSet(part[i])
    BY <2>2, FS_Subset
  <2>4. sum[i] = SumFunctionOnSet(f, {x \in S : at[x] = i})
    BY DEF Placing
  <2> QED BY <1>0, <2>1, <2>2, <2>3, <2>4
<1>2. \A i, j \in I : i # j => part[i] \intersect part[j] = {}
  OBVIOUS
<1>3. UNION {part[i] : i \in I} = S
  <2>1. \A x : x \in UNION {part[i] : i \in I} <=> \E i \in I : x \in part[i]
    OBVIOUS
  <2>2. \A x : (\E i \in I : x \in part[i]) <=> x \in S
    BY <1>0
  <2> QED BY <2>1, <2>2
<1> HIDE DEF part
<1>4. SumFunctionOnSet(f, UNION {part[i] : i \in I}) = SumFunctionOnSet(sum, I)
  <2>1. \A i \in I : /\ IsFiniteSet(part[i])
                     /\ \A x \in part[i] : f[x] \in Int
                     /\ sum[i] = SumFunctionOnSet(f, part[i])
    BY <1>1
  <2> QED BY <1>2, <2>1, SumOfParts
<1> QED BY <1>3, <1>4

\* All edges, from both of their ends, and their weights.
Linked == {e \in Vertex \X Vertex : e[2] \in Adj[e[1]]}
weight == [e \in Linked |-> AdjWgt[e[1]][e[2]]]

LEMMA WeighIs ==
  /\ IsFiniteSet(Linked) /\ \A e \in Linked : weight[e] \in Nat
  /\ \A E \in SUBSET Linked : IsFiniteSet(E) /\ EdgesWeigh(E) = SumFunctionOnSet(weight, E)
<1>1. IsFiniteSet(Linked)
  BY EdgesWeighIs DEF Linked
<1>2. \A e \in Linked : weight[e] \in Nat /\ weight[e] = AdjWgt[e[1]][e[2]]
  <2> SUFFICES ASSUME NEW e \in Linked PROVE AdjWgt[e[1]][e[2]] \in Nat
    BY DEF weight
  <2>1. e[1] \in Vertex /\ e[2] \in Adj[e[1]]
    BY DEF Linked
  <2> QED BY <2>1, WeightAssumption
<1>3. ASSUME NEW E \in SUBSET Linked
      PROVE  IsFiniteSet(E) /\ EdgesWeigh(E) = SumFunctionOnSet(weight, E)
  <2> DEFINE f == [e \in E |-> AdjWgt[e[1]][e[2]]]
  <2>1. IsFiniteSet(E)
    BY <1>1, FS_Subset
  <2>2. EdgesWeigh(E) = SumFunctionOnSet(f, E)
    BY DEF EdgesWeigh, SumFunction
  <2>3. \A e \in E : f[e] = weight[e]
    BY <1>2
  <2> HIDE DEF f
  <2> QED BY <2>1, <2>2, <2>3, SumSame
<1> QED BY <1>1, <1>2, <1>3

\* What a partition of all coarse vertices cuts, in the graph and in its
\* quotient.
Cut(part) == {e \in Linked : part[num[e[1]]] # part[num[e[2]]]}
Over(adj, c, part) == {d \in DOMAIN adj : part[d] # part[c]}
Outer(c, part) == Over(Whole(c).adj, c, part)
Fine(part, a) == {v \in Vertex : part[num[v]] = a}
Merged(part, a) == {c \in 0..(ncoarse - 1) : part[c] = a}

LEMMA CutOf ==
  ASSUME Mated, Counted, AllCounted, NEW part, NEW c
  PROVE  SumFunctionOnSet(weight, {e \in Cut(part) : num[e[1]] = c})
           = SumFunctionOnSet(Whole(c).adj, Outer(c, part))
<1> DEFINE S == {e \in Cut(part) : num[e[1]] = c}
           at == [e \in S |-> num[e[2]]]
           sum == Whole(c).adj
<1>1. S \in SUBSET Linked
  BY DEF Cut
<1>2. IsFiniteSet(S) /\ \A e \in S : weight[e] \in Int
  BY <1>1, WeighIs
<1>3. IsFiniteSet(Outer(c, part))
  <2>1. Outer(c, part) \in SUBSET DOMAIN Whole(c).adj
    BY DEF Outer, Over
  <2> QED BY <2>1, EndsIn, FS_Subset
<1>4. \A e : e \in S <=> /\ e \in Vertex \X Vertex /\ e[2] \in Adj[e[1]]
                         /\ num[e[1]] = c /\ part[c] # part[num[e[2]]]
  BY DEF Cut, Linked
<1>5. \A e \in S : at[e] \in Outer(c, part) /\ at[e] = num[e[2]]
  <2> SUFFICES ASSUME NEW e \in S PROVE num[e[2]] \in Outer(c, part)
    OBVIOUS
  <2>1. e[1] \in Vertex /\ e[2] \in Adj[e[1]] /\ num[e[1]] = c /\ part[c] # part[num[e[2]]]
    BY <1>4
  <2>2. e[1] \in Team(c) /\ num[e[2]] # c
    BY <2>1 DEF Team
  <2>3. DOMAIN Whole(c).adj = (UNION {{num[u] : u \in Adj[v]} : v \in Team(c)}) \ {c}
    BY WholeIs
  <2>4. num[e[2]] \in DOMAIN Whole(c).adj
    BY <2>1, <2>2, <2>3
  <2> QED BY <2>1, <2>4 DEF Outer, Over
<1>6. ASSUME NEW d \in Outer(c, part)
      PROVE  sum[d] = SumFunctionOnSet(weight, {e \in S : at[e] = d})
  <2> DEFINE E == {e \in Team(c) \X Team(d) : e[2] \in Adj[e[1]]}
  <2>1. d \in DOMAIN Whole(c).adj /\ part[d] # part[c]
    BY DEF Outer, Over
  <2>2. Whole(c).adj[d] = Between(Team(c), Team(d))
    BY <2>1, EndsIn
  <2>3. \A v, x : v \in Team(x) <=> v \in Vertex /\ num[v] = x
    BY DEF Team
  <2>4. ASSUME NEW e PROVE e \in E <=> e \in {x \in S : at[x] = d}
    <3>1. e \in E => /\ e \in Vertex \X Vertex /\ e[2] \in Adj[e[1]]
                     /\ num[e[1]] = c /\ num[e[2]] = d
      BY <2>3
    <3>2. e \in E => e \in S /\ at[e] = d
      <4> HIDE DEF E, S, at
      <4> QED BY <1>4, <1>5, <2>1, <3>1
    <3>3. e \in S /\ num[e[2]] = d => e \in E
      <4>1. ASSUME e \in S, num[e[2]] = d PROVE e \in E
        <5>1. e \in Vertex \X Vertex /\ e[2] \in Adj[e[1]] /\ num[e[1]] = c
          BY <1>4, <4>1
        <5>2. e = <<e[1], e[2]>> /\ e[1] \in Team(c) /\ e[2] \in Team(d)
          BY <2>3, <4>1, <5>1
        <5>3. e \in Team(c) \X Team(d)
          BY <5>2
        <5> QED BY <5>1, <5>3
      <4> QED BY <4>1
    <3> HIDE DEF E, S, at
    <3> QED BY <1>5, <3>2, <3>3
  <2>5. E = {e \in S : at[e] = d}
    <3> HIDE DEF E, S, at
    <3> QED BY <2>4
  <2>6. Between(Team(c), Team(d)) = EdgesWeigh(E)
    BY DEF Between
  <2>7. E \in SUBSET Linked
    <3> HIDE DEF E, S, at
    <3> QED BY <1>1, <2>5
  <2>8. EdgesWeigh(E) = SumFunctionOnSet(weight, E)
    <3> HIDE DEF E
    <3> QED BY <2>7, WeighIs
  <2> QED BY <2>2, <2>5, <2>6, <2>8
<1> HIDE DEF S, at, sum
<1>7. SumFunctionOnSet(weight, S) = SumFunctionOnSet(sum, Outer(c, part))
  <2>1. Placing(S, Outer(c, part), at, weight, sum)
    BY <1>2, <1>5, <1>6 DEF Placing
  <2> QED BY <1>2, <1>3, <2>1, SumByPlace
<1> QED BY <1>7 DEF S, sum

LEMMA CutIs ==
  ASSUME Mated, Counted, AllCounted, NEW part, NEW cuts,
         \A c \in 0..(ncoarse - 1) : cuts[c] = SumFunctionOnSet(Whole(c).adj, Outer(c, part))
  PROVE  EdgesWeigh(Cut(part)) = SumFunctionOnSet(cuts, 0..(ncoarse - 1))
<1> DEFINE C == 0..(ncoarse - 1)
           at == [e \in Cut(part) |-> num[e[1]]]
<1>1. Cut(part) \in SUBSET Linked
  BY DEF Cut
<1>2. /\ IsFiniteSet(Cut(part)) /\ \A e \in Cut(part) : weight[e] \in Int
      /\ EdgesWeigh(Cut(part)) = SumFunctionOnSet(weight, Cut(part))
  BY <1>1, WeighIs
<1>3. IsFiniteSet(C)
  BY NumsIn, FS_Interval
<1>4. \A e \in Cut(part) : at[e] \in C
  <2>1. \A e \in Cut(part) : e[1] \in Vertex
    BY DEF Cut, Linked
  <2> QED BY <2>1, NumsAre
<1>5. ASSUME NEW c \in C PROVE cuts[c] = SumFunctionOnSet(weight, {e \in Cut(part) : at[e] = c})
  <2>1. {e \in Cut(part) : at[e] = c} = {e \in Cut(part) : num[e[1]] = c}
    OBVIOUS
  <2> QED BY <2>1, CutOf
<1> HIDE DEF C, at
<1>6. SumFunctionOnSet(weight, Cut(part)) = SumFunctionOnSet(cuts, C)
  <2>1. Placing(Cut(part), C, at, weight, cuts)
    BY <1>2, <1>4, <1>5 DEF Placing
  <2> QED BY <1>2, <1>3, <2>1, SumByPlace
<1> QED BY <1>2, <1>6 DEF C

\* What the coarse vertices of a part weigh.
LEMMA PartIs ==
  ASSUME Mated, Counted, AllCounted, NEW part, NEW a, NEW sum,
         \A c \in 0..(ncoarse - 1) : part[c] = a => sum[c] = Whole(c).vwgt
  PROVE  SumFunctionOnSet(VWgt, Fine(part, a)) = SumFunctionOnSet(sum, Merged(part, a))
<1> DEFINE C == 0..(ncoarse - 1)
           S == {v \in Vertex : part[num[v]] = a}
           I == {c \in C : part[c] = a}
<1>1. IsFiniteSet(C) /\ I \in SUBSET C /\ S \in SUBSET Vertex
  BY NumsIn, FS_Interval
<1>2. IsFiniteSet(S) /\ IsFiniteSet(I)
  <2> HIDE DEF S, I, C
  <2> QED BY <1>1, FiniteAssumption, FS_Subset
<1>3. \A v \in S : num[v] \in I
  BY NumsAre
<1>4. \A v \in S : VWgt[v] \in Int
  BY WeightAssumption
<1>5. ASSUME NEW c \in I PROVE sum[c] = SumFunctionOnSet(VWgt, {v \in S : num[v] = c})
  <2>1. {v \in S : num[v] = c} = Team(c)
    BY DEF Team
  <2> QED BY <2>1, WholeIs
<1> HIDE DEF S, I, C
<1>6. SumFunctionOnSet(VWgt, S) = SumFunctionOnSet(sum, I)
  <2>1. Placing(S, I, num, VWgt, sum)
    BY <1>3, <1>4, <1>5 DEF Placing
  <2> QED BY <1>2, <2>1, SumByPlace
<1> QED BY <1>6 DEF S, I, C, Fine, Merged

\* What is left of the edges of a coarse vertex cuts no more than all of them.
LEMMA LeftOver ==
  ASSUME Mated, Counted, AllCounted, NEW c, NEW adj, NEW part,
         DOMAIN adj \subseteq DOMAIN Whole(c).adj, \A d \in DOMAIN adj : adj[d] = Whole(c).adj[d],
         NEW mine, mine = SumFunctionOnSet(adj, Over(adj, c, part)),
         NEW whole, whole = SumFunctionOnSet(Whole(c).adj, Outer(c, part))
  PROVE  /\ mine \in Int /\ whole \in Int /\ mine <= whole
         /\ DOMAIN adj = DOMAIN Whole(c).adj => mine = whole
<1> DEFINE L == {d \in DOMAIN adj : part[d] # part[c]}
           R == Outer(c, part) \ L
           W == Whole(c).adj
<1>1. L \subseteq Outer(c, part) /\ Outer(c, part) \subseteq DOMAIN W /\ Outer(c, part) = L \union R /\ L \intersect R = {}
  BY DEF Outer, Over
<1>2. IsFiniteSet(DOMAIN W) /\ \A d \in DOMAIN W : W[d] \in Nat
  BY EndsIn
<1>3. \A d \in L : adj[d] = W[d]
  OBVIOUS
<1>4. DOMAIN adj = DOMAIN W => Outer(c, part) = L
  BY DEF Outer, Over
<1> HIDE DEF L, R, W
<1>5. IsFiniteSet(L) /\ IsFiniteSet(R)
  <2>1. L \in SUBSET DOMAIN W /\ R \in SUBSET DOMAIN W
    BY <1>1
  <2> QED BY <1>2, <2>1, FS_Subset
<1>6. \A d \in L \union R : W[d] \in Nat /\ W[d] \in Int
  BY <1>1, <1>2
<1>7. mine = SumFunctionOnSet(W, L)
  <2>1. mine = SumFunctionOnSet(adj, L)
    BY DEF L, Over
  <2> QED BY <1>3, <1>5, <2>1, SumSame
<1>8. whole = SumFunctionOnSet(W, L \union R)
  BY <1>1 DEF W
<1>9. SumFunctionOnSet(W, L \union R) = SumFunctionOnSet(W, L) + SumFunctionOnSet(W, R)
  BY <1>1, <1>5, <1>6, SumUnion
<1>10. SumFunctionOnSet(W, L) \in Nat /\ SumFunctionOnSet(W, R) \in Nat
  <2>1. (\A d \in L : W[d] \in Nat) /\ (\A d \in R : W[d] \in Nat)
    BY <1>6
  <2> QED BY <1>5, <2>1, SumNat
<1>11. DOMAIN adj = DOMAIN W => mine = whole
  BY <1>1, <1>4, <1>7, <1>8
<1> QED BY <1>7, <1>8, <1>9, <1>10, <1>11 DEF W

LEMMA ProjectedIs ==
  ASSUME IInv, LInv, Terminated
  PROVE  /\ Mated /\ Counted /\ AllCounted
         /\ DOMAIN cwhere = 0..(ncoarse - 1)
         /\ \A p \in PE : DOMAIN where[p] = Own(p)
         /\ \A v \in Vertex : Final[v] = cwhere[num[v]]
         /\ dropedges \in BOOLEAN
         /\ \A c \in 0..(ncoarse - 1) :
              /\ CoarseOf(c).vwgt = Whole(c).vwgt
              /\ DOMAIN CoarseOf(c).adj \subseteq DOMAIN Whole(c).adj
              /\ \A d \in DOMAIN CoarseOf(c).adj : CoarseOf(c).adj[d] = Whole(c).adj[d]
              /\ ~dropedges => DOMAIN CoarseOf(c).adj = DOMAIN Whole(c).adj
<1>1. 0 \in PE /\ \A p \in PE : pc[p] = "done" /\ pc[p] \in After
  BY NpesAssumption DEF PE, Terminated, After
<1>2. Mated /\ Counted /\ AllCounted
  BY <1>1, NumberedIs
<1>3. Thinned /\ Returned
  BY DEF LInv
<1>4. DOMAIN cwhere = 0..(ncoarse - 1) /\ \A p \in PE : where[p] = [v \in Own(p) |-> cwhere[num[v]]]
  BY <1>1, <1>3 DEF Returned
<1>5. ASSUME NEW v \in Vertex PROVE Final[v] = cwhere[num[v]]
  <2>1. Owner[v] \in PE /\ v \in Own(Owner[v])
    BY OwnerIn
  <2>2. where[Owner[v]] = [u \in Own(Owner[v]) |-> cwhere[num[u]]]
    BY <1>4, <2>1
  <2>3. Final[v] = where[Owner[v]][v]
    BY DEF Final
  <2> QED BY <2>1, <2>2, <2>3
<1>6. \A p \in PE :
        /\ DOMAIN cgraph[p] = Nums(p)
        /\ \A c \in Nums(p) :
             /\ cgraph[p][c].vwgt = Whole(c).vwgt
             /\ DOMAIN cgraph[p][c].adj \subseteq DOMAIN Whole(c).adj
             /\ \A d \in DOMAIN cgraph[p][c].adj : cgraph[p][c].adj[d] = Whole(c).adj[d]
             /\ ~dropedges => DOMAIN cgraph[p][c].adj = DOMAIN Whole(c).adj
  BY <1>1, <1>3 DEF Thinned
<1>7. ASSUME NEW c \in 0..(ncoarse - 1)
      PROVE  /\ CoarseOf(c).vwgt = Whole(c).vwgt
             /\ DOMAIN CoarseOf(c).adj \subseteq DOMAIN Whole(c).adj
             /\ \A d \in DOMAIN CoarseOf(c).adj : CoarseOf(c).adj[d] = Whole(c).adj[d]
             /\ ~dropedges => DOMAIN CoarseOf(c).adj = DOMAIN Whole(c).adj
  <2>1. PICK p \in PE : c \in Nums(p)
    BY <1>2, NumsIn
  <2>2. CoarseOf(c) = cgraph[p][c]
    BY <1>2, <1>6, <2>1, CoarseOfIs
  <2> QED BY <1>6, <2>1, <2>2
<1>8. dropedges \in BOOLEAN
  BY <1>3 DEF Thinned
<1> QED BY <1>2, <1>4, <1>5, <1>7, <1>8

LEMMA CutKept == ASSUME IInv, LInv PROVE CutPreserved
<1> SUFFICES ASSUME Terminated
             PROVE  /\ \A p \in PE : DOMAIN where[p] = Own(p)
                    /\ IF dropedges THEN CoarseCut <= FineCut ELSE CoarseCut = FineCut
                    /\ \A a \in Parts :
                         SumFunctionOnSet(VWgt, {v \in Vertex : Final[v] = a})
                           = SumFunction([c \in {d \in DOMAIN cwhere : cwhere[d] = a} |-> CoarseOf(c).vwgt])
  BY DEF CutPreserved
<1> DEFINE C == 0..(ncoarse - 1)
           cut(c) == SumFunctionOnSet(CoarseOf(c).adj, {d \in DOMAIN CoarseOf(c).adj : cwhere[d] # cwhere[c]})
           cuts == [c \in C |-> cut(c)]
           all == [c \in C |-> SumFunctionOnSet(Whole(c).adj, Outer(c, cwhere))]
<1>1. /\ Mated /\ Counted /\ AllCounted
      /\ DOMAIN cwhere = C
      /\ \A p \in PE : DOMAIN where[p] = Own(p)
      /\ \A v \in Vertex : Final[v] = cwhere[num[v]]
      /\ \A c \in C : /\ CoarseOf(c).vwgt = Whole(c).vwgt
                      /\ DOMAIN CoarseOf(c).adj \subseteq DOMAIN Whole(c).adj
                      /\ \A d \in DOMAIN CoarseOf(c).adj : CoarseOf(c).adj[d] = Whole(c).adj[d]
                      /\ ~dropedges => DOMAIN CoarseOf(c).adj = DOMAIN Whole(c).adj
  BY ProjectedIs
<1>2. IsFiniteSet(C)
  BY <1>1, NumsIn, FS_Interval
<1>3. CoarseCut = SumFunctionOnSet(cuts, C)
  <2>1. CoarseCut = SumFunction(cuts)
    BY <1>1 DEF CoarseCut
  <2> QED BY <2>1 DEF SumFunction
<1>4. FineCut = SumFunctionOnSet(all, C)
  <2>1. {e \in Vertex \X Vertex : e[2] \in Adj[e[1]] /\ Final[e[1]] # Final[e[2]]} = Cut(cwhere)
    <3>1. \A e \in Vertex \X Vertex : e[1] \in Vertex /\ e[2] \in Vertex
      OBVIOUS
    <3> QED BY <1>1, <3>1 DEF Cut, Linked
  <2>2. FineCut = EdgesWeigh(Cut(cwhere))
    BY <2>1 DEF FineCut
  <2>3. \A c \in 0..(ncoarse - 1) : all[c] = SumFunctionOnSet(Whole(c).adj, Outer(c, cwhere))
    OBVIOUS
  <2> HIDE DEF all
  <2> QED BY <1>1, <2>2, <2>3, CutIs
<1>5. ASSUME NEW c \in C
      PROVE  /\ cuts[c] \in Int /\ all[c] \in Int /\ cuts[c] <= all[c]
             /\ ~dropedges => cuts[c] = all[c]
  <2> DEFINE adj == CoarseOf(c).adj
  <2>1. DOMAIN adj \subseteq DOMAIN Whole(c).adj /\ \A d \in DOMAIN adj : adj[d] = Whole(c).adj[d]
    BY <1>1
  <2>2. cuts[c] = SumFunctionOnSet(adj, Over(adj, c, cwhere))
    BY DEF Over
  <2>3. all[c] = SumFunctionOnSet(Whole(c).adj, Outer(c, cwhere))
    OBVIOUS
  <2>4. ~dropedges => DOMAIN adj = DOMAIN Whole(c).adj
    BY <1>1
  <2> HIDE DEF adj, cuts, all
  <2>5. /\ cuts[c] \in Int /\ all[c] \in Int /\ cuts[c] <= all[c]
        /\ DOMAIN adj = DOMAIN Whole(c).adj => cuts[c] = all[c]
    BY <1>1, <2>1, <2>2, <2>3, LeftOver
  <2> QED BY <2>4, <2>5
<1> HIDE DEF cuts, all
<1>6. IF dropedges THEN CoarseCut <= FineCut ELSE CoarseCut = FineCut
  <2>1. CoarseCut <= FineCut
    BY <1>2, <1>3, <1>4, <1>5, SumMonotone
  <2>2. ~dropedges => CoarseCut = FineCut
    BY <1>2, <1>3, <1>4, <1>5, SumSame
  <2> QED BY <2>1, <2>2
<1>7. ASSUME NEW a \in Parts
      PROVE  SumFunctionOnSet(VWgt, {v \in Vertex : Final[v] = a})
               = SumFunction([c \in {d \in DOMAIN cwhere : cwhere[d] = a} |-> CoarseOf(c).vwgt])
  <2> DEFINE I == {d \in DOMAIN cwhere : cwhere[d] = a}
             sum == [c \in I |-> CoarseOf(c).vwgt]
  <2>1. {v \in Vertex : Final[v] = a} = Fine(cwhere, a)
    BY <1>1 DEF Fine
  <2>2. I = Merged(cwhere, a)
    BY <1>1 DEF Merged
  <2>3. \A c \in 0..(ncoarse - 1) : cwhere[c] = a => sum[c] = Whole(c).vwgt
    BY <1>1
  <2>4. SumFunction(sum) = SumFunctionOnSet(sum, I)
    BY DEF SumFunction
  <2> HIDE DEF sum, I
  <2>5. SumFunctionOnSet(VWgt, Fine(cwhere, a)) = SumFunctionOnSet(sum, Merged(cwhere, a))
    BY <1>1, <2>3, PartIs
  <2>6. SumFunctionOnSet(VWgt, {v \in Vertex : Final[v] = a}) = SumFunction(sum)
    BY <2>1, <2>2, <2>4, <2>5
  <2> QED BY <2>6 DEF sum, I
<1> QED BY <1>1, <1>6, <1>7

\* What the coarser levels have achieved is what the fine graph gets: every
\* vertex has the part of its coarse vertex, whichever PE that is at, so the
\* parts weigh as much and the same edges are cut; with dropped edges the
\* coarser levels see at most the cut there is (ProjectPartition); for every
\* distributed graph, matching and coarse partition, and all interleavings.
THEOREM CutIsKept == Spec => []CutPreserved
<1>1. IInv /\ LInv => CutPreserved
  BY CutKept
<1> QED BY <1>1, LateInvariance, PTL
=============================================================================
