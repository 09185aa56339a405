------------------------------ MODULE Ordering ------------------------------
(***************************************************************************)
(* Parallel nested dissection: MultilevelOrder, Order_Partition_Multiple,  *)
(* LabelSeparators, CompactGraph and LocalNDOrder of libparmetis/ometis.c  *)
(* and the labels of InitMultisection (libparmetis/initmsection.c).  Each  *)
(* level finds a separator for every part, numbers its vertices from the   *)
(* end of the part's interval and takes them out of the graph, until there *)
(* is one part for each PE, which orders it by itself.                     *)
(*                                                                         *)
(* How the separators are found and refined is in modules Coarsen and      *)
(* NodeRefine; here a separator is whatever separates.  How a graph is     *)
(* moved is in module MoveGraph.  Between the collective operations, which *)
(* are joint steps here, the PEs work on data of their own.                *)
(***************************************************************************)
EXTENDS Integers, Sequences, SequencesExt, FiniteSetsExt, Functions, TLC

CONSTANTS
  npes,      \* number of PEs (ctrl->npes)
  gnvtxs,    \* the vertices are 0..gnvtxs-1
  Edge,      \* the set of the edges, as sets of two vertices
  VWgt,      \* VWgt[v]: vertex weight
  Block,     \* Block[p]: the vertices of PE p in the order of its arrays
  p_nseps,   \* how many separators are tried at each level
  MaxSep,    \* bounds of the model: separators have at most so many vertices,
  MaxDiff    \* and their sides differ by at most so many

PE == 0..(npes - 1)
AllVertex == 0..(gnvtxs - 1)

\* The graph and its distribution; the module that gives the constants assumes it.
EdgeAssumption  == \A e \in Edge : e \subseteq AllVertex /\ Cardinality(e) = 2
BlockAssumption == /\ Block \in [PE -> Seq(AllVertex)]
                   /\ \A v \in AllVertex : \E p \in PE : v \in Range(Block[p])

\* The PEs that get a part: the largest power of two up to npes.
ndomains == CHOOSE n \in {2^k : k \in 0..npes} : n <= npes /\ npes < 2 * n

VARIABLES
  pc,          \* "separate", "label", "compact", "move", "order", "project", "done"
  nparts,      \* ctrl->nparts
  iter,        \* separators tried at this level
  perm,        \* perm[p][i]: the original vertex of p's i-th vertex
  adjncy,      \* adjncy[p][i]: the global numbers of its neighbours
  where,       \* where[p][i]: its part
  newwhere,    \* bestwhere: where[] with the separators of this level
  bestseps,    \* the weights of these separators
  lastnode,    \* lastnode[l]: the end of the interval of the numbers of l
  order,       \* order[v]: the new number of vertex v, or -1
  sizes,       \* the sizes of the parts and separators
  left,        \* the place in sizes above which all is filled in: sizes[0]
  mperm,       \* mperm[p][i]: the place <<q, j>> p's i-th vertex had before the move
  morder       \* morder[p][i]: its number

vars == <<pc, nparts, iter, perm, adjncy, where, newwhere, bestseps, lastnode, order, sizes,
          left, mperm, morder>>

nvtxs(p) == Len(perm[p])

\* All places of the graph, and the order of their global numbers.
Places == UNION {{<<p, i>> : i \in 1..nvtxs(p)} : p \in PE}
Before(a, b) == a[1] < b[1] \/ (a[1] = b[1] /\ a[2] < b[2])

At(f, a) == f[a[1]][a[2]]
Sum(S, f(_)) == FoldSet(LAMBDA x, s : s + f(x), 0, S)

\* The global number of the first vertex of p, when PE q has Len(f[q]) of them.
vtxdist(f, p) == Sum(0..(p - 1), LAMBDA q : Len(f[q]))

\* The place with global number k, and the places next to a.
PlaceOf(k) == LET p == CHOOSE q \in PE : k - vtxdist(perm, q) \in 0..(nvtxs(q) - 1)
              IN  <<p, k - vtxdist(perm, p) + 1>>
Neighbours(a) == {PlaceOf(k) : k \in At(adjncy, a)}

\* The part whose sides and separator a label belongs to, in numbers of the
\* level: nparts+2i stands between 2i and 2i+1.
SeparatorOf(l) == IF l < nparts THEN nparts + l - (l % 2) ELSE l

Init ==
  LET vertexAt == {<<p, i>> \in PE \X (1..gnvtxs) : i <= Len(Block[p])} IN
  /\ pc = IF ndomains > 1 THEN "separate" ELSE "move"
  /\ nparts = 2 /\ iter = 0
  /\ perm = Block
  /\ adjncy = [p \in PE |-> [i \in 1..Len(Block[p]) |->
       {vtxdist(Block, a[1]) + a[2] - 1 : a \in {b \in vertexAt : {At(Block, b), Block[p][i]} \in Edge}}]]
  /\ where = [p \in PE |-> [i \in 1..Len(Block[p]) |-> 0]]
  /\ newwhere = where
  /\ bestseps = [l \in 0..3 |-> -1]
  /\ lastnode = [l \in 0..(4 * ndomains - 1) |-> IF l = 2 THEN gnvtxs ELSE -1]
  /\ order = [v \in AllVertex |-> -1]
  /\ sizes = [i \in 0..(2 * ndomains - 2) |-> 0] /\ left = 2 * ndomains - 1
  /\ mperm = [p \in PE |-> <<>>] /\ morder = mperm

-----------------------------------------------------------------------------
\* Separators.

\* What METIS_ComputeVertexSeparator, the projections and the refinements may
\* leave in the places S of a part: sides 0 and 1, and 2 for the separator.
Separations(S) ==
  LET near == [a \in S |-> Neighbours(a) \cap S]
      count(f, side) == Cardinality({a \in S : f[a] = side})
  IN  {f \in [S -> 0..2] :
         /\ count(f, 2) <= MaxSep
         /\ count(f, 0) - count(f, 1) \in (-MaxDiff)..MaxDiff
         /\ \A a \in S : \A b \in near[a] : f[a] = 2 \/ f[b] = 2 \/ f[a] = f[b]}

OfPart(i) == {a \in Places : At(where, a) = i}

\* The labels of InitMultisection: group i of PEs labels part i of the
\* assembled graph, and the labels of the groups are summed up.
LabelOf(i, side) == IF side = 2 THEN nparts + 2 * i ELSE 2 * i + side
Multisections ==
  FoldSet(LAMBDA i, W : {w @@ [a \in OfPart(i) |-> LabelOf(i, f[a])] :
                           w \in W, f \in Separations(OfPart(i))},
          {<<>>}, 0..((nparts \div 2) - 1))

\* The weight of the separator l.
gpwgts(w, l) == Sum({a \in Places : w[a] = l}, LAMBDA a : VWgt[At(perm, a)])

\* One round of Order_Partition_Multiple: for each part the lighter of the
\* best separator and the new one.
Separate ==
  /\ pc = "separate"
  /\ \E w \in Multisections :
       LET better(l) == iter = 0 \/ bestseps[l] > gpwgts(w, l) IN
       /\ newwhere' = [p \in PE |-> [i \in 1..nvtxs(p) |->
            IF better(SeparatorOf(w[<<p, i>>])) THEN w[<<p, i>>] ELSE newwhere[p][i]]]
       /\ bestseps' = [l \in 0..(2 * nparts - 1) |->
            IF l >= nparts /\ l % 2 = 0 /\ better(l) THEN gpwgts(w, l)
            ELSE IF l \in DOMAIN bestseps THEN bestseps[l] ELSE -1]
  /\ iter' = iter + 1
  /\ pc' = IF iter + 1 = p_nseps THEN "label" ELSE "separate"
  /\ UNCHANGED <<nparts, perm, adjncy, where, lastnode, order, sizes, left, mperm, morder>>

-----------------------------------------------------------------------------
\* LabelSeparators.

Count(S, l) == Cardinality({a \in S : At(newwhere, a) = l})
gsize(l)    == Count(Places, l)

\* MPI_Scan less the PE's own: the vertices labelled l on the PEs before p.
sizescanOwn(p, l) == Count({a \in Places : a[1] <= p}, l)
sizescan(p, l) == Count({a \in Places : a[1] < p}, l)

\* The number of a separator vertex: the interval of its separator is filled
\* from the end.
Number(a) ==
  LET l == At(newwhere, a)
      rank == sizescan(a[1], l) + Count({b \in Places : b[1] = a[1] /\ b[2] <= a[2]}, l)
  IN  lastnode[l] - rank

InSeparator(a) == At(newwhere, a) >= nparts

\* The ends of the intervals of the two sides: the right one ends where the
\* separator begins.
NextLast(l) ==
  LET i   == (l - 2 * nparts) \div 2
      top == lastnode[SeparatorOf(i)] - gsize(SeparatorOf(i))
  IN  IF i % 2 = 0 THEN top - gsize(i + 1) ELSE top

SizeAt(k) == gsize(nparts + 2 * (k - (left - nparts \div 2)))

LabelSeparators ==
  /\ pc = "label"
  /\ order' = [v \in AllVertex |->
       IF \E a \in Places : At(perm, a) = v /\ InSeparator(a)
       THEN Number(CHOOSE a \in Places : At(perm, a) = v) ELSE order[v]]
  /\ sizes' = [k \in DOMAIN sizes |->
       IF k \in (left - nparts \div 2)..(left - 1)
       THEN SizeAt(k) ELSE sizes[k]]
  /\ left' = left - nparts \div 2
  /\ lastnode' = [l \in DOMAIN lastnode |->
       IF l < 2 * nparts THEN lastnode[l]
       ELSE IF l < 4 * nparts /\ l % 2 = 0 THEN NextLast(l) ELSE lastnode[l]]
  /\ pc' = "compact"
  /\ UNCHANGED <<nparts, iter, perm, adjncy, where, newwhere, bestseps, mperm, morder>>

-----------------------------------------------------------------------------
\* CompactGraph.

KeptOf(p) == SelectSeq([i \in 1..nvtxs(p) |-> i], LAMBDA i : ~InSeparator(<<p, i>>))

\* The new numbers: the Allgather of the numbers of vertices that stay, and
\* their order on each PE.
cmap(keep, a) == vtxdist(keep, a[1])
                 + Cardinality({i \in DOMAIN keep[a[1]] : keep[a[1]][i] < a[2]})

CompactedOwn(keep, a) == {cmap(keep, b) : b \in {c \in Neighbours(a) :
                             c[1] = a[1] /\ At(newwhere, c) = At(newwhere, a)}}

\* The neighbours that stay: those in the same part.
Compacted(keep, a) == {cmap(keep, b) : b \in {c \in Neighbours(a) : At(newwhere, c) = At(newwhere, a)}}

\* The separators leave the graph; the next level has twice the parts.
CompactGraph ==
  LET keep == [p \in PE |-> KeptOf(p)] IN
  /\ pc = "compact"
  /\ perm'   = [p \in PE |-> [i \in DOMAIN keep[p] |-> perm[p][keep[p][i]]]]
  /\ where'  = [p \in PE |-> [i \in DOMAIN keep[p] |-> newwhere[p][keep[p][i]]]]
  /\ adjncy' = [p \in PE |-> [i \in DOMAIN keep[p] |-> Compacted(keep, <<p, keep[p][i]>>)]]
  /\ newwhere' = where'
  /\ nparts' = 2 * nparts /\ iter' = 0
  /\ bestseps' = [l \in 0..(4 * nparts - 1) |-> -1]
  /\ pc' = IF 2 * nparts <= ndomains THEN "separate" ELSE "move"
  /\ UNCHANGED <<lastnode, order, sizes, left, mperm, morder>>

-----------------------------------------------------------------------------
\* The parts go to their PEs.

\* MoveGraph: a PE's vertices in the order of their old places.
Move ==
  /\ pc = "move"
  /\ mperm' = [p \in PE |-> SetToSortSeq({a \in Places : At(where, a) = p}, Before)]
  /\ morder' = [p \in PE |-> <<>>]
  /\ sizes' = [k \in DOMAIN sizes |-> IF k < ndomains THEN Len(mperm'[k]) ELSE sizes[k]]
  /\ pc' = "order"
  /\ UNCHANGED <<nparts, iter, perm, adjncy, where, newwhere, bestseps, lastnode, order, left>>

\* LocalNDOrder: METIS_NodeND permutes the numbers of the PE's interval.
firstnode(p) == lastnode[2 * (ndomains + p)] - Len(mperm[p])
Permutations0(n) == {f \in [1..n -> 0..(n - 1)] : IsInjective(f)}
LocalNDOrder(p) ==
  /\ pc = "order" /\ p < ndomains /\ morder[p] = <<>> /\ mperm[p] # <<>>
  /\ \E iperm \in Permutations0(Len(mperm[p])) :
       morder' = [morder EXCEPT ![p] = [i \in DOMAIN mperm[p] |-> firstnode(p) + iperm[i]]]
  /\ UNCHANGED <<pc, nparts, iter, perm, adjncy, where, newwhere, bestseps, lastnode, order,
                 sizes, left, mperm>>

\* ProjectInfoBack and the copy through perm.
ProjectBack ==
  /\ pc = "order"
  /\ \A p \in PE : Len(morder[p]) = Len(mperm[p])
  /\ order' = [v \in AllVertex |->
       IF \E a \in Places : At(perm, a) = v
       THEN LET a == CHOOSE b \in Places : At(perm, b) = v
                q == At(where, a)
            IN  morder[q][CHOOSE j \in DOMAIN mperm[q] : mperm[q][j] = a]
       ELSE order[v]]
  /\ pc' = "done"
  /\ UNCHANGED <<nparts, iter, perm, adjncy, where, newwhere, bestseps, lastnode, sizes, left,
                 mperm, morder>>

Next == \/ Separate \/ LabelSeparators \/ CompactGraph \/ Move \/ ProjectBack
        \/ \E p \in PE : LocalNDOrder(p)
        \/ pc = "done" /\ UNCHANGED vars

Spec == Init /\ [][Next]_vars

-----------------------------------------------------------------------------
(* Properties *)

\* Every vertex gets a number of its own: no separator vertex is numbered
\* twice, forgotten or numbered outside the interval of its part, on whatever
\* PE and level it was.
OrderIsPermutation == pc = "done" => order \in [AllVertex -> AllVertex] /\ IsInjective(order)

\* The separators of one level that lie before domain d are those whose last
\* domain is before d; k separators share the domains evenly.
SeparatorsBefore(d) == {<<k, j>> \in {2^e : e \in 0..npes} \X (0..npes) :
                          k < ndomains /\ j < k /\ (j + 1) * (ndomains \div k) <= d}
First(d) == Sum(0..(d - 1), LAMBDA e : sizes[e])
            + Sum(SeparatorsBefore(d), LAMBDA s : sizes[2 * ndomains - 2 * s[1] + s[2]])
Domain(d) == {v \in AllVertex : order[v] \in First(d)..(First(d) + sizes[d] - 1)}

\* sizes[] describes the ordering: its entries add up to the number of
\* vertices, and the intervals it cuts out for the domains are not joined by
\* an edge of the original graph, so that they can be factored independently.
\* The separators of the second level are found in the compacted graph and
\* known by its renumbered adjacency only.
SizesDescribeOrder == pc = "done" =>
  /\ Sum(DOMAIN sizes, LAMBDA k : sizes[k]) = gnvtxs
  /\ \A c, d \in 0..(ndomains - 1) : c # d =>
       \A u \in Domain(c), v \in Domain(d) : {u, v} \notin Edge

=============================================================================
