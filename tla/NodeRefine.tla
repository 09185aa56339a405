----------------------------- MODULE NodeRefine -----------------------------
(***************************************************************************)
(* Refinement of vertex separators, libparmetis/node_refine.c: the drivers *)
(* KWayNodeRefine_Greedy and KWayNodeRefine2Phase as Order_Partition calls *)
(* them.  The graph falls apart into pairs of parts 2i and 2i+1 between    *)
(* which lies the separator nparts+2i.  In one side of a Greedy pass every *)
(* PE moves separator vertices into the parts of parity c, with its own    *)
(* copy of the weights; then the neighbours of moved vertices that lie in  *)
(* the parts of parity cc are pulled into the separator by their owners.   *)
(* 2Phase alternates Greedy with a serial refinement of what is interior   *)
(* to each PE.                                                             *)
(***************************************************************************)
EXTENDS Integers, Sequences, SequencesExt, PointToPoint

CONSTANTS
  VWgt,      \* VWgt[v]: vertex weight
  nparts,    \* ctrl->nparts, even
  Ub,        \* ctrl->ubfrac in percent
  Starts,    \* the labels InitMultisection or ProjectPartition may leave
  Rtypes,    \* subset of {"GREEDY", "2PHASE"}
  npasses    \* NGR_PASSES

ASSUME WeightAssumption == \A v \in Vertex : VWgt[v] \in Nat \ {0}
ASSUME PartsAssumption  == nparts \in Nat \ {0} /\ nparts % 2 = 0

\* The parts of even number, one for each separator.
Pairs == {g \in 0..(nparts - 1) : g % 2 = 0}
Label == 0..(2 * nparts - 1)
InSeparator(a) == a >= nparts
\* where[] of the separator next to part a
SeparatorOf(a) == nparts + a - (a % 2)
\* The slot of lpwgts and gpwgts with the weight of all separators.
Total == 2 * nparts - 1

\* No edge joins two sides of a separator.
Separated(w, S) == \A u, v \in S :
  u \in Adj[v] /\ w[u] < nparts /\ w[v] < nparts => w[u] = w[v]

\* The number of the pair that label a belongs to.
PairOf(a) == IF InSeparator(a) THEN a - nparts ELSE a - (a % 2)

\* The edges between the parts of the level above are gone (CompactGraph).
ASSUME StartsAssumption == \A w \in Starts :
  /\ w \in [Vertex -> Label]
  /\ \A v \in Vertex : PairOf(w[v]) \in Pairs
  /\ \A u, v \in Vertex : u \in Adj[v] => PairOf(w[u]) = PairOf(w[v])
  /\ Separated(w, Vertex)

VARIABLES
  rtype,       \* ctrl->rtype
  pc,          \* the phase a PE is in
  round,       \* iterations of KWayNodeRefine2Phase
  lastcut,     \* oldcut of KWayNodeRefine2Phase
  pass, side, c, nzerogain, \* of KWayNodeRefine_Greedy, the same on all PEs
  oldcut,      \* oldcut of KWayNodeRefine_Greedy
  badmaxpwgt,  \* badmaxpwgt[a]: no part may grow beyond it
  where,       \* where[p][v] for p's own vertices and ghosts
  edegrees,    \* edegrees[v][x]: weight of v's neighbours of parity x
  lpwgts,      \* lpwgts[p][a]: weight of p's own vertices with label a
  gpwgts,      \* gpwgts[p][a]: p's idea of the weight of a
  sepind,      \* sepind[p]: the own separator vertices p knows of
  queue,       \* the separator vertices still to be looked at
  update,      \* own vertices next to moved ones: update[], or marked
  supdate,     \* ghosts next to moved ones
  changed,     \* own vertices whose label changed in this side
  mincut,
  chan

vars == <<rtype, pc, round, lastcut, pass, side, c, nzerogain, oldcut, badmaxpwgt, where,
          edegrees, lpwgts, gpwgts, sepind, queue, update, supdate, changed, mincut, chan>>
greedy == <<pass, side, c, nzerogain, oldcut, badmaxpwgt>>

Weight(S) == SumFunctionOnSet(VWgt, S)

cc == (c + 1) % 2

\* The degrees of a separator vertex: a neighbour in the same separator does
\* not count.
Degrees(v, w) ==
  [x \in {0, 1} |-> Weight({u \in Adj[v] : w[u] # w[v] /\ w[u] % 2 = x})]

\* The weight of each label within S, and of all separators.
WeightsOf(S, w) ==
  [a \in Label |-> Weight({v \in S : w[v] = a \/ (a = Total /\ InSeparator(w[v]))})]

\* Order_Partition has a fresh partition.  Copies of remote vertices are not
\* read before they are received.
Init ==
  \E w \in Starts :
    /\ rtype \in Rtypes
    /\ pc = [p \in PE |-> "params"] /\ round = 0 /\ lastcut = 0
    /\ pass = 0 /\ side = 0 /\ c = 0 /\ nzerogain = 0 /\ oldcut = 0
    /\ badmaxpwgt = [a \in 0..(nparts - 1) |-> 0]
    /\ where = [p \in PE |-> [v \in Own(p) \cup Ghosts(p) |-> IF v \in Own(p) THEN w[v] ELSE -1]]
    /\ edegrees = [v \in Vertex |-> [x \in {0, 1} |-> 0]]
    /\ lpwgts = [p \in PE |-> [a \in Label |-> 0]] /\ gpwgts = lpwgts
    /\ sepind = [p \in PE |-> {}] /\ queue = sepind
    /\ update = sepind /\ supdate = sepind /\ changed = sepind
    /\ mincut = Weight({v \in Vertex : InSeparator(w[v])})
    /\ chan = NoMessages

-----------------------------------------------------------------------------
\* ComputeNodePartitionParams and UpdateNodePartitionParams.

\* CommInterfaceData sends the labels of the interface vertices.
SendWhere(p) ==
  /\ pc[p] = "params"
  /\ chan' = Post(chan, p, [q \in Nbrs(p) |-> [v \in Send(p, q) |-> where[p][v]]])
  /\ pc' = [pc EXCEPT ![p] = "ghosts"]
  /\ UNCHANGED <<rtype, round, lastcut, greedy, where, edegrees, lpwgts, gpwgts, sepind,
                 queue, update, supdate, changed, mincut>>

\* The labels of the ghosts are in: everything else follows from them.
ComputeParams(p) ==
  /\ pc[p] = "ghosts" /\ ArrivedFrom(chan, p, Nbrs(p))
  /\ \E new \in {Exchanged(chan, p, where[p])} :
       LET separators == {v \in Own(p) : InSeparator(new[v])} IN
       /\ where' = [where EXCEPT ![p] = new]
       /\ edegrees' = [v \in Vertex |-> IF v \in separators THEN Degrees(v, new) ELSE edegrees[v]]
       /\ sepind' = [sepind EXCEPT ![p] = separators]
       /\ lpwgts' = [lpwgts EXCEPT ![p] = WeightsOf(Own(p), new)]
  /\ chan' = Take(chan, p, Nbrs(p))
  /\ pc' = [pc EXCEPT ![p] = "paramsum"]
  /\ UNCHANGED <<rtype, round, lastcut, greedy, gpwgts, queue, update, supdate, changed, mincut>>

\* MPI_Allreduce of lpwgts.
SumWeights == [a \in Label |-> SumFunction([p \in PE |-> lpwgts[p][a]])]

\* The common end of both: on to Greedy, or out of KWayNodeRefine2Phase when
\* the refinement of the interiors gained nothing or the rounds are used up.
ReduceParams ==
  LET again == round > 0 IN
  /\ \A p \in PE : pc[p] = "paramsum"
  /\ gpwgts' = [p \in PE |-> SumWeights]
  /\ mincut' = SumWeights[Total]
  /\ lastcut' = IF again THEN mincut' ELSE mincut' + 1
  /\ pc' = [p \in PE |->
       IF again /\ (mincut' = lastcut \/ round = npasses) THEN "done" ELSE "greedy"]
  /\ UNCHANGED <<rtype, round, greedy, where, edegrees, lpwgts, sepind, queue, update, supdate,
                 changed, chan>>

-----------------------------------------------------------------------------
\* KWayNodeRefine_Greedy.

\* The PEs agree on a random direction: GlobalSESum(RandomInRange(2)) % 2.
StartGreedy ==
  /\ \A p \in PE : pc[p] = "greedy"
  /\ c' \in {0, 1}
  /\ badmaxpwgt' = [a \in 0..(nparts - 1) |->
       LET g == a - (a % 2) IN (Ub * (gpwgts[0][g] + gpwgts[0][g + 1])) \div 200]
  /\ pass' = 0 /\ side' = 0 /\ nzerogain' = 0 /\ oldcut' = mincut
  /\ queue' = sepind /\ sepind' = [p \in PE |-> {}]
  /\ pc' = [p \in PE |-> "move"]
  /\ UNCHANGED <<rtype, round, lastcut, where, edegrees, lpwgts, gpwgts, update, supdate, changed,
                 mincut, chan>>

gain(v) == VWgt[v] - edegrees[v][cc]

\* The vertices rpqGetTop may return: those of the largest gain.
Top(p) == {v \in queue[p] : \A u \in queue[p] : gain(u) <= gain(v)}

To(p, v)    == (where[p][v] % nparts) + c
Other(p, v) == (where[p][v] % nparts) + cc

Fits(p, v) == /\ gpwgts[p][To(p, v)] + VWgt[v] <= badmaxpwgt[To(p, v)]
              /\ gain(v) >= 0

\* The vertices that v's move pulls into the separator for the first time.
\* Some of them may have been marked by an earlier move.
PulledAgain(p, v) == {u \in Adj[v] : where[p][u] = Other(p, v)}
Pulled(p, v)      == {u \in Adj[v] \ (update[p] \cup supdate[p]) : where[p][u] = Other(p, v)}

NearOther(p, v) == {u \in Adj[v] : where[p][u] = Other(p, v)}
\* The vertices whose degrees a move of v changes, or that it pulls in.
Near(p, v) == {u \in Adj[v] : where[p][u] # To(p, v)}

\* The degrees after v's move: the separator vertices that are still queued
\* no longer count the pulled vertices.
Relieved(p, v) ==
  [u \in Vertex |-> IF u \in queue[p] \ {v}
     THEN [edegrees[u] EXCEPT ![cc] = @ - Weight(Pulled(p, v) \cap Adj[u])] ELSE edegrees[u]]

\* A vertex leaves the separator, or stays in it for this side.
MoveVertex(p) ==
  /\ pc[p] = "move"
  /\ \E v \in Top(p) :
       LET from == where[p][v]
           to   == To(p, v)
           w    == VWgt[v]
       IN
       /\ queue' = [queue EXCEPT ![p] = @ \ {v}]
       /\ \/ /\ ~Fits(p, v)
             /\ sepind' = [sepind EXCEPT ![p] = @ \cup {v}]
             /\ UNCHANGED <<where, edegrees, lpwgts, gpwgts, update, supdate, changed>>
          \/ /\ Fits(p, v)
             /\ where' = [where EXCEPT ![p][v] = to]
             /\ lpwgts' = [lpwgts EXCEPT ![p][from] = @ - w, ![p][Total] = @ - w, ![p][to] = @ + w]
             /\ gpwgts' = [gpwgts EXCEPT ![p][to] = @ + w]
             /\ edegrees' = Relieved(p, v)
             /\ update' = [update EXCEPT ![p] = @ \cup (Near(p, v) \cap Own(p))]
             /\ supdate' = [supdate EXCEPT ![p] = @ \cup (Near(p, v) \ Own(p))]
             /\ changed' = [changed EXCEPT ![p] = @ \cup {v}]
             /\ UNCHANGED sepind
  /\ UNCHANGED <<rtype, pc, round, lastcut, greedy, mincut, chan>>

\* The owners of remote neighbours of moved vertices are told of them.
SendUpdates(p) ==
  /\ pc[p] = "move" /\ queue[p] = {}
  /\ chan' = Post(chan, p, [q \in Nbrs(p) |-> supdate[p] \cap Own(q)])
  /\ supdate' = [supdate EXCEPT ![p] = {}]
  /\ pc' = [pc EXCEPT ![p] = "pull"]
  /\ UNCHANGED <<rtype, round, lastcut, greedy, where, edegrees, lpwgts, gpwgts, sepind, queue,
                 update, changed, mincut>>

TouchedHere(p) == update[p]

\* The vertices in update[] after the messages, and those of them on the side
\* the separator moves towards.
Touched(p) == update[p] \cup UNION {Head(chan[q][p]) : q \in Nbrs(p)}
ToPull(p)  == {v \in Touched(p) : where[p][v] < nparts /\ where[p][v] % 2 = cc}

\* They are pulled into the separator, and the new labels of the interface
\* vertices go out (CommChangedInterfaceData).
PullVertices(p) ==
  LET pulled == ToPull(p)
      new == [v \in DOMAIN where[p] |->
                IF v \in pulled THEN SeparatorOf(where[p][v]) ELSE where[p][v]]
      all == changed[p] \cup pulled
  IN
  /\ pc[p] = "pull" /\ ArrivedFrom(chan, p, Nbrs(p))
  /\ where' = [where EXCEPT ![p] = new]
  /\ sepind' = [sepind EXCEPT ![p] = @ \cup pulled]
  /\ lpwgts' = [lpwgts EXCEPT ![p] = [a \in Label |-> @[a]
       + Weight({v \in pulled : new[v] = a \/ a = Total})
       - Weight({v \in pulled : where[p][v] = a})]]
  /\ update' = [update EXCEPT ![p] = Touched(p)]
  /\ changed' = [changed EXCEPT ![p] = {}]
  /\ chan' = Post(Take(chan, p, Nbrs(p)), p,
                  [q \in Nbrs(p) |-> [v \in Send(p, q) \cap all |-> new[v]]])
  /\ pc' = [pc EXCEPT ![p] = "labels"]
  /\ UNCHANGED <<rtype, round, lastcut, greedy, edegrees, gpwgts, queue, supdate, mincut>>

\* The new labels of the ghosts are in: the degrees of the separator vertices
\* in update[] are computed anew.
UpdateDegrees(p) ==
  /\ pc[p] = "labels" /\ ArrivedFrom(chan, p, Nbrs(p))
  /\ \E new \in {Exchanged(chan, p, where[p])} :
       /\ where' = [where EXCEPT ![p] = new]
       /\ edegrees' = [v \in Vertex |->
            IF v \in update[p] /\ InSeparator(new[v]) THEN Degrees(v, new) ELSE edegrees[v]]
  /\ update' = [update EXCEPT ![p] = {}]
  /\ chan' = Take(chan, p, Nbrs(p))
  /\ pc' = [pc EXCEPT ![p] = "sum"]
  /\ UNCHANGED <<rtype, round, lastcut, greedy, lpwgts, gpwgts, sepind, queue, supdate, changed,
                 mincut>>

\* The rest of KWayNodeRefine2Phase after Greedy.
AfterGreedy == IF rtype = "GREEDY" \/ SumWeights[Total] = lastcut THEN "done" ELSE "interior"

\* MPI_Allreduce of lpwgts: the next side, the next pass, or the end of Greedy
\* when two sides in a row have gained nothing.
EndSide ==
  LET cut    == SumWeights[Total]
      nogain == IF cut = oldcut THEN nzerogain + 1 ELSE 0
      over   == nogain = 2 \/ (side = 1 /\ pass + 1 = npasses)
  IN
  /\ \A p \in PE : pc[p] = "sum"
  /\ gpwgts' = [p \in PE |-> SumWeights]
  /\ mincut' = cut
  /\ nzerogain' = nogain
  /\ \/ /\ over
        /\ pc' = [p \in PE |-> AfterGreedy]
        /\ lastcut' = cut /\ round' = round + 1
        /\ UNCHANGED <<pass, side, c, oldcut, queue, sepind>>
     \/ /\ ~over
        /\ pc' = [p \in PE |-> "move"]
        /\ queue' = sepind /\ sepind' = [p \in PE |-> {}]
        /\ c' = cc /\ side' = 1 - side
        /\ pass' = pass + side
        /\ oldcut' = IF side = 1 THEN cut ELSE oldcut
        /\ UNCHANGED <<round, lastcut>>
  /\ UNCHANGED <<rtype, badmaxpwgt, where, edegrees, lpwgts, update, supdate, changed,
                 chan>>

-----------------------------------------------------------------------------
\* KWayNodeRefineInterior: METIS refines the separators one after the other,
\* with the vertices at the border of the PE's block held fast.

Border(p) == UNION {Send(p, q) : q \in PE}
OfPair(p, g) == {v \in Own(p) : where[p][v] \in {g, g + 1, nparts + g}}
Inside(p, g) == {v \in Own(p) \ Border(p) : where[p][v] = nparts + g}

NoSeparator(p, g) == lpwgts[p][nparts + g] = 0
Enough(p, g) == Cardinality(Inside(p, g)) >= 2
HasEdges(p, g) == \E u, v \in OfPair(p, g) : u \in Adj[v]

\* The loop is left at the first separator that is there but has too few
\* interior vertices.
Reached(p, g) == \A h \in Pairs : h < g => NoSeparator(p, h) \/ Enough(p, h)
RefinedPairs(p) == {g \in Pairs : /\ Reached(p, g) /\ ~NoSeparator(p, g)
                                  /\ Enough(p, g) /\ HasEdges(p, g)}

\* METIS_NodeRefine: the labels it may give to the vertices of S, which has
\* no heavier separator afterwards.
NodeRefinements(w, S, fixed, g) ==
  {n \in [S -> {g, g + 1, nparts + g}] :
     /\ \A v \in S \cap fixed : n[v] = w[v]
     /\ Separated(n, S)
     /\ Weight({v \in S : InSeparator(n[v])}) <= Weight({v \in S : InSeparator(w[v])})}

\* The labels after METIS has been called for each of the pairs.
RefinementsOf(p) ==
  LET of(g)   == NodeRefinements(where[p], OfPair(p, g), Border(p), g)
      refined == UNION {OfPair(p, g) : g \in RefinedPairs(p)}
  IN {[v \in DOMAIN where[p] |-> IF v \in refined THEN n[PairOf(where[p][v])][v] ELSE where[p][v]] :
        n \in {m \in [RefinedPairs(p) -> UNION {of(g) : g \in RefinedPairs(p)}] :
                 \A g \in RefinedPairs(p) : m[g] \in of(g)}}

RefineInterior(p) ==
  /\ pc[p] = "interior"
  /\ \E new \in RefinementsOf(p) : where' = [where EXCEPT ![p] = new]
  /\ pc' = [pc EXCEPT ![p] = "params"]
  /\ UNCHANGED <<rtype, round, lastcut, greedy, edegrees, lpwgts, gpwgts, sepind, queue, update,
                 supdate, changed, mincut, chan>>

-----------------------------------------------------------------------------
Terminated == \A p \in PE : pc[p] = "done"

Params(p) == SendWhere(p) \/ ComputeParams(p)
Greedy(p) == MoveVertex(p) \/ SendUpdates(p) \/ PullVertices(p) \/ UpdateDegrees(p)

Next == \/ \E p \in PE : Params(p) \/ Greedy(p) \/ RefineInterior(p)
        \/ ReduceParams \/ StartGreedy \/ EndSide
        \/ Terminated /\ UNCHANGED vars

Spec == Init /\ [][Next]_vars

-----------------------------------------------------------------------------
(* Properties *)

\* The label its owner gives to each vertex.
Current == [v \in Vertex |-> where[Owner[v]][v]]

\* Nobody is in the middle of a side: the reductions have been reached.
Synchronized == \A p \in PE : pc[p] \in {"paramsum", "greedy", "sum", "interior", "done"}

\* Labels, weights and lists are what their declarations say.
TypeOK ==
  /\ pc \in [PE -> {"params", "ghosts", "paramsum", "greedy", "move", "pull", "labels", "sum",
                    "interior", "done"}]
  /\ round \in 0..npasses /\ pass \in 0..(npasses - 1) /\ nzerogain \in 0..2
  /\ \A p \in PE : /\ \A v \in Own(p) : where[p][v] \in Label
                   /\ \A a \in Label : lpwgts[p][a] \in Nat /\ gpwgts[p][a] \in Nat
                   /\ sepind[p] \subseteq Own(p) /\ queue[p] \subseteq Own(p)
                   /\ update[p] \subseteq Own(p) /\ supdate[p] \subseteq Ghosts(p)

\* However the moves of the PEs meet, what is left after each side is a
\* separator: no edge joins the two parts of a pair.  Two PEs may have moved
\* adjacent vertices, and a pulled vertex may be next to moves it has not
\* heard of.
Separates == Synchronized => Separated(Current, Vertex)

\* After each side, what the PEs keep incrementally is right again: the ghosts,
\* the list of the separator vertices (the assertion at the head of a side),
\* and the weights.  A degree may still count neighbours that a vertex further
\* away has pulled into the separator, but never misses a neighbour; it is
\* exact when the parameters have been computed anew.  And during a side the
\* gains in the queue never promise too much: the degree of a queued vertex
\* still counts every neighbour that is not in the separator and that no move
\* of this PE pulls in.  With it, taking a pulled neighbour off cannot make a
\* degree negative, as two assertions demand.
ParamsExact ==
  /\ Synchronized => \A p \in PE : pc[p] \in {"paramsum", "sum"} =>
       /\ \A v \in Ghosts(p) : where[p][v] = Current[v]
       /\ sepind[p] = {v \in Own(p) : InSeparator(Current[v])}
       /\ lpwgts[p] = WeightsOf(Own(p), Current)
       /\ \A v \in sepind[p] :
            LET exact == Degrees(v, Current) IN
            /\ \A x \in {0, 1} : edegrees[v][x] >= exact[x]
            /\ pc[p] = "paramsum" => edegrees[v] = exact
  /\ \A p \in PE : pc[p] = "move" => \A v \in queue[p] :
       edegrees[v][cc] >= Weight({u \in Adj[v] \ (update[p] \cup supdate[p]) :
                                    where[p][u] = Other(p, v)})

\* The separator never gets heavier, though every PE counts its own gains
\* only and two PEs may pull in the same vertex.
SeparatorNeverGrows == [][mincut' <= mincut]_vars
=============================================================================
