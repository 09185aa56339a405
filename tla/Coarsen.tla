------------------------------ MODULE Coarsen ------------------------------
(***************************************************************************)
(* Contraction along a matching and the way back:                          *)
(* CreateCoarseGraph_Global, CreateCoarseGraph_Local and DropEdges of      *)
(* libparmetis/match.c and ProjectPartition of libparmetis/kwayrefine.c.   *)
(* The PE that keeps a matched pair numbers the coarse vertex and          *)
(* collapses both adjacency lists into it; for a remote pair the other PE  *)
(* ships its list.  rcand, which records what was received from afar,      *)
(* later tells where the projected partition must be sent back to.         *)
(*                                                                         *)
(* Unlike the interface exchanges, a PE messages only the neighbours it    *)
(* shares a matched pair with, each side deciding from its own match.      *)
(***************************************************************************)
EXTENDS Integers, Sequences, SequencesExt, Matching, PointToPoint

CONSTANTS
  Matchings,   \* the matchings MatchGlobal may have left, see IsMatching
  VWgt,        \* VWgt[v]: vertex weight (vsize is treated alike)
  AdjWgt,      \* AdjWgt[u][v]: edge weight
  Parts,       \* partition numbers
  Partitions,  \* Partitions[c]: the parts the coarser levels may give to c
  Noises       \* the values RandomInRange may give to the coarse vertices for
               \* DropEdges, below half of NoiseUnit (it is 256, for noise below 128)
NoiseUnit == 4

ASSUME WeightAssumption == \A v \in Vertex : VWgt[v] \in Nat /\ \A u \in Adj[v] :
                             AdjWgt[u][v] \in Nat \ {0} /\ AdjWgt[u][v] = AdjWgt[v][u]
ASSUME NoisesAssumption == \A f \in Noises : \A c \in 0..(Cardinality(Vertex) - 1) :
                             c \in DOMAIN f /\ f[c] \in Nat /\ 2 * f[c] < NoiseUnit
ASSUME MatchingsAssumption == \A m \in Matchings : m \in [Vertex -> Nat] /\ IsMatching(m)

VARIABLES
  pc,        \* the phase a PE is in
  mtype,     \* graph->match_type, "global" or "local"
  dropedges, \* ctrl->dropedges
  match,     \* match[v] at v's owner
  counts,    \* counts[p]: p's cnvtxs, -1 until it enters the Allgather
  cmap,      \* cmap[p][v]: the coarse vertex of v, for p's vertices and ghosts
  scand,     \* scand[p][q]: p's vertices that go away to q
  rcand,     \* rcand[p][q]: what p gets from q: q's vertex and the coarse vertex
  rsizes,    \* rsizes[p][q]: number of edges q announced
  cgraph,    \* cgraph[p]: p's coarse vertices with their weights and edges
  noise, median,  \* noise[p] and median[p]: DropEdges' arrays, for p's coarse
             \* vertices and its coarse ghosts
  cwhere,    \* the partition of the coarse graph
  where,     \* where[p][v]: the projected partition of p's own vertices
  chan       \* the messages in flight

vars == <<pc, mtype, dropedges, match, counts, cmap, scand, rcand, rsizes, cgraph, noise,
          median, cwhere, where, chan>>
\* What only DropEdges changes, and what nothing does.
dropping == <<mtype, dropedges, noise, median>>

\* A matching that Match_Local may have left.
LocalMatching(m) == \A v \in Vertex : Local(Partner(m[v]), v)

Init ==
  /\ pc = [p \in PE |-> "count"]
  /\ match \in Matchings
  /\ mtype \in {"global"} \cup (IF LocalMatching(match) THEN {"local"} ELSE {})
  /\ dropedges \in IF mtype = "global" THEN BOOLEAN ELSE {FALSE}
  /\ noise = [p \in PE |-> <<>>] /\ median = [p \in PE |-> <<>>]
  /\ counts = [p \in PE |-> -1]
  /\ cmap = [p \in PE |-> [v \in Own(p) \cup Ghosts(p) |-> -1]]
  /\ scand = [p \in PE |-> [q \in PE |-> {}]]
  /\ rcand = [p \in PE |-> [q \in PE |-> {}]]
  /\ rsizes = [p \in PE |-> [q \in PE |-> 0]]
  /\ cgraph = [p \in PE |-> <<>>]
  /\ cwhere = <<>>
  /\ where = [p \in PE |-> <<>>]
  /\ chan = NoMessages

\* cvtxdist[p]: the first coarse vertex of p, from the gathered counts.
cvtxdist(p) == SumFunctionOnSet(counts, 0..(p - 1))

Interface(p, q, data) == [v \in Send(p, q) |-> data[v]]

-----------------------------------------------------------------------------
\* MPI_Allgather of the number of coarse vertices Match_Global counted.
Count(p) ==
  /\ pc[p] = "count"
  /\ counts' = [counts EXCEPT ![p] = Cardinality({v \in Own(p) : Keeps(match[v])})]
  /\ pc' = [pc EXCEPT ![p] = "number"]
  /\ UNCHANGED <<dropping, match, cmap, scand, rcand, rsizes, cgraph, cwhere, where, chan>>

\* The vertices p makes a coarse vertex of: those it keeps, the smaller one of
\* a local pair.
Makers(p) == {v \in Own(p) : Keeps(match[v]) /\ ~(Local(Partner(match[v]), v) /\ Partner(match[v]) < v)}

\* The larger vertices of the local pairs.
Joined(p) == {v \in Own(p) \ Makers(p) : Partner(match[v]) \in Makers(p)}

\* All counts are gathered: number the kept vertices in ascending order, give
\* the number to the local partners as well, which from here on also carry
\* KeepBit, and publish the numbers.
Number(p) ==
  LET next(v) == cvtxdist(p) + Cardinality({u \in Makers(p) : u < v})
      new == [v \in DOMAIN cmap[p] |-> IF v \in Makers(p) THEN next(v)
                                      ELSE IF v \in Joined(p) THEN next(Partner(match[v]))
                                      ELSE cmap[p][v]]
  IN  /\ pc[p] = "number" /\ \A q \in PE : counts[q] # -1
      /\ match' = [v \in Vertex |->
                     match[v] + IF v \in Joined(p) /\ ~Keeps(match[v]) THEN KeepBit ELSE 0]
      /\ cmap' = [cmap EXCEPT ![p] = new]
      /\ chan' = Post(chan, p, [q \in Nbrs(p) |-> Interface(p, q, new)])
      /\ pc' = [pc EXCEPT ![p] = IF mtype = "local" THEN "joined" ELSE "away"]
      /\ UNCHANGED <<dropping, counts, scand, rcand, rsizes, cgraph, cwhere, where>>

\* The vertices that go away get the number of their remote partner; a second
\* exchange publishes those.
Away(p) ==
  LET new  == Exchanged(chan, p, cmap[p])
      full == [v \in DOMAIN new |->
                 IF v \in Own(p) /\ ~Keeps(match[v]) THEN new[match[v]] ELSE new[v]]
  IN  /\ pc[p] = "away" /\ ArrivedFrom(chan, p, Nbrs(p))
      /\ cmap' = [cmap EXCEPT ![p] = full]
      /\ chan' = Post(Take(chan, p, Nbrs(p)), p, [q \in Nbrs(p) |-> Interface(p, q, full)])
      /\ pc' = [pc EXCEPT ![p] = "lists"]
      /\ UNCHANGED <<dropping, match, counts, scand, rcand, rsizes, cgraph, cwhere, where>>

-----------------------------------------------------------------------------
\* Who goes away to q, and whose list comes from q.
Leaving(p, q)  == {v \in Own(p) : ~Keeps(match[v]) /\ Owner[match[v]] = q}
Arriving(p, q, cm) ==
  {[key |-> Partner(match[v]), val |-> cm[v]] :
     v \in {u \in Own(p) : p # q /\ Keeps(match[u]) /\ Owner[Partner(match[u])] = q}}

\* The neighbours p sends lists to and those it has lists of: a message goes
\* only where there is something to send.
ReceivesOfAll(p) == Nbrs(p)
SendsTo(p)    == {q \in Nbrs(p) : scand[p][q] # {}}
ReceivesOf(p) == {q \in Nbrs(p) : rcand[p][q] # {}}

\* The number of edges of the lists that leave for q.
ssizes(S) == SumFunction([v \in S |-> Cardinality(Adj[v])])

\* After the second exchange every PE knows who sends what and announces the
\* sizes.
Lists(p) ==
  /\ pc[p] = "lists" /\ ArrivedFrom(chan, p, Nbrs(p))
  /\ LET cm == Exchanged(chan, p, cmap[p]) IN
     /\ cmap' = [cmap EXCEPT ![p] = cm]
     /\ scand' = [scand EXCEPT ![p] = [q \in PE |-> Leaving(p, q)]]
     /\ rcand' = [rcand EXCEPT ![p] = [q \in PE |-> Arriving(p, q, cm)]]
     /\ chan' = Post(Take(chan, p, Nbrs(p)), p,
                     [q \in {r \in Nbrs(p) : Leaving(p, r) # {}} |->
                        [phase |-> "sizes", size |-> ssizes(Leaving(p, q))]])
  /\ pc' = [pc EXCEPT ![p] = "sizes"]
  /\ UNCHANGED <<dropping, match, counts, rsizes, cgraph, cwhere, where>>

\* The list of v as it is shipped: its weight and its edges, whose ends are
\* already coarse vertices.
Shipped(p, v) == [vwgt |-> VWgt[v], edges |-> [u \in Adj[v] |-> cmap[p][u]]]

\* The sizes are in and the receive buffers laid out: the lists go out.
Sizes(p) ==
  /\ pc[p] = "sizes" /\ ArrivedFrom(chan, p, ReceivesOf(p))
  /\ rsizes' = [rsizes EXCEPT ![p] = [q \in PE |->
                  IF q \in ReceivesOf(p) THEN Head(chan[q][p]).size ELSE 0]]
  /\ chan' = Post(Take(chan, p, ReceivesOf(p)), p,
                  [q \in SendsTo(p) |->
                     [phase |-> "lists", list |-> [v \in scand[p][q] |-> Shipped(p, v)]]])
  /\ pc' = [pc EXCEPT ![p] = "collapse"]
  /\ UNCHANGED <<dropping, match, counts, cmap, scand, rcand, cgraph, cwhere, where>>

-----------------------------------------------------------------------------
\* The weight of a set of edges, pairs of vertices.
EdgesWeigh(E) == SumFunction([e \in E |-> AdjWgt[e[1]][e[2]]])

CollapseUnmerged(c, lists) ==
  LET Slots == UNION {{<<v, u>> : u \in DOMAIN lists[v].edges} : v \in DOMAIN lists}
      end(e) == lists[e[1]].edges[e[2]]
  IN  [vwgt |-> SumFunction([v \in DOMAIN lists |-> lists[v].vwgt]),
       adj  |-> [d \in {end(e) : e \in Slots} \ {c} |->
                  LET e == CHOOSE x \in Slots : end(x) = d IN AdjWgt[e[1]][e[2]]]]

\* The edges of the vertices in lists[v] (for a v and its partner) collapsed
\* into coarse vertex c: those with the same end add up (the htable), those
\* that end in c are dropped.
Collapse(c, lists) ==
  LET Slots == UNION {{<<v, u>> : u \in DOMAIN lists[v].edges} : v \in DOMAIN lists}
      end(e) == lists[e[1]].edges[e[2]]
  IN  [vwgt |-> SumFunction([v \in DOMAIN lists |-> lists[v].vwgt]),
       adj  |-> [d \in {end(e) : e \in Slots} \ {c} |->
                  EdgesWeigh({e \in Slots : end(e) = d})]]

\* What p makes of its vertex v and v's partner, which is local or in the
\* message received[q] of its PE q.
CoarseVertex(p, v, received) ==
  Collapse(cmap[p][v], [u \in {v, Partner(match[v])} |->
    IF u \in Own(p) THEN Shipped(p, u) ELSE received[Owner[u]].list[u]])

Collapsed(p) ==
  /\ pc[p] = "collapse" /\ ArrivedFrom(chan, p, ReceivesOf(p))
  /\ LET received == [q \in ReceivesOf(p) |-> Head(chan[q][p])] IN
     cgraph' = [cgraph EXCEPT ![p] = [c \in {cmap[p][v] : v \in Makers(p)} |->
                  CoarseVertex(p, CHOOSE v \in Makers(p) : cmap[p][v] = c, received)]]
  /\ chan' = Take(chan, p, ReceivesOf(p))
  /\ pc' = [pc EXCEPT ![p] = "coarse"]
  /\ UNCHANGED <<dropping, match, counts, cmap, scand, rcand, rsizes, cwhere, where>>

-----------------------------------------------------------------------------
\* CreateCoarseGraph_Local after the exchange of cmap: both lists are p's own.
CollapsedLocal(p) ==
  /\ pc[p] = "joined" /\ ArrivedFrom(chan, p, Nbrs(p))
  /\ LET cm == Exchanged(chan, p, cmap[p])
         own(v) == [vwgt |-> VWgt[v], edges |-> [u \in Adj[v] |-> cm[u]]]
     IN  /\ cmap' = [cmap EXCEPT ![p] = cm]
         /\ cgraph' = [cgraph EXCEPT ![p] = [c \in {cm[v] : v \in Own(p)} |->
                        Collapse(c, [v \in {u \in Own(p) : cm[u] = c} |-> own(v)])]]
  /\ chan' = Take(chan, p, Nbrs(p))
  /\ pc' = [pc EXCEPT ![p] = "coarse"]
  /\ UNCHANGED <<dropping, match, counts, scand, rcand, rsizes, cwhere, where>>

-----------------------------------------------------------------------------
\* DropEdges: every PE forgets the light edges of its coarse vertices.

\* The PE whose range of cvtxdist c is in, p's coarse ghosts, and its messages
\* of interface data about its coarse vertices.
COwner(c)      == CHOOSE p \in PE : c \in cvtxdist(p)..(cvtxdist(p) + counts[p] - 1)
CGhosts(p)     == (UNION {DOMAIN cgraph[p][c].adj : c \in DOMAIN cgraph[p]}) \ DOMAIN cgraph[p]
CNbrs(p)       == {COwner(c) : c \in CGhosts(p)}
CInterface(p, data) == [q \in CNbrs(p) |->
  [c \in {d \in DOMAIN cgraph[p] : \E e \in DOMAIN cgraph[p][d].adj : COwner(e) = q} |-> data[c]]]
CExchanged(p, data) == [c \in DOMAIN data \cup CGhosts(p) |->
  IF c \in DOMAIN data THEN data[c] ELSE Head(chan[COwner(c)][p])[c]]

\* CommSetup, a collective, then the noise that breaks ties between edges of
\* equal weight.
MakeNoise(p) ==
  /\ dropedges /\ pc[p] = "coarse"
  /\ \A q \in PE : pc[q] \in {"coarse", "noise", "median", "dropped"}
  /\ \E f \in Noises :
       LET mine == [c \in DOMAIN cgraph[p] |-> f[c]] IN
       /\ noise' = [noise EXCEPT ![p] = mine]
       /\ chan' = Post(chan, p, CInterface(p, mine))
  /\ pc' = [pc EXCEPT ![p] = "noise"]
  /\ UNCHANGED <<mtype, dropedges, match, counts, cmap, scand, rcand, rsizes, cgraph, median,
                 cwhere, where>>

\* The noisy weight of the edge between c and d.
Key(c, d, w, ns) == w * NoiseUnit + ns[c] + ns[d]
Keys(p, c, ns) == LET adj == cgraph[p][c].adj IN [d \in DOMAIN adj |-> Key(c, d, adj[d], ns)]

\* The middle entry of the descending sequence of the keys, the one that no
\* more than half of them precede and more than half of them reach; 0 for a
\* vertex that was matched with itself, or that has no edges (whose value
\* nobody uses).
Median(keys) ==
  LET half == Cardinality(DOMAIN keys) \div 2 IN
  IF DOMAIN keys = {} THEN 0
  ELSE CHOOSE k \in {keys[d] : d \in DOMAIN keys} :
         /\ Cardinality({d \in DOMAIN keys : keys[d] > k}) <= half
         /\ Cardinality({d \in DOMAIN keys : keys[d] >= k}) > half

Unmated(p, c) == \A u, v \in Own(p) : cmap[p][u] = c /\ cmap[p][v] = c => u = v /\ Partner(match[v]) = v

Medians(p) ==
  /\ pc[p] = "noise" /\ ArrivedFrom(chan, p, CNbrs(p))
  /\ LET ns == CExchanged(p, noise[p])
         mine == [c \in DOMAIN cgraph[p] |->
                    IF Unmated(p, c) THEN 0 ELSE Median(Keys(p, c, ns))]
     IN  /\ noise' = [noise EXCEPT ![p] = ns]
         /\ median' = [median EXCEPT ![p] = mine]
         /\ chan' = Post(Take(chan, p, CNbrs(p)), p, CInterface(p, mine))
  /\ pc' = [pc EXCEPT ![p] = "median"]
  /\ UNCHANGED <<mtype, dropedges, match, counts, cmap, scand, rcand, rsizes, cgraph, cwhere, where>>

StaysOwn(p, c, d, ns, ms) == Key(c, d, cgraph[p][c].adj[d], ns) >= ms[c]

\* An edge stays when it reaches the median of one of its ends.
Stays(p, c, d, ns, ms) ==
  Key(c, d, cgraph[p][c].adj[d], ns) >= IF ms[c] < ms[d] THEN ms[c] ELSE ms[d]

Drop(p) ==
  /\ pc[p] = "median" /\ ArrivedFrom(chan, p, CNbrs(p))
  /\ LET ms == CExchanged(p, median[p]) IN
     /\ median' = [median EXCEPT ![p] = ms]
     /\ cgraph' = [cgraph EXCEPT ![p] = [c \in DOMAIN @ |-> [vwgt |-> @[c].vwgt,
                     adj |-> [d \in {e \in DOMAIN @[c].adj : Stays(p, c, e, noise[p], ms)} |-> @[c].adj[d]]]]]
     /\ chan' = Take(chan, p, CNbrs(p))
  /\ pc' = [pc EXCEPT ![p] = "dropped"]
  /\ UNCHANGED <<mtype, dropedges, match, counts, cmap, scand, rcand, rsizes, noise, cwhere, where>>

\* The coarser levels partition the coarse graph; their collectives bring the
\* PEs together (Global_Partition in kmetis.c).
Partition ==
  /\ \A p \in PE : pc[p] = IF dropedges THEN "dropped" ELSE "coarse"
  /\ cwhere' \in {w \in [UNION {DOMAIN cgraph[p] : p \in PE} -> Parts] :
                    \A c \in DOMAIN w : w[c] \in Partitions[c]}
  /\ pc' = [p \in PE |-> "project"]
  /\ UNCHANGED <<dropping, match, counts, cmap, scand, rcand, rsizes, cgraph, where, chan>>

-----------------------------------------------------------------------------
\* ProjectPartition: the part of each vertex received from afar goes back to
\* its owner, in place of the coarse vertex in rcand; kept vertices are
\* projected at once.
Project(p) ==
  /\ pc[p] = "project"
  /\ LET parts == [q \in PE |-> {[r EXCEPT !.val = cwhere[@]] : r \in rcand[p][q]}] IN
     /\ rcand' = [rcand EXCEPT ![p] = parts]
     /\ chan' = Post(chan, p, [q \in ReceivesOf(p) |-> [phase |-> "where", parts |-> parts[q]]])
  /\ where' = [where EXCEPT ![p] = [v \in {u \in Own(p) : Keeps(match[u])} |->
                 cwhere[cmap[p][v]]]]
  /\ pc' = [pc EXCEPT ![p] = "projected"]
  /\ UNCHANGED <<dropping, match, counts, cmap, scand, rsizes, cgraph, cwhere>>

ProjectFirstNeighbour(p) ==
  /\ pc[p] = "projected" /\ ArrivedFrom(chan, p, SendsTo(p))
  /\ LET back == UNION {Head(chan[q][p]).parts : q \in {x \in SendsTo(p) : \A y \in SendsTo(p) : x <= y}} IN
     where' = [where EXCEPT ![p] = [v \in DOMAIN @ \cup {r.key : r \in back} |->
                 IF \E r \in back : r.key = v
                 THEN (CHOOSE r \in back : r.key = v).val ELSE @[v]]]
  /\ chan' = Take(chan, p, SendsTo(p))
  /\ pc' = [pc EXCEPT ![p] = "done"]
  /\ UNCHANGED <<dropping, match, counts, cmap, scand, rcand, rsizes, cgraph, cwhere>>

ProjectReceived(p) ==
  /\ pc[p] = "projected" /\ ArrivedFrom(chan, p, SendsTo(p))
  /\ LET back == UNION {Head(chan[q][p]).parts : q \in SendsTo(p)} IN
     where' = [where EXCEPT ![p] = [v \in DOMAIN @ \cup {r.key : r \in back} |->
                 IF \E r \in back : r.key = v
                 THEN (CHOOSE r \in back : r.key = v).val ELSE @[v]]]
  /\ chan' = Take(chan, p, SendsTo(p))
  /\ pc' = [pc EXCEPT ![p] = "done"]
  /\ UNCHANGED <<dropping, match, counts, cmap, scand, rcand, rsizes, cgraph, cwhere>>

Step(p) == \/ Count(p) \/ Number(p) \/ Away(p) \/ Lists(p) \/ Sizes(p)
           \/ Collapsed(p) \/ CollapsedLocal(p) \/ MakeNoise(p) \/ Medians(p) \/ Drop(p)
           \/ Project(p) \/ ProjectReceived(p)

Terminated == \A p \in PE : pc[p] = "done"

Next == (\E p \in PE : Step(p)) \/ Partition \/ (Terminated /\ UNCHANGED vars)

\* The PEs run straight-line code: as long as one of them can go on, one does.
Spec == Init /\ [][Next]_vars /\ WF_vars(Next)

-----------------------------------------------------------------------------
(* Properties *)

ncoarse == SumFunction(counts)

\* match, the counts and cmap stay in their ranges, what is shipped belongs to
\* its sender and what is expected to the neighbour it is expected from.
TypeOK ==
  /\ pc \in [PE -> {"count", "number", "away", "lists", "sizes", "collapse", "joined", "coarse",
                     "noise", "median", "dropped", "project", "projected", "done"}]
  /\ match \in [Vertex -> Vertex \cup {v + KeepBit : v \in Vertex}]
  /\ counts \in [PE -> -1..Cardinality(Vertex)]
  /\ \A p \in PE :
       /\ cmap[p] \in [Own(p) \cup Ghosts(p) -> -1..Cardinality(Vertex)]
       /\ \A q \in PE : /\ scand[p][q] \subseteq Own(p)
                         /\ {r.key : r \in rcand[p][q]} \subseteq Own(q)
                         /\ rsizes[p][q] \in Nat
       /\ DOMAIN where[p] \subseteq Own(p)
       /\ \A v \in DOMAIN where[p] : where[p][v] \in Parts

Keeper(v) == IF Keeps(match[v]) THEN Owner[v] ELSE Owner[match[v]]

\* Two PEs that know the coarse vertices of u and v (own or ghost) agree: they
\* are the same exactly when u and v are matched to each other, they lie in
\* the range of the PE that keeps them, and none is left at -1 (the errexit
\* after the second exchange).
CmapConsistent ==
  LET Knows == {p \in PE : pc[p] \notin {"count", "number", "joined", "away", "lists"}} IN
  \A p \in Knows : \A v \in DOMAIN cmap[p] :
    /\ cmap[p][v] - cvtxdist(Keeper(v)) \in 0..(counts[Keeper(v)] - 1)
    /\ \A q \in Knows : \A u \in DOMAIN cmap[q] :
         cmap[p][v] = cmap[q][u] <=> u = v \/ u = Partner(match[v])

Members(c) == {v \in Vertex : cmap[Owner[v]][v] = c}
Between(A, B) == EdgesWeigh({e \in A \X B : e[2] \in Adj[e[1]]})
CoarseOf(c) == cgraph[CHOOSE p \in PE : c \in DOMAIN cgraph[p]][c]

\* Each PE drops edges by itself, with noise and medians of other PEs'
\* vertices: both ends of an edge must come to the same decision, for the
\* coarser levels rely on an undirected graph, and every coarse vertex keeps
\* at least half of its edges, all of them if nothing was merged into it.
DroppedAlike == (\A p \in PE : pc[p] = "dropped") =>
  \A c \in 0..(ncoarse - 1) :
    /\ \A d \in DOMAIN CoarseOf(c).adj : /\ c \in DOMAIN CoarseOf(d).adj
                                         /\ CoarseOf(d).adj[c] = CoarseOf(c).adj[d]
    /\ LET all == {d \in 0..(ncoarse - 1) : d # c /\ Between(Members(c), Members(d)) > 0} IN
       /\ 2 * Cardinality(DOMAIN CoarseOf(c).adj) >= Cardinality(all)
       /\ Cardinality(Members(c)) = 1 => DOMAIN CoarseOf(c).adj = all

\* The coarse graph is the quotient of the graph by the matching: the PEs agree
\* on who is in which coarse vertex, weights add up, an edge between two coarse
\* vertices weighs as much as all edges between their vertices and is there on
\* both sides, and there are no loops.
Contracted == CmapConsistent /\ ((\A p \in PE : pc[p] = "coarse") =>
  /\ UNION {DOMAIN cgraph[p] : p \in PE} = 0..(ncoarse - 1)
  /\ \A p \in PE : \A c \in DOMAIN cgraph[p] :
       /\ cgraph[p][c].vwgt = SumFunctionOnSet(VWgt, Members(c))
       /\ \A d \in 0..(ncoarse - 1) :
            IF d # c /\ Between(Members(c), Members(d)) > 0
            THEN /\ d \in DOMAIN cgraph[p][c].adj
                 /\ cgraph[p][c].adj[d] = Between(Members(c), Members(d))
            ELSE d \notin DOMAIN cgraph[p][c].adj)

Final == [v \in Vertex |-> where[Owner[v]][v]]
CoarseCut == SumFunction([c \in DOMAIN cwhere |->
  SumFunctionOnSet(CoarseOf(c).adj, {d \in DOMAIN CoarseOf(c).adj : cwhere[d] # cwhere[c]})])
FineCut == EdgesWeigh({e \in Vertex \X Vertex : e[2] \in Adj[e[1]] /\ Final[e[1]] # Final[e[2]]})

\* Projection keeps what the coarser levels have achieved: the cut and the
\* weight of every part are those of the coarse partition; with dropped edges
\* the coarser levels see at most the cut there is.
CutPreserved == Terminated =>
  /\ \A p \in PE : DOMAIN where[p] = Own(p)
  /\ IF dropedges THEN CoarseCut <= FineCut ELSE CoarseCut = FineCut
  /\ \A a \in Parts :
       SumFunctionOnSet(VWgt, {v \in Vertex : Final[v] = a})
         = SumFunction([c \in {d \in DOMAIN cwhere : cwhere[d] = a} |-> CoarseOf(c).vwgt])

\* No PE waits for a list or a part that nobody sends, and nothing is left in
\* flight for the next phase to take by mistake.
AllProjected == <>(Terminated /\ chan = NoMessages)
=============================================================================
