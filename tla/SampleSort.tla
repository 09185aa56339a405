----------------------------- MODULE SampleSort -----------------------------
(***************************************************************************)
(* ParMETIS_V3_PartGeomKway of libparmetis/gkmetis.c: vertices are first   *)
(* distributed along a space-filling curve (Coordinate_Partition and       *)
(* PseudoSampleSort of libparmetis/xyzpart.c), then the graph is moved     *)
(* there, partitioned, and the result is returned, as in MoveGraph.        *)
(*                                                                         *)
(* The bins of the coordinates are an input: IRBinCoordinates computes     *)
(* them with real numbers.  Collectives are joint steps; ikvsorti compares *)
(* keys only, so elements of one key come in any order.                    *)
(***************************************************************************)
EXTENDS MoveGraph

CONSTANTS
  nbits,   \* the number of bins of a dimension is 2^nbits
  Bins     \* the bins vertices may be in: functions from Vertex to tuples of bins

VARIABLES
  stage,      \* the step of the sort a PE is at; "moved" once where is there
  bxyz,       \* the bins
  elmnts,     \* elmnts[p]: the keys and vertices of p
  splitters,  \* the picks that bound the buckets, the same on all PEs
  relmnts,    \* relmnts[p]: what p received, as it came
  sorted      \* sorted[p]: the places in relmnts[p], by key

sortvars == <<stage, bxyz, elmnts, splitters, relmnts, sorted>>
geomvars == <<vars, sortvars>>

gvtxdist == [i \in 0..npes |-> Cardinality({v \in Vertex : Owner[v] < i})]
nlocal(p) == Cardinality(Own(p))

\* The bits of the bins, the highest of all dimensions first.
Bit(b, j) == (b \div 2^j) % 2
Interleaved(bins) ==
  LET ndims == Len(bins) IN
  FoldLeftDomain(LAMBDA icoord, n : 2 * icoord
                   + Bit(bins[((n - 1) % ndims) + 1], nbits - 1 - ((n - 1) \div ndims)),
                 0, [n \in 1..(nbits * ndims) |-> n])
icoord(v) == Interleaved(bxyz[v])

\* The orders in which a sort that compares keys only may leave a list.
Orders(s) == {o \in Permutations(DOMAIN s) : \A i \in 1..(Len(s) - 1) : s[o[i]].key <= s[o[i + 1]].key}

Less(a, b) == a.key < b.key \/ (a.key = b.key /\ a.val < b.val)

GeomInit ==
  /\ Init
  /\ \/ stage = [p \in PE |-> "sort"] /\ bxyz \in Bins /\ where = CHOOSE w \in Wheres : TRUE
     \/ stage = [p \in PE |-> "moved"] /\ bxyz = <<>>
  /\ elmnts = [p \in PE |-> <<>>] /\ relmnts = elmnts /\ sorted = elmnts
  /\ splitters = <<>>

Goto(p, s) == stage' = [stage EXCEPT ![p] = s]
AllAt(s)   == \A p \in PE : stage[p] = s

\* Z-ordering, and the sort of the local elements.
SortOwn(p) ==
  /\ stage[p] = "sort"
  /\ LET cand == [i \in 1..nlocal(p) |->
                   [key |-> icoord(Ascending(Own(p))[i]), val |-> Ascending(Own(p))[i]]] IN
     \E o \in Orders(cand) : elmnts' = [elmnts EXCEPT ![p] = [i \in DOMAIN cand |-> cand[o[i]]]]
  /\ Goto(p, "pick")
  /\ UNCHANGED <<vars, bxyz, splitters, relmnts, sorted>>

-----------------------------------------------------------------------------
nlsamples ==
  LET n == gnvtxs \div (npes * npes)
      few == IF npes < 75 THEN npes ELSE 75
  IN IF n > npes THEN npes ELSE IF n < 75 THEN few ELSE n

\* nlsamples - 1 equally spaced elements, of a PE that has any.
Picks(p) ==
  [i \in 0..(nlsamples - 2) |->
     elmnts[p][((nlocal(p) \div (3 * nlsamples) + ((i * nlocal(p)) \div nlsamples)
                 + ((p * nlocal(p)) \div (npes * nlsamples))) % nlocal(p)) + 1]]

Allpicks == FlattenSeq([i \in 1..npes |->
  IF nlocal(i - 1) = 0 THEN <<>> ELSE [k \in 1..(nlsamples - 1) |-> Picks(i - 1)[k - 1]]])

\* MPI_Allgather: all PEs choose the same splitters.
Pick ==
  /\ AllAt("pick")
  /\ LET allpicks == SortSeq(Allpicks, Less) IN
     splitters' = [i \in 1..(npes - 1) |-> allpicks[((i * Len(allpicks)) \div npes) + 1]]
  /\ stage' = [p \in PE |-> "exchange"]
  /\ UNCHANGED <<vars, bxyz, elmnts, relmnts, sorted>>

\* The bucket of each of p's elements.  An element that is not below the next
\* splitter is counted for the next bucket, whatever the splitters after it.
Bucket(p) ==
  LET j[i \in 0..nlocal(p)] ==
        IF i = 0 THEN 0
        ELSE IF j[i - 1] = npes - 1 \/ Less(elmnts[p][i], splitters[j[i - 1] + 1])
             THEN j[i - 1] ELSE j[i - 1] + 1
  IN [i \in 1..nlocal(p) |-> j[i]]

\* The elements p sends to q.
Sent(p, q) == SelectSeq([i \in 1..nlocal(p) |-> <<Bucket(p)[i], elmnts[p][i]>>],
                        LAMBDA e : e[1] = q)

\* MPI_Alltoall of the counts and MPI_Alltoallv of the elements.
Exchange ==
  /\ AllAt("exchange")
  /\ relmnts' = [p \in PE |-> FlattenSeq([i \in 1..npes |->
       LET s == Sent(i - 1, p) IN [k \in DOMAIN s |-> s[k][2]]])]
  /\ stage' = [p \in PE |-> "receive"]
  /\ UNCHANGED <<vars, bxyz, elmnts, splitters, sorted>>

SortReceived(p) ==
  /\ stage[p] = "receive"
  /\ \E o \in Orders(relmnts[p]) : sorted' = [sorted EXCEPT ![p] = [i \in DOMAIN relmnts[p] |-> o[i]]]
  /\ Goto(p, "place")
  /\ UNCHANGED <<vars, bxyz, elmnts, splitters, relmnts>>

\* MPI_Scan of nrecv, with the own count taken off again.
firstvtxUnscanned(p) == 0
firstvtx(p) == Total([q \in PE |-> Len(relmnts[q])], 0..p) - Len(relmnts[p])

\* The PE that has the n-th place of all.
PlaceOf(n) == CHOOSE q \in PE : gvtxdist[q] <= n /\ n < gvtxdist[q + 1]

\* relmnts[].key: where p's elements have to go, in the order they came.
Shares(p) == [k \in DOMAIN relmnts[p] |->
  PlaceOf(firstvtx(p) + (CHOOSE j \in DOMAIN sorted[p] : sorted[p][j] = k) - 1)]

\* MPI_Alltoallv the other way round: the elements return in the order they came,
\* to the places of elmnts they were sent from.
Returned(p, q) ==
  LET before == Total([r \in PE |-> Len(Sent(r, q))], 0..(p - 1)) IN
  SubSeq(Shares(q), before + 1, before + Len(Sent(p, q)))

SendBack ==
  /\ AllAt("place")
  /\ LET back == [p \in PE |-> FlattenSeq([i \in 1..npes |-> Returned(p, i - 1)])] IN
     where' = [v \in Vertex |->
       back[Owner[v]][CHOOSE i \in 1..nlocal(Owner[v]) : elmnts[Owner[v]][i].val = v]]
  /\ stage' = [p \in PE |-> "sorted"]
  /\ UNCHANGED <<pc, mvtxdist, newlabel, sinfo, rinfo, mgraph, minfo, info, chan,
                 bxyz, elmnts, splitters, relmnts, sorted>>

\* The work space is given back and the graph is moved.
Pop ==
  /\ AllAt("sorted")
  /\ stage' = [p \in PE |-> "moved"]
  /\ bxyz' = <<>> /\ splitters' = <<>>
  /\ elmnts' = [p \in PE |-> <<>>] /\ relmnts' = elmnts' /\ sorted' = elmnts'
  /\ UNCHANGED vars

PartGeomKway == AllAt("moved") /\ Next /\ UNCHANGED sortvars

GeomNext ==
  \/ Pick \/ Exchange \/ SendBack \/ Pop \/ PartGeomKway
  \/ \E p \in PE : SortOwn(p) \/ SortReceived(p)

GeomSpec == GeomInit /\ [][GeomNext]_geomvars
-----------------------------------------------------------------------------
(* Properties *)

\* The geometric distribution gives every PE as many vertices as it had, however
\* uneven the buckets, and along the curve as its own vertices lie: what a PE
\* counts through four permutations and three exchanges returns to the right
\* elements.
SharesKept == AllAt("sorted") =>
  /\ \A q \in PE : Cardinality({v \in Vertex : where[v] = q}) = nlocal(q)
  /\ \A p \in PE : \A u, v \in Own(p) : icoord(u) < icoord(v) => where[u] <= where[v]

\* "This function sorts a distributed list in increasing order, and uses it to
\* compute a partition" (xyzpart.c:468): no vertex comes before one of a smaller key.
SortedByKey == AllAt("sorted") =>
  \A u, v \in Vertex : icoord(u) < icoord(v) => where[u] <= where[v]
=============================================================================
