----------------------------- MODULE Diffusion -----------------------------
(***************************************************************************)
(* Mc_Diffusion of libparmetis/mdiffusion.c: the PEs that diffuse when     *)
(* there are two constraints do it together, each on its own copy of the   *)
(* coarsest graph and of where.  Linked parts are matched; each PE takes a *)
(* pair and divides its vertices anew, and all unpack what the others did. *)
(* Then every PE refines the whole partition by itself in the same way     *)
(* (Mc_SerialKWayAdaptRefine of libparmetis/serial.c).                     *)
(*                                                                         *)
(* What a PE does with its pair is any division here (module MyLink has    *)
(* BalanceMyLink in detail); the solver's results are inputs.  Collectives *)
(* are joint steps.                                                        *)
(***************************************************************************)
EXTENDS DiffUtil, Sequences, SequencesExt

CONSTANTS
  npes,
  NGD_PASSES, npasses,  \* the most rounds of a pass, and passes (20 and 6 in the code)
  RefinePasses,         \* the most passes of the refinement (10 in the code)
  Ub,                   \* ctrl->ubvec, times 1000, the same for both constraints
  MaxSwaps,             \* bound of the model: a PE swaps no more with its pair
  Wheres,               \* the partitions to start with
  Solutions             \* what the solver may return for the two constraints

PE == 0..(npes - 1)
Con == {1, 2}
None == -1

\* The weights of both constraints are in terms of the same total (see DiffUtil).
TotalsAssumption == Tvwgt(1) = Tvwgt(2)

VARIABLES
  stage,      \* "flows", "match", "swap", "refine", "sort", "visit", "balance", "end"
  pass, iter,
  where,      \* where[p]: the copy of p
  links,      \* the linked parts, as matrix has them
  transfer,   \* transfer[f][h]: what is to flow along f of constraint h
  gvisited,   \* the links the PEs know to be visited
  visited,    \* visited[p]: those p has visited
  pairs,      \* pairs[p + 1]: the parts p works on (proc2sub)
  busy,       \* the PEs that have still to divide their pair
  unpack,     \* unpack[p]: the vertices of the pairs, pair by pair
  sbuffer,    \* sbuffer[p]: what p sends
  nswaps,     \* nswaps[p]: what p swapped last
  tnswaps,
  oldlb,      \* the loads' maxima when the pass began
  rpass, cand, ckrinfo, npwgts, ubvec, mincut, oldcut  \* of the refinement

pairvars == <<links, transfer, gvisited, visited, pairs, busy, unpack, sbuffer, nswaps, tnswaps>>
refvars  == <<rpass, cand, ckrinfo, npwgts, ubvec, mincut, oldcut>>
vars     == <<stage, pass, iter, where, pairvars, oldlb, refvars>>

MaxLoad(w) == [h \in Con |-> Max(Range(ComputeLoad(w, h)))]

Init ==
  /\ stage = "flows" /\ pass = 0 /\ iter = 0
  /\ \E w \in Wheres : where = [p \in PE |-> w]
  /\ links = ConnectGraph(where[0])
  /\ nswaps = [p \in PE |-> -1]
  /\ tnswaps = 0 /\ oldlb = <<>>
  /\ transfer = <<>> /\ gvisited = {} /\ visited = [p \in PE |-> {}]
  /\ pairs = <<>> /\ busy = {} /\ unpack = [p \in PE |-> <<>>] /\ sbuffer = unpack
  /\ rpass = 0 /\ cand = <<>> /\ ckrinfo = <<>> /\ npwgts = <<>> /\ ubvec = <<>>
  /\ mincut = 0 /\ oldcut = 0

\* A pass begins: the flows of both constraints are computed.
Flows ==
  /\ stage = "flows"
  /\ \E s \in Solutions :
       LET t == [h \in Con |-> ComputeTransferVector(links, s[h])]
       IN transfer' = [f \in DOMAIN t[1] |-> <<t[1][f], t[2][f]>>]
  /\ gvisited' = {} /\ visited' = [p \in PE |-> {}]
  /\ iter' = 0 /\ tnswaps' = 0
  /\ oldlb' = MaxLoad(where[0])
  /\ stage' = IF links = {} THEN "refine" ELSE "match"
  /\ UNCHANGED <<pass, where, links, pairs, busy, unpack, sbuffer, nswaps, refvars>>

\* CSR_Match_SHEM: a part asks for an unmatched part something is to flow to over a link
\* that is not visited.  The heaviest come first; the model takes any order.
Flowing == {{f[1], f[2]} : f \in {g \in DOMAIN transfer : transfer[g] # <<0, 0>>}} \ gvisited
Matchings == {m \in SUBSET Flowing :
                /\ \A x, y \in m : x # y => x \cap y = {}
                /\ \A x \in Flowing : \E y \in m : x \cap y # {}}

\* The places of the vertices of pair i, by the partition w.
Ascending(S) == SetToSortSeq(S, <)
Members(w, x) == Ascending({v \in Vertex : w[v] \in x})
Unpack(w, ps) == FlattenSeq([i \in DOMAIN ps |-> Members(w, ps[i])])
Taken(ps) == IF Len(ps) > npes THEN SubSeq(ps, 1, npes) ELSE ps

\* Each PE derives the pairs and the places of their vertices from its own copy.
Match ==
  /\ stage = "match"
  /\ \E m \in Matchings : \E ps \in SetToSeqs(m) : pairs' = Taken(ps)
  /\ unpack' = [p \in PE |-> Unpack(where[p], pairs')]
  /\ busy' = {p \in PE : p < Len(pairs')}
  /\ stage' = "swap"
  /\ UNCHANGED <<pass, iter, where, links, transfer, gvisited, visited, sbuffer, nswaps,
                 tnswaps, oldlb, refvars>>

\* What p sends: the parts of the vertices of its pair, at their places; old and w are the
\* partitions before and after.
PackedLate(p, old, w) ==
  LET vtx == Members(w, {Max(pairs[p + 1])}) \o Members(w, {Min(pairs[p + 1])}) IN
  [i \in DOMAIN vtx |-> w[vtx[i]]]
Packed(p, old, w) ==
  LET vtx == Members(old, pairs[p + 1]) IN [i \in DOMAIN vtx |-> w[vtx[i]]]

\* RedoMyLink and BalanceMyLink on the vertices of the pair, of which one result is
\* taken.  The number of swaps is that of BalanceMyLink, whichever it is.
Divide(p) ==
  /\ stage = "swap" /\ p \in busy
  /\ visited' = [visited EXCEPT ![p] = @ \cup {pairs[p + 1]}]
  /\ LET mine == {v \in Vertex : where[p][v] \in pairs[p + 1]} IN
       \/ /\ mine = {}
          /\ nswaps' = [nswaps EXCEPT ![p] = 1]
          /\ UNCHANGED where
       \/ /\ mine # {}
          /\ \E split \in [mine -> pairs[p + 1]] :
               where' = [where EXCEPT ![p] = [v \in Vertex |-> IF v \in mine THEN split[v] ELSE @[v]]]
          /\ \E n \in 0..MaxSwaps : nswaps' = [nswaps EXCEPT ![p] = n]
  /\ sbuffer' = [sbuffer EXCEPT ![p] = Packed(p, where[p], where'[p])]
  /\ busy' = busy \ {p}
  /\ UNCHANGED <<stage, pass, iter, links, transfer, gvisited, pairs, unpack, tnswaps, oldlb, refvars>>

\* MPI_Allgatherv puts the pieces one after the other; a PE without a pair sends nothing.
rbuffer == FlattenSeq([i \in DOMAIN pairs |-> sbuffer[i - 1]])
Unpacked(p) == [v \in Vertex |->
  IF v \in Range(unpack[p])
  THEN rbuffer[CHOOSE i \in DOMAIN unpack[p] : unpack[p][i] = v] ELSE where[p][v]]

\* All links are visited or there were enough rounds.  SwapCap bounds what the rounds of
\* a pass can swap together.
SwapCap == npes * MaxSwaps * (NGD_PASSES + 1)
Smaller(x, y) == IF x < y THEN x ELSE y
Again(seen) == Cardinality(seen) < Cardinality(links) /\ iter # NGD_PASSES
Gather ==
  /\ stage = "swap" /\ busy = {}
  /\ where' = [p \in PE |-> Unpacked(p)]
  /\ gvisited' = UNION Range(visited)
  /\ tnswaps' = Smaller(tnswaps + Total(PE, LAMBDA p : nswaps[p]), SwapCap)
  /\ stage' = IF Again(gvisited') THEN "match" ELSE "refine"
  /\ pairs' = <<>> /\ unpack' = [p \in PE |-> <<>>] /\ sbuffer' = unpack'
  /\ IF Again(gvisited') THEN iter' = Smaller(iter + 1, NGD_PASSES) /\ UNCHANGED <<transfer, visited>>
     ELSE iter' = 0 /\ transfer' = <<>> /\ visited' = [p \in PE |-> {}]
  /\ UNCHANGED <<pass, links, busy, nswaps, oldlb, refvars>>

-----------------------------------------------------------------------------
(* The refinement.  All PEs do the same, as they have the same partition.   *)

Degrees(w, v) ==
  [id  |-> Into(w, v, w[v]),
   ed  |-> Total({w[u] : u \in Adj[v]} \ {w[v]}, LAMBDA a : Into(w, v, a)),
   nbr |-> [a \in {w[u] : u \in Adj[v]} \ {w[v]} |-> Into(w, v, a)]]

Larger(x, y) == IF x > y THEN x ELSE y

\* Mc_ComputeSerialPartitionParams; the limit of a part is the present imbalance or Ub,
\* here times 1000 * Tvwgt.
ComputeParams ==
  /\ stage = "refine"
  /\ ckrinfo' = [v \in Vertex |-> Degrees(where[0], v)]
  /\ npwgts' = [h \in Con |-> ComputeLoad(where[0], h)]
  /\ mincut' = Total(Vertex, LAMBDA v : ckrinfo'[v].ed) \div 2
  /\ ubvec' = [h \in Con |-> Larger(1000 * nparts * Max(Range(npwgts'[h])), Ub * Tvwgt(h))]
  /\ rpass' = 0
  /\ stage' = "sort"
  /\ UNCHANGED <<pass, iter, where, pairvars, oldlb, cand, oldcut>>

\* The vertices are visited by falling ed - id as it is now.
Sort ==
  /\ stage = "sort"
  /\ cand' = [v \in Vertex |-> ckrinfo[v].ed - ckrinfo[v].id]
  /\ oldcut' = mincut
  /\ stage' = "visit"
  /\ UNCHANGED <<pass, iter, where, pairvars, oldlb, rpass, ckrinfo, npwgts, ubvec, mincut>>
Foremost(i) == i \in DOMAIN cand /\ \A v \in DOMAIN cand : cand[v] <= cand[i]

\* The loads of two parts as IsHBalanceBetterFT and TT compare them: the larger of the two
\* constraints, in terms of ubvec, then the smaller.
Sorted2(x, y) == IF x > y THEN <<x, y>> ELSE <<y, x>>
Measure(l) == Sorted2(l[1] * ubvec[2], l[2] * ubvec[1])
Below(x, y) == x[1] < y[1] \/ (x[1] = y[1] /\ x[2] < y[2])

Fits(i, to) == \A h \in Con : 1000 * nparts * (npwgts[h][to] + NVwgt[h][i]) <= ubvec[h]
IsHBalanceBetterFT(i, from, to) ==
  Below(Measure([h \in Con |-> Larger(npwgts[h][from] - NVwgt[h][i], npwgts[h][to] + NVwgt[h][i])]),
        Measure([h \in Con |-> Larger(npwgts[h][from], npwgts[h][to])]))
IsHBalanceBetterTT(i, one, two) ==
  Below(Measure([h \in Con |-> npwgts[h][two] + NVwgt[h][i]]),
        Measure([h \in Con |-> npwgts[h][one] + NVwgt[h][i]]))

\* minwgt is ubvec * nparts: only a vertex without internal edges is ever looked at.
Held(i, from) ==
  /\ ckrinfo[i].id > 0
  /\ \A h \in Con : 1000 * (npwgts[h][from] - NVwgt[h][i]) <= ubvec[h] * nparts

\* The part to which i may go first, and a part that is taken instead of part k.
GainsOnly(i, from, to) == ckrinfo[i].nbr[to] >= ckrinfo[i].id
Eligible(i, from, to) ==
  /\ ckrinfo[i].nbr[to] >= ckrinfo[i].id
  /\ Fits(i, to) \/ IsHBalanceBetterFT(i, from, to)
Preferred(i, from, j, k) ==
  \/ /\ ckrinfo[i].nbr[j] > ckrinfo[i].nbr[k]
     /\ Fits(i, j) \/ IsHBalanceBetterFT(i, from, j)
  \/ /\ ckrinfo[i].nbr[j] = ckrinfo[i].nbr[k]
     /\ (Fits(i, j) /\ j = Home[i]) \/ IsHBalanceBetterTT(i, k, j)

\* The parts the scan of the list may end with, whatever the order of the list.
Scans(i, from) ==
  {FoldLeft(LAMBDA k, j : IF k = None THEN IF Eligible(i, from, j) THEN j ELSE None
                          ELSE IF Preferred(i, from, j, k) THEN j ELSE k, None, o) :
     o \in SetToSeqs(DOMAIN ckrinfo[i].nbr)} \ {None}

\* A move that gains nothing must bring i home or help the balance.
Worthwhile(i, from, to) ==
  \/ ckrinfo[i].nbr[to] # ckrinfo[i].id
  \/ to = Home[i]
  \/ IsHBalanceBetterFT(i, from, to)
  \/ \E h \in Con : 1000 * nparts * npwgts[h][from] > ubvec[h]

Goals(i) ==
  LET from == where[0][i] IN
  IF ckrinfo[i].ed < ckrinfo[i].id \/ Held(i, from) THEN {}
  ELSE {to \in Scans(i, from) : Worthwhile(i, from, to)}

\* Changes the degree into part a; a part of degree 0 leaves the list.
AddTo(nbr, a, w) ==
  LET deg == w + IF a \in DOMAIN nbr THEN nbr[a] ELSE 0 IN
  [b \in {x \in DOMAIN nbr \cup {a} : x # a \/ deg # 0} |-> IF b = a THEN deg ELSE nbr[b]]

MovedInfo(r, from, to) ==
  [id |-> r.nbr[to], ed |-> r.ed + r.id - r.nbr[to],
   nbr |-> AddTo(AddTo(r.nbr, to, -r.nbr[to]), from, r.id)]
NeighbourKept(r, me, from, to, w) ==
  [id  |-> r.id + (IF me = to THEN w ELSE IF me = from THEN -w ELSE 0),
   ed  |-> r.ed + (IF me = from THEN w ELSE IF me = to THEN -w ELSE 0),
   nbr |-> IF me # to THEN AddTo(r.nbr, to, w) ELSE r.nbr]
NeighbourInfo(r, me, from, to, w) ==
  LET less == IF me # from THEN AddTo(r.nbr, from, -w) ELSE r.nbr IN
  [id  |-> r.id + (IF me = to THEN w ELSE IF me = from THEN -w ELSE 0),
   ed  |-> r.ed + (IF me = from THEN w ELSE IF me = to THEN -w ELSE 0),
   nbr |-> IF me # to THEN AddTo(less, to, w) ELSE less]

Visit ==
  /\ stage = "visit"
  /\ \E i \in Vertex :
    /\ Foremost(i)
    /\ cand' = Restrict(cand, DOMAIN cand \ {i})
    /\ \/ Goals(i) = {} /\ UNCHANGED <<where, ckrinfo, npwgts, mincut>>
       \/ \E to \in Goals(i) : LET from == where[0][i] IN
            /\ where'   = [p \in PE |-> [where[p] EXCEPT ![i] = to]]
            /\ mincut'  = mincut - (ckrinfo[i].nbr[to] - ckrinfo[i].id)
            /\ npwgts'  = [h \in Con |-> [npwgts[h] EXCEPT ![to] = @ + NVwgt[h][i],
                                                          ![from] = @ - NVwgt[h][i]]]
            /\ ckrinfo' = [v \in Vertex |->
                 IF v = i THEN MovedInfo(ckrinfo[i], from, to)
                 ELSE IF v \in Adj[i]
                 THEN NeighbourInfo(ckrinfo[v], where[0][v], from, to, AdjWgt[{i, v}])
                 ELSE ckrinfo[v]]
  /\ UNCHANGED <<stage, pass, iter, pairvars, oldlb, rpass, ubvec, oldcut>>

EndVisits ==
  /\ stage = "visit" /\ DOMAIN cand = {}
  /\ stage' = IF mincut = oldcut \/ rpass + 1 = RefinePasses THEN "balance" ELSE "sort"
  /\ rpass' = rpass + 1
  /\ UNCHANGED <<pass, iter, where, pairvars, oldlb, cand, ckrinfo, npwgts, ubvec, mincut, oldcut>>

-----------------------------------------------------------------------------
\* The diffusion ends when nothing was swapped, when the balance has not improved or when
\* it is good enough.
lb == Total(Con, LAMBDA h : Max(Range(npwgts[h])))
BalanceEnds ==
  \/ lb >= Total(Con, LAMBDA h : oldlb[h])
  \/ 1000 * nparts * lb <= 2 * (Ub + 35) * Tvwgt(1)
alldone == tnswaps = 0 \/ BalanceEnds

EndPass ==
  /\ stage = "balance"
  /\ stage' = IF alldone \/ pass + 1 = npasses THEN "end" ELSE "flows"
  /\ pass' = pass + 1
  /\ UNCHANGED <<iter, where, pairvars, oldlb, refvars>>

Terminated == stage = "end" /\ UNCHANGED vars

Next ==
  \/ Flows \/ Match \/ Gather \/ (\E p \in PE : Divide(p))
  \/ ComputeParams \/ Sort \/ Visit \/ EndVisits \/ EndPass \/ Terminated

Spec == Init /\ [][Next]_vars

-----------------------------------------------------------------------------
\* After each exchange all PEs have the same partition, in which every pair is divided as
\* its PE has done it; else they would take different decisions and wait for each other in
\* different collectives.  A PE changes its own pair only, and finds the places of its
\* vertices in what it sends from the partition after the division, the receivers from
\* their own before it (mdiffusion.c:247, 256).
ExchangeKeepsDivisions ==
  [][stage = "swap" /\ stage' # "swap" =>
       \A q \in PE :
         /\ where'[q] = where'[0]
         /\ \A p \in PE, v \in Vertex :
              p < Len(pairs) /\ where[p][v] \in pairs[p + 1] => where'[q][v] = where[p][v]]_vars

\* The degrees, weights and the cut that the refinement corrects with each move are those
\* of the partition (serial.c:238-300).
SerialInfoExact ==
  stage \in {"sort", "visit", "balance"} =>
    /\ \A v \in Vertex : ckrinfo[v] = Degrees(where[0], v)
    /\ \A h \in Con : npwgts[h] = ComputeLoad(where[0], h)
    /\ mincut = EdgeCut(where[0])

\* The refinement lets no part grow beyond the limits it began with, in neither
\* constraint, although it accepts moves into parts that do not fit if the two constraints
\* together look better (serial.c:167, 203).
LimitsKept ==
  stage \in {"sort", "visit", "balance"} =>
    \A h \in Con, a \in Part : 1000 * nparts * npwgts[h][a] <= ubvec[h]
=============================================================================
