-------------------------------- MODULE Wave --------------------------------
(***************************************************************************)
(* WavefrontDiffusion of libparmetis/wave.c, on one of the PEs that        *)
(* diffuse when there is one constraint: vertices move between adjacent    *)
(* parts along flows that would balance the load.  The PEs work on copies  *)
(* of their own and meet in two sums only, in which what the others add    *)
(* is any number.                                                          *)
(*                                                                         *)
(* The solution of the diffusion equation is an input (real arithmetic).   *)
(***************************************************************************)
EXTENDS DiffUtil, Sequences, TLC

CONSTANTS
  Mypes, npes,     \* the ranks this PE may have, of npes that diffuse
  NGD_PASSES,      \* at most so many passes (20 in the code)
  Ub,              \* the imbalance allowed, times 1000
  Wheres,          \* the partitions to start with
  Solutions        \* what the solver may return

VARIABLES
  stage,      \* "fill", "flow", "move", "reduce", "end"
  mype,
  l,          \* the pass
  where, psize, npwgts,
  ed,         \* ed[v]: the weight of the edges of v to other parts
  transfer,   \* what is still to flow
  tops,       \* the three parts with the highest loads when the pass began
  order,      \* the vertices of this pass still to be looked at
  nswaps

vars == <<stage, mype, l, where, psize, npwgts, ed, transfer, tops, order, nswaps>>

npasses == IF nparts \div 2 < NGD_PASSES THEN nparts \div 2 ELSE NGD_PASSES
flowFactor == CASE mype = 2 -> 50 [] mype = 3 -> 75 [] mype = 4 -> 100 [] OTHER -> 35

Sizes(w) == [a \in Part |-> Cardinality({v \in Vertex : w[v] = a})]

Init ==
  /\ stage = "fill" /\ l = 0 /\ nswaps = 0
  /\ mype \in Mypes
  /\ where \in Wheres /\ psize = Sizes(where)
  /\ npwgts = <<>> /\ ed = <<>> /\ transfer = <<>> /\ tops = {} /\ order = <<>>

maxd == CHOOSE a \in Part : \A b \in Part : psize[b] < psize[a] \/ (psize[b] = psize[a] /\ a <= b)
Empty == {a \in Part : psize[a] = 0}
Stuck == psize[maxd] = 1

\* Each empty part gets a vertex from the one that has most.
FillEmpty ==
  /\ stage = "fill" /\ Empty # {} /\ ~Stuck
  /\ \E k \in Vertex : LET mind == Min(Empty) IN
       /\ where[k] = maxd
       /\ where' = [where EXCEPT ![k] = mind]
       /\ psize' = [psize EXCEPT ![mind] = @ + 1, ![maxd] = @ - 1]
  /\ UNCHANGED <<stage, mype, l, npwgts, ed, transfer, tops, order, nswaps>>

ExternalDegree(w, v) == Total({u \in Adj[v] : w[u] # w[v]}, LAMBDA u : AdjWgt[{u, v}])

Start ==
  /\ stage = "fill" /\ (Empty = {} \/ Stuck)
  /\ ed' = [v \in Vertex |-> ExternalDegree(where, v)]
  /\ npwgts' = ComputeLoad(where, 1)
  /\ stage' = IF npasses = 0 THEN "end" ELSE "flow"
  /\ UNCHANGED <<mype, l, where, psize, transfer, tops, order, nswaps>>

-----------------------------------------------------------------------------
\* A part without a link stops the pass.
Connected == UNION ConnectGraph(where) = Part

\* GetThreeMax: of equal parts the first.
ThreeMax == {a \in Part : Cardinality({b \in Part :
               npwgts[b] > npwgts[a] \/ (npwgts[b] = npwgts[a] /\ b < a)}) < 3}

\* The third of the vertices that a pass looks at.  PE 0 takes those with the most
\* external edges, the others any, or first the ones that have left home.
clean(v) == where[v] = Home[v]
ByRank(o) == /\ \A i, j \in DOMAIN o : i < j => ed[o[i]] >= ed[o[j]]
             /\ \A v \in Vertex \ Range(o), i \in DOMAIN o : ed[o[i]] >= ed[v]
DirtyFirst(o) == \A i \in DOMAIN o : clean(o[i]) =>
                   /\ \A j \in DOMAIN o : i < j => clean(o[j])
                   /\ \A v \in Vertex \ Range(o) : clean(v)
Orders == {o \in [1..(nvtxs \div 3) -> Vertex] :
             /\ IsInjective(o)
             /\ IF mype = 0 THEN ByRank(o) ELSE l % 3 = 0 \/ DirtyFirst(o)}

SolveFlow ==
  /\ stage = "flow" /\ Connected
  /\ \E solution \in Solutions :
       transfer' = ComputeTransferVector(ConnectGraph(where), solution)
  /\ tops' = ThreeMax
  /\ order' \in Orders
  /\ nswaps' = 0
  /\ stage' = "move"
  /\ UNCHANGED <<mype, l, where, psize, npwgts, ed>>

Disconnected ==
  /\ stage = "flow" /\ ~Connected
  /\ nswaps' = 0
  /\ stage' = "reduce"
  /\ UNCHANGED <<mype, l, where, psize, npwgts, ed, transfer, tops, order>>

\* Neighbours' parts to which enough is still to flow from the part of i.
Downstream(i) ==
  LET from == where[i] IN
  {to \in {where[u] : u \in Adj[i]} \ {from} :
     /\ from \in tops \/ ~clean(i)
     /\ <<from, to>> \in DOMAIN transfer
     /\ 100 * transfer[<<from, to>>] > flowFactor * NVwgt[1][i]}

\* Where i may go: the last vertex of a part stays.
Goals(i) == IF psize[where[i]] = 1 THEN {} ELSE Downstream(i)

\* The external degrees when i has gone.
DegreesNoGain(i, from, to) ==
  [v \in Vertex |->
     IF v = i THEN Total({u \in Adj[i] : where[u] # to}, LAMBDA u : AdjWgt[{u, i}])
     ELSE ed[v] + (IF v \in Adj[i] /\ where[v] = from THEN AdjWgt[{v, i}] ELSE 0)]
Degrees(i, from, to) ==
  [v \in Vertex |->
     IF v = i THEN Total({u \in Adj[i] : where[u] # to}, LAMBDA u : AdjWgt[{u, i}])
     ELSE ed[v] + (IF v \in Adj[i] /\ where[v] = from THEN AdjWgt[{v, i}] ELSE 0)
                - (IF v \in Adj[i] /\ where[v] = to THEN AdjWgt[{v, i}] ELSE 0)]

Move ==
  /\ stage = "move" /\ order # <<>>
  /\ LET i == Head(order) IN
       \/ /\ Goals(i) = {}
          /\ UNCHANGED <<where, psize, npwgts, ed, transfer, nswaps>>
       \/ \E to \in Goals(i) : LET from == where[i] IN
            /\ where'    = [where EXCEPT ![i] = to]
            /\ psize'    = [psize EXCEPT ![to] = @ + 1, ![from] = @ - 1]
            /\ npwgts'   = [npwgts EXCEPT ![to] = @ + NVwgt[1][i], ![from] = @ - NVwgt[1][i]]
            /\ transfer' = [transfer EXCEPT ![<<from, to>>] = @ - NVwgt[1][i]]
            /\ ed'       = Degrees(i, from, to)
            /\ nswaps'   = nswaps + 1
  /\ order' = Tail(order)
  /\ UNCHANGED <<stage, mype, l, tops>>

EndMoves ==
  /\ stage = "move" /\ order = <<>>
  /\ transfer' = <<>> /\ tops' = {}
  /\ stage' = "reduce"
  /\ UNCHANGED <<mype, l, where, psize, npwgts, ed, order, nswaps>>

\* After every other pass the PEs sum up who is done and who has not moved anything.
done == 1000 * nparts * Max(Range(npwgts)) < (Ub + 35) * Tvwgt(1)
Reduce ==
  /\ stage = "reduce"
  /\ \E odone, onoswaps \in 0..(npes - 1) :
       LET leave == /\ l % 2 = 1
                    /\ \/ (IF done THEN 1 ELSE 0) + odone > 0
                       \/ (IF nswaps > 0 THEN 0 ELSE 1) + onoswaps > npes \div 2
       IN /\ stage' = IF leave \/ l + 1 = npasses THEN "end" ELSE "flow"
          /\ l' = IF leave THEN l ELSE l + 1
  /\ UNCHANGED <<mype, where, psize, npwgts, ed, transfer, tops, order, nswaps>>

Terminated == stage = "end" /\ UNCHANGED vars

Next == FillEmpty \/ Start \/ SolveFlow \/ Disconnected \/ Move \/ EndMoves \/ Reduce \/ Terminated

Spec == Init /\ [][Next]_vars

-----------------------------------------------------------------------------
\* The sizes, weights and external degrees that are corrected with each move are those
\* of the partition (wave.c:204-220).
BookkeepingExact ==
  stage # "fill" =>
    /\ psize = Sizes(where) /\ npwgts = ComputeLoad(where, 1)
    /\ \A v \in Vertex : ed[v] = ExternalDegree(where, v)

\* The diffusion leaves no part empty when there are enough vertices (wave.c:91, 186).
NoPartEmptied == stage # "fill" /\ nvtxs >= nparts => Range(where) = Part
=============================================================================
