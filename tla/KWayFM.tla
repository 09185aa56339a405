------------------------------- MODULE KWayFM -------------------------------
(***************************************************************************)
(* K-way refinement for one balance constraint: ComputePartitionParams,    *)
(* KWayFM and KWayBalance of libparmetis/kwayrefine.c and                  *)
(* KWayAdaptiveRefine of libparmetis/akwayfm.c, in the orders in which the *)
(* drivers call them.  In each pass and for each of two directions every   *)
(* PE first moves its own vertices tentatively, with its ghosts as they    *)
(* were and with part weights that include its own moves only.  The PEs    *)
(* then sum up what the weights would be, undo part of the moves into      *)
(* parts that would become too heavy (KWayBalance does neither), commit    *)
(* the rest, tell each other what moved and whose degrees have to be       *)
(* recomputed, and recompute them.                                         *)
(*                                                                         *)
(* The three functions are copies of one skeleton.  Where they do the same *)
(* they share an operator here; each has actions of its own that say which *)
(* vertices it moves where, and which part of the skeleton it leaves out.  *)
(*                                                                         *)
(* The reductions and broadcasts are barriers: each is one joint step.     *)
(***************************************************************************)
EXTENDS Integers, Sequences, SequencesExt, PointToPoint

CONSTANTS
  VWgt,      \* VWgt[v]: vertex weight
  AdjWgt,    \* AdjWgt[u][v]: edge weight
  Parts,     \* the partition numbers
  Target,    \* Target[a]: tpwgts of part a, in the unit of VWgt
  Ub,        \* ubvec in percent
  Level,     \* graph->level
  Starts,    \* the calls: the partition projection leaves in "where" and
             \* the refiners the driver runs on it in "program"
  npasses,   \* NGR_PASSES
  IpcFactor, RedistFactor,  \* ctrl->ipc_factor, ctrl->redist_factor
  VSize,     \* VSize[v]: graph->vsize, what it costs to move v
  Home,      \* Home[v]: graph->home, the part v's data are in
  Coupled    \* ps_relation is PARMETIS_PSR_COUPLED: PE p's data are in part p

ASSUME WeightAssumption == \A v \in Vertex : VWgt[v] \in Nat \ {0} /\ \A u \in Adj[v] :
                             AdjWgt[u][v] \in Nat \ {0} /\ AdjWgt[u][v] = AdjWgt[v][u]
ASSUME NumberAssumption == Vertex \subseteq Int
\* No loops: contraction drops them, and the callers' lists have none.
ASSUME LoopAssumption == \A v \in Vertex : v \notin Adj[v]
ASSUME PassesAssumption == npasses \in Nat \ {0}
\* Global_Partition runs KWayFM.  Adaptive_Partition runs KWayAdaptiveRefine,
\* and before it KWayBalance when no coarsening took place.
Programs == {<<"KWayFM">>, <<"KWayAdaptiveRefine">>, <<"KWayBalance", "KWayAdaptiveRefine">>}
ASSUME TargetAssumption == Ub \in Nat /\ Target \in [Parts -> Nat]
ASSUME FactorAssumption == IpcFactor \in Nat /\ RedistFactor \in Nat /\ VSize \in [Vertex -> Nat]
ASSUME StartsAssumption == Starts \subseteq [where : [Vertex -> Parts], program : Programs]

VARIABLES
  program,     \* the refiners still to run, the first one running
  pc,          \* the phase a PE is in
  pass, c,     \* pass and direction, the same on all PEs
  pperm,       \* the order of the parts PE 0 has broadcast
  imbalanced,  \* whether some part is too heavy, the same on all PEs
  where,       \* where[p][v] for p's own vertices and ghosts
  tmp_where,   \* tmp_where[p][v] for p's own vertices
  ckrinfo,     \* ckrinfo[v]: internal degree, external degree and degree into
               \* each neighbouring part
  todo,        \* own vertices that have not been visited (the rest of perm)
  dirty,       \* own vertices that KWayAdaptiveRefine visits first in this pass
  moved,       \* own vertices moved tentatively, in order
  lnpwgts,     \* lnpwgts[p][a]: weight of p's own vertices in part a
  gnpwgts,     \* gnpwgts[p][a]: p's idea of the weight of part a
  ognpwgts,    \* gnpwgts at the beginning of the direction
  movewgts,    \* movewgts[p][a]: what p's moves add to part a
  pgnpwgts,    \* the weights if all moves were committed
  update,      \* own vertices whose ckrinfo is to be recomputed
  supdate,     \* ghosts whose owners have to recompute ckrinfo
  oldEDs,      \* oldEDs[v]: the external degree lmincut counts for v
  lmincut, mincut, oldcut,
  chan

vars == <<program, pc, pass, c, pperm, imbalanced, where, tmp_where, ckrinfo, todo, dirty,
          moved, lnpwgts, gnpwgts, ognpwgts, movewgts, pgnpwgts, update, supdate, oldEDs, lmincut, mincut,
          oldcut, chan>>

\* The degrees of v in the partition w.
Degrees(v, w) ==
  LET Into(a) == SumFunctionOnSet(AdjWgt[v], {u \in Adj[v] : w[u] = a}) IN
  [id  |-> Into(w[v]),
   ed  |-> SumFunctionOnSet(AdjWgt[v], {u \in Adj[v] : w[u] # w[v]}),
   nbr |-> [a \in {w[u] : u \in Adj[v]} \ {w[v]} |-> Into(a)]]

\* Weight of part a within S.
PartWeight(S, w, a) == SumFunctionOnSet(VWgt, {v \in S : w[v] = a})

\* Too heavy for part a.
badmax(a, wgt) == wgt * 100 > Ub * Target[a]

\* ComputePartitionParams: exchange where, compute degrees, weights and cut.
Init ==
  \E start \in Starts : LET w == start.where IN
    /\ program = start.program
    /\ pc = [p \in PE |-> "start"] /\ pass = 0 /\ c = 0
    /\ pperm = [a \in Parts |-> 0] /\ imbalanced = FALSE
    /\ where = [p \in PE |-> [v \in Own(p) \cup Ghosts(p) |-> w[v]]]
    /\ tmp_where = [p \in PE |-> [v \in Own(p) |-> w[v]]]
    /\ ckrinfo = [v \in Vertex |-> Degrees(v, w)]
    /\ oldEDs = [v \in Vertex |-> Degrees(v, w).ed]
    /\ lnpwgts = [p \in PE |-> [a \in Parts |-> PartWeight(Own(p), w, a)]]
    /\ gnpwgts = [p \in PE |-> [a \in Parts |-> PartWeight(Vertex, w, a)]]
    /\ ognpwgts = gnpwgts /\ pgnpwgts = gnpwgts[0]
    /\ movewgts = [p \in PE |-> [a \in Parts |-> 0]]
    /\ lmincut = [p \in PE |-> SumFunction([v \in Own(p) |-> Degrees(v, w).ed])]
    /\ mincut = SumFunction(lmincut) \div 2
    /\ oldcut = 0
    /\ todo = [p \in PE |-> {}] /\ moved = [p \in PE |-> <<>>]
    /\ dirty = [p \in PE |-> {}]
    /\ update = [p \in PE |-> {}] /\ supdate = [p \in PE |-> {}]
    /\ chan = NoMessages

refiner == Head(program)

\* A direction begins: all own vertices are to be visited.
BeginDirection(gn) ==
  /\ ognpwgts' = gn
  /\ movewgts' = [p \in PE |-> [a \in Parts |-> 0]]
  /\ moved' = [p \in PE |-> <<>>]
  /\ todo' = [p \in PE |-> Own(p)]
  /\ pc' = [p \in PE |-> "one"]

\* ComputeParallelBalance: the least vertex weight is added to avoid empty
\* targets.
Imbalanced ==
  LET least == CHOOSE x \in {VWgt[v] : v \in Vertex} : \A v \in Vertex : x <= VWgt[v]
      w == [v \in Vertex |-> where[Owner[v]][v]]
  IN  \E a \in Parts : (least + PartWeight(Vertex, w, a)) * 100 > Ub * (least + Target[a])

\* KWayAdaptiveRefine puts its own vertices that are in other parts in front.
Dirty(p) == IF refiner = "KWayAdaptiveRefine" THEN {v \in Own(p) : where[p][v] # p} ELSE {}

\* Head of the pass loop: PE 0 broadcasts a random order of the parts.
StartPass ==
  /\ \A p \in PE : pc[p] = "start"
  /\ pperm' \in {f \in [Parts -> 1..Cardinality(Parts)] : IsInjective(f)}
  /\ imbalanced' = Imbalanced
  /\ oldcut' = mincut
  /\ c' = 0
  /\ BeginDirection(gnpwgts)
  /\ dirty' = [p \in PE |-> Dirty(p)]
  /\ UNCHANGED <<program, pass, where, tmp_where, ckrinfo, lnpwgts, gnpwgts, pgnpwgts, update,
                 supdate, oldEDs, lmincut, mincut, chan>>

-----------------------------------------------------------------------------
\* Pass one.

ProperSide(from, to) == IF c = 0 THEN pperm[from] < pperm[to] ELSE pperm[from] > pperm[to]

\* The place of the next vertex in perm.
iii(p) == Cardinality(Own(p)) - Cardinality(todo[p])

Larger(x, y) == IF x > y THEN x ELSE y
IsHBalanceBetterFT(from, to, w) == Larger(from - w, to + w) < Larger(from, to)
IsHBalanceBetterTT(one, two) == two < one

\* Vertices that are not looked at: a part is not emptied, and only vertices
\* at the border move.
Alone(p, v) == VWgt[v] = gnpwgts[p][tmp_where[p][v]]

CandidatesAnyWeight(p, v) == {a \in DOMAIN ckrinfo[v].nbr : ProperSide(tmp_where[p][v], a)}

\* The parts v may go to in this direction without making them too heavy.
Candidates(p, v) ==
  {a \in DOMAIN ckrinfo[v].nbr : /\ ProperSide(tmp_where[p][v], a)
                                 /\ ~badmax(a, gnpwgts[p][a] + VWgt[v])}

\* Of parts with these gains, those a loop over the list may end with: the
\* largest gain, then the lighter part; the rest is the order of the list.
Best(p, gain) ==
  {a \in DOMAIN gain : \A b \in DOMAIN gain :
     gain[a] > gain[b] \/ (gain[a] = gain[b] /\ ~IsHBalanceBetterTT(gnpwgts[p][a], gnpwgts[p][b]))}

\* A move is made when it gains, or when it is free and improves the balance.
Worthwhile(p, v, gain, to) ==
  \/ gain > 0
  \/ /\ gain = 0
     /\ imbalanced \/ Level > 3 \/ iii(p) % 8 = 0
     /\ IsHBalanceBetterFT(gnpwgts[p][tmp_where[p][v]], gnpwgts[p][to], VWgt[v])

\* Where KWayFM moves v to, or {} if it stays.
FMGoals(p, v) ==
  LET gain == [a \in Candidates(p, v) |-> ckrinfo[v].nbr[a] - ckrinfo[v].id] IN
  IF Alone(p, v) \/ ckrinfo[v].ed = 0 \/ ckrinfo[v].ed < ckrinfo[v].id THEN {}
  ELSE {to \in Best(p, gain) : Worthwhile(p, v, gain[to], to)}

\* Where KWayBalance moves v to: the lightest part with which the balance
\* improves, for one vertex in npes.
BalanceGoals(p, v) ==
  LET from   == tmp_where[p][v]
      better == {a \in DOMAIN ckrinfo[v].nbr :
                   /\ ProperSide(from, a)
                   /\ IsHBalanceBetterFT(gnpwgts[p][from], gnpwgts[p][a], VWgt[v])}
  IN  IF \/ Alone(p, v) \/ ckrinfo[v].ed = 0 \/ ckrinfo[v].ed < ckrinfo[v].id
         \/ iii(p) % npes # 0
      THEN {}
      ELSE Best(p, [a \in better |-> 0])

\* Whether v's data are where part a is.
AtHome(p, v, a) == a = IF Coupled THEN p ELSE Home[v]

AdaptiveGainOfCut(p, v, a) == ckrinfo[v].nbr[a] - ckrinfo[v].id

\* What KWayAdaptiveRefine weighs: the cut and the data that has to move.
AdaptiveGain(p, v, a) ==
  LET redist == RedistFactor * VSize[v] IN
    IpcFactor * (ckrinfo[v].nbr[a] - ckrinfo[v].id)
    + (IF AtHome(p, v, a) THEN redist ELSE 0)
    - (IF AtHome(p, v, tmp_where[p][v]) THEN redist ELSE 0)

\* Where KWayAdaptiveRefine moves v to.
AdaptiveGoals(p, v) ==
  LET gain == [a \in Candidates(p, v) |-> AdaptiveGain(p, v, a)] IN
  IF Alone(p, v) \/ ckrinfo[v].ed = 0 THEN {}
  ELSE {to \in Best(p, gain) : Worthwhile(p, v, gain[to], to)}

\* Adds w to the degree into part a, or takes it away; a part of degree 0
\* leaves the list.
AddTo(nbr, a, w) ==
  LET deg == w + IF a \in DOMAIN nbr THEN nbr[a] ELSE 0 IN
  IF deg = 0 THEN [b \in DOMAIN nbr \ {a} |-> nbr[b]]
  ELSE [b \in DOMAIN nbr \cup {a} |-> IF b = a THEN deg ELSE nbr[b]]

\* The info of a vertex that moves between from and to.
MovedInfo(r, from, to) ==
  [id |-> r.nbr[to], ed |-> r.ed + r.id - r.nbr[to],
   nbr |-> AddTo(AddTo(r.nbr, to, -r.nbr[to]), from, r.id)]

\* The info of a local neighbour in part mine, over an edge of weight w.
NeighbourInfo(r, mine, from, to, w) ==
  [id  |-> r.id + (IF mine = to THEN w ELSE IF mine = from THEN -w ELSE 0),
   ed  |-> r.ed + (IF mine = from THEN w ELSE IF mine = to THEN -w ELSE 0),
   nbr |-> LET less == IF mine # from THEN AddTo(r.nbr, from, -w) ELSE r.nbr
           IN  IF mine # to THEN AddTo(less, to, w) ELSE less]

\* p's ckrinfo after its vertex v has gone from one part to another; ghosts
\* are not bothered about.
InfoAfter(info, p, tmp, v, from, to) ==
  [u \in Vertex |->
     IF u = v THEN MovedInfo(info[v], from, to)
     ELSE IF u \in Own(p) \cap Adj[v] THEN NeighbourInfo(info[u], tmp[u], from, to, AdjWgt[u][v])
     ELSE info[u]]

Shift(wgts, from, to, w) == [[wgts EXCEPT ![to] = @ + w] EXCEPT ![from] = @ - w]

\* v is visited: it is moved tentatively to one of the goals, if there is one.
Attempt(p, v, goals) ==
  /\ pc[p] = "one"
  /\ todo' = [todo EXCEPT ![p] = @ \ {v}]
  /\ \/ /\ goals = {}
        /\ UNCHANGED <<tmp_where, ckrinfo, moved, lnpwgts, gnpwgts, movewgts>>
     \/ \E to \in goals :
          LET from == tmp_where[p][v] IN
          /\ tmp_where' = [tmp_where EXCEPT ![p][v] = to]
          /\ ckrinfo' = InfoAfter(ckrinfo, p, tmp_where[p], v, from, to)
          /\ moved' = [moved EXCEPT ![p] = Append(@, v)]
          /\ lnpwgts' = [lnpwgts EXCEPT ![p] = Shift(@, from, to, VWgt[v])]
          /\ gnpwgts' = [gnpwgts EXCEPT ![p] = Shift(@, from, to, VWgt[v])]
          /\ movewgts' = [movewgts EXCEPT ![p] =
                IF refiner = "KWayBalance" THEN @ ELSE Shift(@, from, to, VWgt[v])]
  /\ UNCHANGED <<program, pc, pass, c, pperm, imbalanced, where, dirty, ognpwgts, pgnpwgts,
                 update, supdate, oldEDs, lmincut, mincut, oldcut, chan>>

FMVisit(p) == refiner = "KWayFM" /\ \E v \in todo[p] : Attempt(p, v, FMGoals(p, v))

BalanceVisit(p) == refiner = "KWayBalance" /\ \E v \in todo[p] : Attempt(p, v, BalanceGoals(p, v))

AdaptiveVisit(p) ==
  /\ refiner = "KWayAdaptiveRefine"
  /\ \E v \in IF todo[p] \cap dirty[p] # {} THEN todo[p] \cap dirty[p] ELSE todo[p] :
       Attempt(p, v, AdaptiveGoals(p, v))

\* MPI_Allreduce of lnpwgts: what the weights would be.
Sums ==
  /\ \A p \in PE : pc[p] = "one" /\ todo[p] = {}
  /\ pgnpwgts' = [a \in Parts |-> SumFunction([p \in PE |-> lnpwgts[p][a]])]
  /\ pc' = [p \in PE |-> "commit"]
  /\ UNCHANGED <<program, pass, c, pperm, imbalanced, where, tmp_where, ckrinfo, todo, dirty,
                 moved, lnpwgts, gnpwgts, ognpwgts, movewgts, update, supdate, oldEDs,
                 lmincut, mincut, oldcut, chan>>

FMReduce == refiner = "KWayFM" /\ Sums
AdaptiveReduce == refiner = "KWayAdaptiveRefine" /\ Sums

-----------------------------------------------------------------------------
\* overfill[a]: p's share of what part a would get beyond its limit, in
\* proportion to p's share of what it gets.  It is a fraction; the model keeps
\* it times Scale(p, a).
Growth(p, a) == pgnpwgts[a] - ognpwgts[p][a]
Scale(p, a)  == IF Growth(p, a) > 0 THEN 100 * Growth(p, a) ELSE 1
overfill(p)  == [a \in Parts |->
  IF Growth(p, a) > 0 /\ badmax(a, pgnpwgts[a])
  THEN (100 * pgnpwgts[a] - Ub * Target[a]) * movewgts[p][a] ELSE 0]

\* One tentative move is undone when its part is overfilled by more than a
\* quarter of the vertex and the old part is still adjacent.
UndoOne(p, st, v) ==
  LET to   == where[p][v]
      from == st.tmp[v]
      less == st.over[from] - VWgt[v] * Scale(p, from)
  IN  IF to \in DOMAIN st.info[v].nbr /\ 4 * st.over[from] > VWgt[v] * Scale(p, from)
      THEN [tmp  |-> [st.tmp EXCEPT ![v] = to],
            info |-> InfoAfter(st.info, p, st.tmp, v, from, to),
            lnp  |-> Shift(st.lnp, from, to, VWgt[v]),
            over |-> [st.over EXCEPT ![from] = Larger(less, 0)],
            kept |-> st.kept]
      ELSE [st EXCEPT !.kept = @ \cup {v}]

\* What is left of p's moves after the undo loop.
Undone(p) ==
  LET before == [tmp |-> tmp_where[p], info |-> ckrinfo, lnp |-> lnpwgts[p],
                 over |-> overfill(p), kept |-> {}]
  IN  IF \E a \in Parts : overfill(p)[a] > 0
      THEN FoldLeft(LAMBDA s, v : UndoOne(p, s, v), before, moved[p])
      ELSE [before EXCEPT !.kept = ToSet(moved[p])]

\* Pass two up to the messages of CommChangedInterfaceData: the vertices in
\* kept move, with tmp, info and lnp what remains of the tentative moves.
Announce(p, tmp, info, lnp, kept) ==
  LET touched == kept \cup UNION {Adj[v] : v \in kept}
      new == [v \in DOMAIN where[p] |-> IF v \in kept THEN tmp[v] ELSE where[p][v]]
  IN
  /\ tmp_where' = [tmp_where EXCEPT ![p] = tmp]
  /\ ckrinfo' = [v \in Vertex |-> IF v \in Own(p) THEN info[v] ELSE ckrinfo[v]]
  /\ lnpwgts' = [lnpwgts EXCEPT ![p] = lnp]
  /\ where' = [where EXCEPT ![p] = new]
  /\ update' = [update EXCEPT ![p] = touched \cap Own(p)]
  /\ supdate' = [supdate EXCEPT ![p] = touched \ Own(p)]
  /\ chan' = Post(chan, p, [q \in Nbrs(p) |-> [v \in Send(p, q) \cap kept |-> new[v]]])
  /\ pc' = [pc EXCEPT ![p] = "where"]
  /\ UNCHANGED <<program, pass, c, pperm, imbalanced, todo, dirty, moved, gnpwgts, ognpwgts,
                 movewgts, pgnpwgts, oldEDs, lmincut, mincut, oldcut>>

CommitUndone(p) ==
  /\ pc[p] = "commit"
  /\ \E st \in {Undone(p)} : Announce(p, st.tmp, st.info, st.lnp, st.kept)

FMCommit(p) == refiner = "KWayFM" /\ CommitUndone(p)
AdaptiveCommit(p) == refiner = "KWayAdaptiveRefine" /\ CommitUndone(p)

\* KWayBalance neither waits for the others nor takes moves back.
BalanceCommit(p) ==
  /\ refiner = "KWayBalance" /\ pc[p] = "one" /\ todo[p] = {}
  /\ Announce(p, tmp_where[p], ckrinfo, lnpwgts[p], ToSet(moved[p]))

AskNobody(p) ==
  /\ pc[p] = "where" /\ ArrivedFrom(chan, p, Nbrs(p))
  /\ where' = [where EXCEPT ![p] = Exchanged(chan, p, @)]
  /\ chan' = Post(Take(chan, p, Nbrs(p)), p, [q \in Nbrs(p) |-> {}])
  /\ supdate' = [supdate EXCEPT ![p] = {}]
  /\ pc' = [pc EXCEPT ![p] = "supdate"]
  /\ UNCHANGED <<program, pass, c, pperm, imbalanced, tmp_where, ckrinfo, todo, dirty, moved,
                 lnpwgts, gnpwgts, ognpwgts, movewgts, pgnpwgts, update, oldEDs, lmincut,
                 mincut, oldcut>>

\* The new where of the ghosts is in: ask the owners of the ghosts next to
\* moved vertices to recompute their degrees.
AskUpdates(p) ==
  /\ pc[p] = "where" /\ ArrivedFrom(chan, p, Nbrs(p))
  /\ where' = [where EXCEPT ![p] = Exchanged(chan, p, @)]
  /\ chan' = Post(Take(chan, p, Nbrs(p)), p, [q \in Nbrs(p) |-> supdate[p] \cap Own(q)])
  /\ supdate' = [supdate EXCEPT ![p] = {}]
  /\ pc' = [pc EXCEPT ![p] = "supdate"]
  /\ UNCHANGED <<program, pass, c, pperm, imbalanced, tmp_where, ckrinfo, todo, dirty, moved,
                 lnpwgts, gnpwgts, ognpwgts, movewgts, pgnpwgts, update, oldEDs, lmincut,
                 mincut, oldcut>>

\* Recompute the degrees of all vertices to be updated and correct lmincut.
Update(p) ==
  LET todate == update[p] \cup UNION {Head(chan[q][p]) : q \in Nbrs(p)} IN
  /\ pc[p] = "supdate" /\ ArrivedFrom(chan, p, Nbrs(p))
  /\ ckrinfo' = [v \in Vertex |-> IF v \in todate THEN Degrees(v, where[p]) ELSE ckrinfo[v]]
  /\ oldEDs' = [v \in Vertex |-> IF v \in todate THEN Degrees(v, where[p]).ed ELSE oldEDs[v]]
  /\ lmincut' = [lmincut EXCEPT ![p] =
                  @ + SumFunction([v \in todate |-> Degrees(v, where[p]).ed - oldEDs[v]])]
  /\ chan' = Take(chan, p, Nbrs(p))
  /\ update' = [update EXCEPT ![p] = {}]
  /\ pc' = [pc EXCEPT ![p] = "sum"]
  /\ UNCHANGED <<program, pass, c, pperm, imbalanced, where, tmp_where, todo, dirty, moved,
                 lnpwgts, gnpwgts, ognpwgts, movewgts, pgnpwgts, supdate, mincut, oldcut>>

\* MPI_Allreduce of lnpwgts: what SumUp finds.
Weights == [a \in Parts |-> SumFunction([q \in PE |-> lnpwgts[q][a]])]

\* MPI_Allreduce of lnpwgts, and of lmincut at the end of the pass: on to the
\* other direction, the next pass, the next refiner when nothing was gained,
\* or the end.  A refiner starts with the degrees and parts as they are.
NextDirection ==
  /\ (\A p \in PE : pc[p] = "sum") /\ c = 0
  /\ gnpwgts' = [p \in PE |-> Weights]
  /\ c' = 1
  /\ BeginDirection([p \in PE |-> Weights])
  /\ UNCHANGED <<program, pass, pperm, imbalanced, where, tmp_where, ckrinfo, dirty, lnpwgts,
                 pgnpwgts, update, supdate, oldEDs, lmincut, mincut, oldcut, chan>>

EndPass(passes) ==
  LET cut  == SumFunction(lmincut) \div 2
      last == cut = oldcut \/ pass + 1 = passes
  IN
  /\ (\A p \in PE : pc[p] = "sum") /\ c = 1
  /\ gnpwgts' = [p \in PE |-> Weights]
  /\ mincut' = cut
  /\ program' = IF last /\ Len(program) > 1 THEN Tail(program) ELSE program
  /\ pass' = IF last /\ Len(program) > 1 THEN 0 ELSE pass + 1
  /\ pc' = [p \in PE |-> IF last /\ Len(program) = 1 THEN "done" ELSE "start"]
  /\ UNCHANGED <<c, pperm, imbalanced, where, tmp_where, ckrinfo, todo, dirty, moved, lnpwgts,
                 ognpwgts, movewgts, pgnpwgts, update, supdate, oldEDs, lmincut, oldcut, chan>>

\* KWayBalance is called with as many passes as there are constraints.
FMEndPass       == refiner = "KWayFM" /\ EndPass(npasses)
BalanceEndPass  == refiner = "KWayBalance" /\ EndPass(1)
AdaptiveEndPass == refiner = "KWayAdaptiveRefine" /\ EndPass(npasses)

\* After a direction's moves, the same in all three functions.
Recompute(p) == AskUpdates(p) \/ Update(p)
FMRecompute(p)       == refiner = "KWayFM" /\ Recompute(p)
BalanceRecompute(p)  == refiner = "KWayBalance" /\ Recompute(p)
AdaptiveRecompute(p) == refiner = "KWayAdaptiveRefine" /\ Recompute(p)

FMStep(p)       == FMVisit(p) \/ FMCommit(p) \/ FMRecompute(p)
BalanceStep(p)  == BalanceVisit(p) \/ BalanceCommit(p) \/ BalanceRecompute(p)
AdaptiveStep(p) == AdaptiveVisit(p) \/ AdaptiveCommit(p) \/ AdaptiveRecompute(p)

Terminated == \A p \in PE : pc[p] = "done"

Next == \/ \E p \in PE : FMStep(p) \/ BalanceStep(p) \/ AdaptiveStep(p)
        \/ FMReduce \/ AdaptiveReduce
        \/ StartPass \/ NextDirection \/ FMEndPass \/ BalanceEndPass \/ AdaptiveEndPass
        \/ Terminated /\ UNCHANGED vars

Spec == Init /\ [][Next]_vars

-----------------------------------------------------------------------------
(* Properties *)

Current == [v \in Vertex |-> where[Owner[v]][v]]

\* Weight of a set of edges.
WeightOf(edges) == SumFunction([e \in edges |-> AdjWgt[e[1]][e[2]]])

\* Own vertices and ghosts lie in parts, degrees and part weights never go
\* below zero, and only ghosts' owners are asked for updates.
TypeOK ==
  /\ pc \in [PE -> {"start", "one", "commit", "where", "supdate", "sum", "done"}]
  /\ program \in Programs \cup {<<"KWayAdaptiveRefine">>} /\ pass \in 0..npasses /\ c \in {0, 1}
  /\ \A p \in PE :
       /\ where[p] \in [Own(p) \cup Ghosts(p) -> Parts]
       /\ tmp_where[p] \in [Own(p) -> Parts]
       /\ todo[p] \subseteq Own(p) /\ dirty[p] \subseteq Own(p) /\ moved[p] \in Seq(Own(p))
       /\ \A a \in Parts : lnpwgts[p][a] \in Nat /\ gnpwgts[p][a] \in Nat
       /\ update[p] \subseteq Own(p) /\ supdate[p] \subseteq Ghosts(p)
  /\ \A v \in Vertex : /\ ckrinfo[v].id \in Nat /\ ckrinfo[v].ed \in Nat
                       /\ DOMAIN ckrinfo[v].nbr \subseteq Parts

Tentative(p) == [v \in Own(p) \cup Ghosts(p) |->
                  IF v \in Own(p) THEN tmp_where[p][v] ELSE where[p][v]]

\* Between two directions everything the PEs keep incrementally is what it
\* would be if computed anew: ghosts, degrees of every vertex (also of those
\* whose moves were undone and of those next to a remote vertex that moved),
\* weights of the parts and the cut.  During pass one the degrees follow each
\* move of a PE's own vertices: they are those of the tentative partition with
\* the ghosts as last exchanged.
InfoExact ==
  /\ (\A p \in PE : pc[p] \in {"start", "done"} \/ (pc[p] = "one" /\ todo[p] = Own(p))) => \A p \in PE :
       /\ \A v \in Own(p) : ckrinfo[v] = Degrees(v, Current) /\ tmp_where[p][v] = Current[v]
       /\ lmincut[p] = SumFunction([v \in Own(p) |-> ckrinfo[v].ed])
       /\ \A v \in Ghosts(p) : where[p][v] = Current[v]
       /\ \A a \in Parts : gnpwgts[p][a] = PartWeight(Vertex, Current, a)
  /\ (\A p \in PE : pc[p] \in {"start", "done"}) =>
       mincut = WeightOf({e \in Vertex \X Vertex : e[1] < e[2] /\ e[1] \in Adj[e[2]]
                                                   /\ Current[e[1]] # Current[e[2]]})
  /\ \A p \in PE : pc[p] \in {"one", "commit"} =>
       \A v \in Own(p) : ckrinfo[v] = Degrees(v, Tentative(p))

\* The assertion before the undo loop: a part that is too heavy does not get
\* heavier by the moves of all PEs together, though each of them may move
\* vertices into it once it has moved enough out of it.
HeavyPartsNeverGrow == (\A p \in PE : pc[p] = "commit") =>
  \A p \in PE : \A a \in Parts : badmax(a, ognpwgts[p][a]) => pgnpwgts[a] <= ognpwgts[p][a]

SeenCut(p, w) == WeightOf({e \in Own(p) \X (Own(p) \cup Ghosts(p)) :
  e[1] \in Adj[e[2]] /\ w[e[1]] # w[e[2]] /\ (e[2] \in Own(p) => e[1] < e[2])})

Away(p, w) == SumFunctionOnSet(VSize, {v \in Own(p) : ~AtHome(p, v, w[v])})

\* What a refiner optimizes: the cut, and for KWayAdaptiveRefine also the
\* data away from home.
SeenCost(p, w) == IF refiner = "KWayAdaptiveRefine"
                  THEN IpcFactor * SeenCut(p, w) + RedistFactor * Away(p, w) ELSE SeenCut(p, w)

\* No PE's moves of pass one make the cost worse as far as it can see it,
\* whatever the order in which the moves change each other's gains.
\* KWayBalance does not promise it.
SeenCostNeverWorse == \A p \in PE : pc[p] \in {"one", "commit"} /\ refiner # "KWayBalance" =>
  SeenCost(p, Tentative(p)) <= SeenCost(p, where[p])
=============================================================================
