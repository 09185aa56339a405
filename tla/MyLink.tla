------------------------------- MODULE MyLink -------------------------------
(***************************************************************************)
(* BalanceMyLink of libparmetis/balancemylink.c, for two constraints: a PE *)
(* lets flows of both go between the parts me and you, vertex by vertex,   *)
(* and in each of its passes goes back to where the flows left were least. *)
(* The graph is that of the vertices of the two parts.  The queues hold    *)
(* the vertices of one part that are heavier under one constraint; which   *)
(* is taken next is chosen as in libparmetis/selectq.c.                    *)
(***************************************************************************)
EXTENDS DiffUtil

CONSTANTS
  me, you,
  vsize,
  ipc_factor, redist_factor,
  avgvwgt,            \* the flow that is too small to matter
  N_MOC_BAL_PASSES,   \* the most passes
  Flows               \* what may have to flow from me to you

Con == {1, 2}
PartsAssumption == {me, you} \subseteq Part /\ me # you

VARIABLES
  stage,      \* "fill", "move", "measure", "end"
  pass,
  where, degree,    \* degree[v]: its id and ed
  flows,      \* what has still to flow, as the function counts it
  start, given,     \* the partition and the flows the function was called with
  queued,     \* the vertices that have not been moved in this pass
  changes,    \* those moved since the best flow was met
  bestflow, nswaps,
  result      \* what the function returns in diff_cost and diff_lbavg

vars == <<stage, pass, where, degree, flows, start, given, queued, changes, bestflow, nswaps, result>>

Other(a) == IF a = me THEN you ELSE me
Abs(x) == IF x < 0 THEN -x ELSE x
Worst(fl) == Max({Abs(fl[h]) : h \in Con})

Weight(w, h) == Total({v \in Vertex : w[v] = me}, LAMBDA v : NVwgt[h][v])

Init ==
  /\ stage = "fill" /\ pass = 0 /\ nswaps = 0
  /\ start \in [Vertex -> {me, you}] /\ given \in Flows
  /\ where = start /\ flows = given
  /\ degree = [v \in Vertex |-> [id |-> Into(where, v, where[v]),
                                 ed |-> Into(where, v, Other(where[v]))]]
  /\ queued = {} /\ changes = {} /\ bestflow = 0 /\ result = <<>>

\* The key of v in its queue: what moving it saves.
Gain(v) ==
  ipc_factor * (degree[v].ed - degree[v].id)
    + IF Home[v] \notin {me, you} THEN 0
      ELSE IF where[v] = Home[v] THEN -redist_factor * vsize[v] ELSE redist_factor * vsize[v]

Fill ==
  /\ stage = "fill"
  /\ queued' = Vertex /\ changes' = {} /\ bestflow' = Worst(flows)
  /\ stage' = "move"
  /\ UNCHANGED <<pass, where, degree, flows, start, given, nswaps, result>>

\* Mc_HashVwgts, Mc_HashVRank: for two constraints, which of them is the larger.
Larger(x) == IF x[1] > x[2] THEN 1 ELSE 2

\* Mc_DynamicSelectQueue, for a given part: the vertices of from that are heavier under
\* the constraint of which more has to flow that way.
Sign(from) == IF from = me THEN 1 ELSE -1
Queue(from) == {v \in queued :
  /\ where[v] = from
  /\ Larger([h \in Con |-> NVwgt[h][v]]) = Larger([h \in Con |-> Sign(from) * flows[h]])}

\* It takes the part from which the larger flow goes, and the other when there is no such
\* vertex and something has to flow the other way.
Leading == IF Abs(flows[1]) > Abs(flows[2]) THEN 1 ELSE 2
From == {a \in {me, you} : Sign(a) * flows[Leading] > avgvwgt}
Candidates ==
  UNION {IF Queue(a) # {} THEN Queue(a)
         ELSE IF \E h \in Con : Sign(Other(a)) * flows[h] > avgvwgt THEN Queue(Other(a)) ELSE {} : a \in From}
Top == {v \in Candidates : \A u \in Candidates : Gain(u) <= Gain(v)}
More == Cardinality(Vertex \ queued) < nvtxs \div 2 /\ Candidates # {}

\* v goes to the other part; its degrees are swapped and those of its neighbours corrected.
SwappedAlone(g, v) ==
  [where  |-> [g.where EXCEPT ![v] = Other(@)],
   degree |-> [g.degree EXCEPT ![v] = [id |-> @.ed, ed |-> @.id]]]
Swapped(g, v) ==
  LET to == Other(g.where[v])
      tmp(u) == IF g.where[u] = to THEN AdjWgt[{u, v}] ELSE -AdjWgt[{u, v}]
  IN [where  |-> [g.where EXCEPT ![v] = to],
      degree |-> [u \in Vertex |->
        IF u = v THEN [id |-> g.degree[v].ed, ed |-> g.degree[v].id]
        ELSE IF u \in Adj[v]
        THEN [id |-> g.degree[u].id + tmp(u), ed |-> g.degree[u].ed - tmp(u)]
        ELSE g.degree[u]]]

\* The vertices to take back: none when the flows are the least so far.
ChangesAfterReset(v, least) == IF least < bestflow THEN {v} ELSE changes \cup {v}
Changes(v, least) == IF least < bestflow THEN {} ELSE changes \cup {v}

Move ==
  /\ stage = "move" /\ More
  /\ \E v \in Top :
       LET g == Swapped([where |-> where, degree |-> degree], v) IN
       /\ where' = g.where /\ degree' = g.degree
       /\ queued' = queued \ {v}
       /\ flows' = [h \in Con |-> flows[h] - Sign(where[v]) * NVwgt[h][v]]
       /\ changes' = Changes(v, Worst(flows'))
       /\ bestflow' = Min({bestflow, Worst(flows')})
  /\ nswaps' = nswaps + 1
  /\ UNCHANGED <<stage, pass, start, given, result>>

\* "now go back to best flow".
Count(n) == n - Cardinality(changes)
GoBack ==
  /\ stage = "move" /\ ~More
  /\ LET g == FoldSet(LAMBDA v, s : Swapped(s, v), [where |-> where, degree |-> degree], changes)
     IN where' = g.where /\ degree' = g.degree
  /\ nswaps' = Count(nswaps)
  /\ pass' = pass + 1
  /\ stage' = IF changes = Vertex \ queued \/ pass' = N_MOC_BAL_PASSES THEN "measure" ELSE "fill"
  /\ queued' = {} /\ changes' = {}
  /\ UNCHANGED <<flows, start, given, bestflow, result>>

\* The weights wanted of the two parts; none is less than zero.
Target(h) ==
  LET all == Tvwgt(h)
      mine == Weight(start, h) - given[h]
  IN Min({all, Max({0, mine})})
Cost(w) ==
  ipc_factor * EdgeCut(w)
    + redist_factor * Total({v \in Vertex : w[v] # Home[v]}, LAMBDA v : vsize[v])

\* The imbalance is in terms of half the weight of the two parts.
Measure ==
  /\ stage = "measure"
  /\ result' = [diff_cost |-> Cost(where),
                diff_lbavg |-> [h \in Con |-> Abs(Weight(where, h) - Target(h))]]
  /\ stage' = "end"
  /\ UNCHANGED <<pass, where, degree, flows, start, given, queued, changes, bestflow, nswaps>>

Terminated == stage = "end" /\ UNCHANGED vars

Next == Fill \/ Move \/ GoBack \/ Measure \/ Terminated
Spec == Init /\ [][Next]_vars

-----------------------------------------------------------------------------
\* What has still to flow, by the partition.
Remaining(w) == [h \in Con |-> given[h] - (Weight(start, h) - Weight(w, h))]

\* The gain a vertex is taken for is what its move saves of the cost by which the result
\* is judged, though degrees are only corrected from move to move and when moves are taken
\* back (balancemylink.c:253, 284).
GainsAreSavings ==
  \A v \in Vertex : Gain(v) = Cost(where) - Cost([where EXCEPT ![v] = Other(@)])

\* The first pass ends where the flows left are the least it has met, and no more than it
\* was given.  After every pass the number of swaps counts the moves that were kept: as many
\* as vertices have changed sides, but for those that went there and back in two passes
\* (balancemylink.c:239, 273).
BestPassKept ==
  stage \in {"fill", "measure"} =>
    LET changed == Cardinality({v \in Vertex : where[v] # start[v]})
    IN /\ pass = 1 => Worst(Remaining(where)) = bestflow /\ bestflow <= Worst(given)
       /\ changed <= nswaps /\ (nswaps - changed) % 2 = 0
=============================================================================
