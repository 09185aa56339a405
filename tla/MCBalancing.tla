---------------------------- MODULE MCBalancing ----------------------------
(* The diffusions that Balance_Partition calls, one in each behaviour.       *)
(* Diffusion: two PEs and four parts of a graph of four vertices, a ring and *)
(* a chord; nothing flows over some links.                                   *)
(* Wave: a grid of two rows of three, and a vertex with no edge, in four     *)
(* parts; some partitions leave parts empty, some have a part without a link.*)
(* MyLink: six vertices, a ring with a chord; one is of a third part.        *)
EXTENDS Integers

Potential(s) == [a \in 0..3 |-> s[a + 1]]

-----------------------------------------------------------------------------
VARIABLES stage, pass, iter, where, links, transfer, gvisited, visited, pairs, busy, unpack,
          sbuffer, nswaps, tnswaps, oldlb, rpass, cand, ckrinfo, npwgts, ubvec, mincut, oldcut

DEdge   == {{0, 1}, {1, 2}, {2, 3}, {0, 3}, {0, 2}}
DHome   == [v \in 0..3 |-> v]
DWheres == {DHome, [DHome EXCEPT ![0] = 1], [DHome EXCEPT ![2] = 0]}

D == INSTANCE Diffusion WITH
  nvtxs <- 4, nparts <- 4, Edge <- DEdge, Home <- DHome, npes <- 2, NGD_PASSES <- 1,
  npasses <- 2, RefinePasses <- 2, MaxSwaps <- 1, Ub <- 1050,
  AdjWgt <- [e \in DEdge |-> IF e \in {{1, 2}, {0, 3}} THEN 2 ELSE 1],
  NVwgt <- <<[v \in 0..3 |-> IF v = 0 THEN 3 ELSE 1], [v \in 0..3 |-> IF v \in {0, 3} THEN 1 ELSE 2]>>,
  Wheres <- DWheres,
  Solutions <- {<<Potential(<<2, 1, 0, 0>>), Potential(<<0, 0, 1, 1>>)>>,
                <<Potential(<<1, 1, 1, 0>>), Potential(<<1, 1, 1, 0>>)>>}

-----------------------------------------------------------------------------
VARIABLES wstage, wmype, wl, wwhere, wpsize, wnpwgts, wed, wtransfer, wtops, worder, wnswaps

WEdge   == {{0, 1}, {1, 2}, {3, 4}, {4, 5}, {0, 3}, {1, 4}, {2, 5}}
WWheres == {f \in [0..6 -> 0..3] : f[0] = 0 /\ f[1] = 0 /\ f[3] # 2 /\ f[5] = 1 /\ f[6] \in {0, 3}}

W == INSTANCE Wave WITH
  nvtxs <- 7, nparts <- 4, Edge <- WEdge, npes <- 5, NGD_PASSES <- 20, Ub <- 1050,
  AdjWgt <- [e \in WEdge |-> IF e \in {{1, 2}, {1, 4}} THEN 2 ELSE 1],
  NVwgt <- <<[v \in 0..6 |-> IF v \in {2, 4} THEN 2 ELSE 1]>>,
  Home <- [v \in 0..6 |-> v % 4], Mypes <- {0, 1, 4}, Wheres <- WWheres,
  Solutions <- {Potential(<<3, 2, 0, 0>>), Potential(<<2, 2, 0, 3>>), Potential(<<0, 0, 3, 1>>)},
  stage <- wstage, mype <- wmype, l <- wl, where <- wwhere, psize <- wpsize,
  npwgts <- wnpwgts, ed <- wed, transfer <- wtransfer, tops <- wtops, order <- worder,
  nswaps <- wnswaps

-----------------------------------------------------------------------------
VARIABLES lstage, lpass, lwhere, ldegree, lflows, lstart, lgiven, lqueued, lchanges,
          lbestflow, lnswaps, lresult

LFlows == {-3, 0, 2, 5} \X {-4, -1, 3}
LEdge == {{0, 1}, {1, 2}, {2, 3}, {3, 4}, {4, 5}, {0, 5}, {1, 4}}

L == INSTANCE MyLink WITH
  nvtxs <- 6, nparts <- 3, Edge <- LEdge, me <- 0, you <- 1,
  AdjWgt <- [e \in LEdge |-> IF e \in {{0, 5}, {1, 4}} THEN 2 ELSE 1],
  NVwgt <- <<[v \in 0..5 |-> <<3, 1, 2, 1, 1, 3>>[v + 1]], [v \in 0..5 |-> <<1, 2, 2, 3, 1, 1>>[v + 1]]>>,
  Home <- [v \in 0..5 |-> <<0, 0, 1, 1, 2, 0>>[v + 1]], vsize <- [v \in 0..5 |-> 1 + (v % 2)],
  ipc_factor <- 2, redist_factor <- 3, avgvwgt <- 1, N_MOC_BAL_PASSES <- 4,
  Flows <- LFlows,
  stage <- lstage, pass <- lpass, where <- lwhere, degree <- ldegree, flows <- lflows,
  start <- lstart, given <- lgiven, queued <- lqueued, changes <- lchanges,
  bestflow <- lbestflow, nswaps <- lnswaps, result <- lresult

ASSUME D!GraphAssumption /\ D!TotalsAssumption
ASSUME W!GraphAssumption
ASSUME L!GraphAssumption /\ L!PartsAssumption

-----------------------------------------------------------------------------
\* Which of them is called; the others stay at one of their initial states.
VARIABLE call

Of(name, inputs, idle) == IF call = name THEN inputs ELSE {idle}

MCInit ==
  /\ call \in {"Wave", "Diffusion", "MyLink"}
  /\ wwhere \in Of("Wave", WWheres, CHOOSE w \in WWheres : TRUE)
  /\ wmype \in Of("Wave", {0, 1, 4}, 0)
  /\ lstart \in Of("MyLink", [0..5 -> {0, 1}], [v \in 0..5 |-> v % 2])
  /\ lgiven \in Of("MyLink", LFlows, <<0, 3>>)
  /\ D!Init /\ where[0] \in Of("Diffusion", DWheres, DHome)
  /\ W!Init /\ L!Init

dvars == <<stage, pass, iter, where, links, transfer, gvisited, visited, pairs, busy, unpack,
           sbuffer, nswaps, tnswaps, oldlb, rpass, cand, ckrinfo, npwgts, ubvec, mincut, oldcut>>
wvars == <<wstage, wmype, wl, wwhere, wpsize, wnpwgts, wed, wtransfer, wtops, worder, wnswaps>>
lvars == <<lstage, lpass, lwhere, ldegree, lflows, lstart, lgiven, lqueued, lchanges,
           lbestflow, lnswaps, lresult>>

MCNext ==
  \/ call = "Wave" /\ W!Next /\ UNCHANGED <<call, dvars, lvars>>
  \/ call = "MyLink" /\ L!Next /\ UNCHANGED <<call, dvars, wvars>>
  \/ call = "Diffusion" /\ D!Next /\ UNCHANGED <<call, wvars, lvars>>

MCSpec == MCInit /\ [][MCNext]_<<call, dvars, wvars, lvars>>

-----------------------------------------------------------------------------
\* WavefrontDiffusion: what it corrects with each move is exact, and no part ends empty.
BookkeepingExact == W!BookkeepingExact
NoPartEmptied == W!NoPartEmptied

\* Mc_Diffusion: what its refinement corrects with each move is exact, no part grows beyond
\* its limits, and the PEs agree after each exchange on what each has done.
SerialInfoExact == D!SerialInfoExact
LimitsKept == D!LimitsKept
ExchangeKeepsDivisions == D!ExchangeKeepsDivisions

\* BalanceMyLink: the gains are what moves save, and a pass keeps its best flows.
GainsAreSavings == L!GainsAreSavings
BestPassKept == L!BestPassKept
=============================================================================
