------------------------------ MODULE DiffUtil ------------------------------
(***************************************************************************)
(* What both diffusions of Balance_Partition (libparmetis/initbalance.c)   *)
(* compute of the coarsest graph, of which every PE has a copy: the        *)
(* functions of libparmetis/diffutil.c.  Weights are integers: the reals   *)
(* of the code times the total weight, which all constraints share.        *)
(***************************************************************************)
EXTENDS Integers, FiniteSetsExt, Functions

CONSTANTS
  nvtxs, nparts,
  Edge,       \* the edges, as sets of two vertices
  AdjWgt,     \* AdjWgt[e]: the weight of edge e
  NVwgt,      \* NVwgt[h][v]: the weight of v under constraint h
  Home        \* Home[v]: the part v comes from

Vertex == 0..(nvtxs - 1)
Part   == 0..(nparts - 1)

\* A graph with positive weights, each vertex of which has a home; a module that gives the
\* constants their values assumes it.
GraphAssumption ==
  /\ Edge \subseteq {{u, v} : u, v \in Vertex} /\ \A e \in Edge : Cardinality(e) = 2
  /\ AdjWgt \in [Edge -> Nat \ {0}]
  /\ Home \in [Vertex -> Part]

Adj == [v \in Vertex |-> {u \in Vertex : {u, v} \in Edge}]
Total(S, f(_)) == FoldSet(LAMBDA x, s : s + f(x), 0, S)
Tvwgt(h) == Total(Vertex, LAMBDA v : NVwgt[h][v])

\* ComputeLoad, but for the target weight, which is the same for all parts.
ComputeLoad(w, h) == [a \in Part |-> Total({v \in Vertex : w[v] = a}, LAMBDA v : NVwgt[h][v])]

\* SetUpConnectGraph: the pairs of parts an edge goes between.
ConnectGraph(w) == {x \in {{w[v] : v \in e} : e \in Edge} : Cardinality(x) = 2}

\* ComputeTransferVector: what is to flow between linked parts, from the solution of the
\* diffusion equation (ConjGrad2).
ComputeTransferVector(links, solution) ==
  [f \in {<<a, b>> \in Part \X Part : {a, b} \in links} |->
     IF solution[f[1]] > solution[f[2]] THEN solution[f[1]] - solution[f[2]] ELSE 0]

\* The weight of the edges between v and part a.
Into(w, v, a) == Total({u \in Adj[v] : w[u] = a}, LAMBDA u : AdjWgt[{u, v}])
EdgeCut(w) == Total({e \in Edge : Cardinality({w[v] : v \in e}) = 2}, LAMBDA e : AdjWgt[e])
=============================================================================
