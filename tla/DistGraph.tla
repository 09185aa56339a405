----------------------------- MODULE DistGraph -----------------------------
(***************************************************************************)
(* A graph distributed over the PEs: the part of graph_t that CommSetup    *)
(* (libparmetis/comm.c) derives from vtxdist, xadj and adjncy and that the *)
(* parallel algorithms use.  Vertices go by their global number; module    *)
(* CommSetup models the local numbers and the arrays themselves.           *)
(***************************************************************************)
EXTENDS Integers, FiniteSets

CONSTANTS
  npes,      \* number of PEs (ctrl->npes)
  Vertex,    \* the global vertices
  Owner,     \* Owner[v] is the PE whose vtxdist block holds v
  Adj        \* Adj[v] is the set of the neighbours of v

PE == 0..(npes - 1)

ASSUME NpesAssumption == npes \in Nat \ {0}
ASSUME FiniteAssumption == IsFiniteSet(Vertex)
ASSUME OwnerAssumption == Owner \in [Vertex -> PE]
\* The graph is undirected: CommSetup's PASSERT(j == nnbrs) needs it.
ASSUME AdjAssumption == /\ Adj \in [Vertex -> SUBSET Vertex]
                        /\ \A u, v \in Vertex : u \in Adj[v] <=> v \in Adj[u]

\* The vertices of each PE.
owned == [p \in PE |-> {v \in Vertex : Owner[v] = p}]
Own(p) == owned[p]

\* The slice of p's recvind that belongs to q: q's vertices p keeps ghosts of.
recvind == [p \in PE |-> [q \in PE |->
             {v \in Own(q) : p # q /\ \E u \in Own(p) : u \in Adj[v]}]]
Recv(p, q) == recvind[p][q]

\* p's sendind slice for q is the recvind slice that q sent to p.
Send(p, q) == Recv(q, p)

\* The neighbouring PEs, and all remote vertices a PE keeps a copy of.
peind == [p \in PE |-> {q \in PE : Recv(p, q) # {}}]
Nbrs(p) == peind[p]
ghosts == [p \in PE |-> UNION {Recv(p, q) : q \in PE}]
Ghosts(p) == ghosts[p]
=============================================================================
