------------------------------ MODULE Matching ------------------------------
(***************************************************************************)
(* The values of graph->match and what a matching must satisfy before      *)
(* CreateCoarseGraph_Global may contract it: the contract between the two  *)
(* halves of coarsening (libparmetis/match.c).  MatchGlobal is checked to  *)
(* end in such a matching and Coarsen starts from one.                     *)
(***************************************************************************)
EXTENDS Integers, FiniteSets, DistGraph

CONSTANT KeepBit   \* KEEP_BIT of parmetis.h, larger than every vertex

ASSUME VertexAssumption == Vertex \subseteq Nat
ASSUME KeepAssumption == KeepBit \in Nat /\ \A v \in Vertex : v < KeepBit

\* A value of match is the partner, plus KeepBit at the vertex whose PE keeps
\* the coarse vertex, or one of three marks.
UNMATCHED     == -1
MAYBE_MATCHED == -2
TOO_HEAVY     == -3

Matched(x) == x >= 0
Keeps(x)   == x >= KeepBit
Partner(x) == IF Keeps(x) THEN x - KeepBit ELSE x

Local(u, v) == Owner[u] = Owner[v]

\* m[v] is match of v at its owner when the matching is done: everybody is
\* matched, partners agree on each other, exactly one of them keeps the
\* coarse vertex (the smaller one of a local pair), remote partners are
\* adjacent, and every PE keeps something.
IsMatching(m) ==
  /\ \A v \in Vertex :
       LET u == Partner(m[v]) IN
       /\ Matched(m[v]) /\ u \in Vertex
       /\ Partner(m[u]) = v
       /\ u = v => Keeps(m[v])
       /\ u # v => Keeps(m[u]) = ~Keeps(m[v])
       /\ u # v /\ Local(u, v) => (Keeps(m[v]) <=> v < u)
       /\ ~Local(u, v) => u \in Adj[v]
  /\ \A p \in PE : Own(p) # {} => \E v \in Own(p) : Keeps(m[v])
=============================================================================
