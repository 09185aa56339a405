--------------------------- MODULE MCHaloExchange ---------------------------
(* A small instance of HaloExchange: a ring of three PEs, all neighbours.   *)
EXTENDS HaloExchange

RingVertex == 0..2
RingOwner  == [v \in RingVertex |-> v]
RingAdj    == [v \in RingVertex |-> RingVertex \ {v}]

\* Every exchange stores values never seen before, so a stale copy shows.
Words    == 0..MaxRound
AllZero  == [v \in Vertex |-> 0]
NewWords == [r \in 1..MaxRound |-> {r}]
=============================================================================
