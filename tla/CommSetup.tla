----------------------------- MODULE CommSetup -----------------------------
(***************************************************************************)
(* CommSetup of libparmetis/comm.c: each PE finds the remote vertices its  *)
(* adjacency lists name, orders them, gives them local numbers after its   *)
(* own, and rewrites the lists in place; then the PEs tell each other what *)
(* they want to be sent, and where they will put it.  At the end of a call *)
(* FreeInitialGraphAndRemap (libparmetis/graph.c) gives the caller's lists *)
(* their global numbers back.                                              *)
(*                                                                         *)
(* Everything else in this project takes the result as given: module       *)
(* DistGraph says what it is, SetUpAgrees that this is what comes out.     *)
(* Arrays are sequences here, so that slot k of C is element k + 1; xadj   *)
(* is implicit, adjncy[p][i] being the list of p's i-th vertex.            *)
(***************************************************************************)
EXTENDS Integers, Sequences, SequencesExt

CONSTANTS
  npes,     \* number of PEs
  Vertex,   \* the vertices, 0..gnvtxs-1
  Inputs    \* the graphs and distributions callers may pass

VARIABLES
  pc,         \* the phase a PE is in
  vtxdist,    \* p's vertices are vtxdist[p]..vtxdist[p+1]-1
  input,      \* input[v]: the adjacency list the caller passed for v
  adjncy,     \* adjncy[p][i]: the caller's array as it is now
  graph,      \* graph[p]: the fields of graph_t that CommSetup sets up
  requests,   \* recvrequests[p][q]: how much p wants from q, and where to
  chan        \* the messages in flight

vars == <<pc, vtxdist, input, adjncy, graph, requests, chan>>

Owner == [v \in Vertex |-> CHOOSE p \in 0..(npes - 1) : vtxdist[p] <= v /\ v < vtxdist[p + 1]]
Adj   == [v \in Vertex |-> ToSet(input[v])]

\* What the other modules assume, for the graph at hand.
D == INSTANCE PointToPoint

PE == 0..(npes - 1)
nvtxs(p) == vtxdist[p + 1] - vtxdist[p]
Mine(p, v) == vtxdist[p] <= v /\ v < vtxdist[p + 1]
Ascending(S) == SetToSortSeq(S, <)

Init ==
  /\ pc = [p \in PE |-> "scan"]
  /\ \E x \in Inputs :
       /\ vtxdist = x.vtxdist /\ input = x.adj
       /\ adjncy = [p \in PE |-> [i \in 1..(x.vtxdist[p + 1] - x.vtxdist[p]) |-> x.adj[x.vtxdist[p] + i - 1]]]
  /\ graph = [p \in PE |-> <<>>]
  /\ requests = [p \in PE |-> [q \in PE |-> [key |-> 0, val |-> 0]]]
  /\ chan = D!NoMessages

\* First pass of the scan: swap each vertex without remote neighbours to the
\* end of the interior ones found so far.
Permuted(p) ==
  LET interior(i) == \A k \in DOMAIN adjncy[p][i + 1] : Mine(p, adjncy[p][i + 1][k])
      move(st, i) ==
        IF interior(i)
        THEN [lperm  |-> [st.lperm EXCEPT ![i + 1] = st.lperm[st.nlocal + 1], ![st.nlocal + 1] = i],
              nlocal |-> st.nlocal + 1]
        ELSE st
  IN  FoldLeft(move, [lperm |-> [i \in 1..nvtxs(p) |-> i - 1], nlocal |-> 0],
               [i \in 1..nvtxs(p) |-> i - 1])

\* The remote vertices of p's lists in ascending order, each once.
Remote(p) == Ascending({v \in Vertex : ~Mine(p, v) /\ \E i \in 1..nvtxs(p) : v \in ToSet(adjncy[p][i])})

\* The local number of v: its distance from firstvtx, or nvtxs plus its place
\* in recvind.
Localized(p, recvind, v) ==
  IF Mine(p, v) THEN v - vtxdist[p]
  ELSE nvtxs(p) + (CHOOSE k \in DOMAIN recvind : recvind[k] = v) - 1

\* What p will receive: recvind falls into one run for each neighbouring PE.
Scan(p) ==
  LET recvind == Remote(p)
      peind   == Ascending({q \in PE : \E k \in DOMAIN recvind : Mine(q, recvind[k])})
      upto(q) == Cardinality({k \in DOMAIN recvind : recvind[k] < vtxdist[q + 1]})
      recvptr == [k \in 1..(Len(peind) + 1) |-> IF k = 1 THEN 0 ELSE upto(peind[k - 1])]
  IN  /\ pc[p] = "scan"
      /\ adjncy' = [adjncy EXCEPT ![p] =
           [i \in DOMAIN @ |-> [k \in DOMAIN @[i] |-> Localized(p, recvind, @[i][k])]]]
      /\ graph' = [graph EXCEPT ![p] =
           [lperm |-> Permuted(p).lperm, nlocal |-> Permuted(p).nlocal,
            recvind |-> recvind, peind |-> peind, recvptr |-> recvptr]]
      /\ requests' = [requests EXCEPT ![p] = [q \in PE |->
           IF q \in ToSet(peind)
           THEN LET k == CHOOSE j \in DOMAIN peind : peind[j] = q
                IN  [key |-> recvptr[k + 1] - recvptr[k], val |-> nvtxs(p) + recvptr[k]]
           ELSE [key |-> 0, val |-> 0]]]
      /\ pc' = [pc EXCEPT ![p] = "asked"]
      /\ UNCHANGED <<vtxdist, input, chan>>

\* A slice of recvind: what p wants from its k-th neighbour.
Slice(g, k) == SubSeq(g.recvind, g.recvptr[k] + 1, g.recvptr[k + 1])

\* MPI_Alltoall of the requests.  Then each PE lays out sendptr and startsind
\* by the PEs that want something, which PASSERT wants to be as many as the
\* neighbours, and sends them the slices of recvind.
Alltoall ==
  LET askers(p) == Ascending({q \in PE : requests[q][p].key > 0}) IN
  /\ \A p \in PE : pc[p] = "asked" /\ Len(askers(p)) = Len(graph[p].peind)
  /\ graph' = [p \in PE |-> graph[p] @@
       [sendptr   |-> [k \in 1..(Len(askers(p)) + 1) |->
                        FoldLeft(LAMBDA s, q : s + requests[q][p].key, 0, SubSeq(askers(p), 1, k - 1))],
        startsind |-> [k \in DOMAIN askers(p) |-> requests[askers(p)[k]][p].val]]]
  /\ chan' = [p \in PE |-> [q \in PE |->
       IF q \in ToSet(graph[p].peind)
       THEN <<Slice(graph[p], CHOOSE k \in DOMAIN graph[p].peind : graph[p].peind[k] = q)>>
       ELSE <<>>]]
  /\ pc' = [p \in PE |-> "told"]
  /\ UNCHANGED <<vtxdist, input, adjncy, requests>>

\* For p's vertex v and each neighbour k that keeps a copy of it, the slot of
\* the copy there.
PeadjUnshifted(p, g, got, v) ==
  {[pe |-> k, loc |-> g.startsind[k]] : k \in {j \in DOMAIN g.peind : v \in ToSet(got[j])}}
Peadj(p, g, got, v) ==
  {[pe |-> k, loc |-> g.startsind[k] + (CHOOSE j \in DOMAIN got[k] : got[k][j] = v) - 1] :
     k \in {j \in DOMAIN g.peind : v \in ToSet(got[j])}}

\* The lists of all neighbours have arrived: sendind, the sparse exchange
\* arrays pexadj, peadjncy, peadjloc (peadj here), and imap.
Receive(p) ==
  LET g   == graph[p]
      got == [k \in DOMAIN g.peind |-> Head(chan[g.peind[k]][p])]
  IN  /\ pc[p] = "told" /\ D!ArrivedFrom(chan, p, ToSet(g.peind))
      /\ graph' = [graph EXCEPT ![p] = g @@
           [sendind |-> FlattenSeq(got),
            peadj   |-> [i \in 1..nvtxs(p) |-> Peadj(p, g, got, vtxdist[p] + i - 1)],
            imap    |-> [i \in 1..nvtxs(p) |-> vtxdist[p] + i - 1] \o g.recvind]]
      /\ chan' = D!Take(chan, p, ToSet(g.peind))
      /\ pc' = [pc EXCEPT ![p] = "done"]
      /\ UNCHANGED <<vtxdist, input, adjncy, requests>>

\* FreeInitialGraphAndRemap, at the end of the library call.
Remap(p) ==
  /\ pc[p] = "done"
  /\ adjncy' = [adjncy EXCEPT ![p] =
       [i \in DOMAIN @ |-> [k \in DOMAIN @[i] |-> graph[p].imap[@[i][k] + 1]]]]
  /\ graph' = [graph EXCEPT ![p] = <<>>]
  /\ pc' = [pc EXCEPT ![p] = "freed"]
  /\ UNCHANGED <<vtxdist, input, requests, chan>>

Step(p) == Scan(p) \/ Receive(p) \/ Remap(p)

Terminated == \A p \in PE : pc[p] = "freed"

Next == (\E p \in PE : Step(p)) \/ Alltoall \/ (Terminated /\ UNCHANGED vars)

Spec == Init /\ [][Next]_vars

-----------------------------------------------------------------------------
(* Properties *)

\* What p holds has the types its users expect.
TypeOK ==
  /\ pc \in [PE -> {"scan", "asked", "told", "done", "freed"}]
  /\ \A p \in PE : pc[p] \notin {"scan", "freed"} =>
       /\ graph[p].nlocal \in 0..nvtxs(p)
       /\ graph[p].lperm \in [1..nvtxs(p) -> 0..(nvtxs(p) - 1)]
       /\ graph[p].peind \in Seq(PE \ {p})
       /\ \A i \in 1..nvtxs(p) : adjncy[p][i] \in Seq(0..(nvtxs(p) + Len(graph[p].recvind) - 1))

\* A PE that is through has exactly the arrays the rest of the library and of
\* this project counts on (module DistGraph): neighbours and ghosts; a slice
\* of sendind for a neighbour is, in the same order, the neighbour's slice of
\* recvind for it; and peadjloc leads to the slot the neighbour's own imap
\* gives to the vertex.  lperm lists every own vertex once, the interior ones
\* first: the loops over the first nlocal ones never meet a ghost.
SetUpAgrees == \A p \in PE : pc[p] = "done" =>
  LET g == graph[p] IN
  /\ g.peind = Ascending(D!Nbrs(p))
  /\ ToSet(g.recvind) = D!Ghosts(p)
  /\ \A k \in DOMAIN g.peind :
       /\ Slice(g, k) = Ascending(D!Recv(p, g.peind[k]))
       /\ SubSeq(g.sendind, g.sendptr[k] + 1, g.sendptr[k + 1]) = Ascending(D!Send(p, g.peind[k]))
  /\ \A v \in D!Own(p) : LET copies == g.peadj[v - vtxdist[p] + 1] IN
       /\ {g.peind[x.pe] : x \in copies} = {q \in PE : v \in D!Ghosts(q)}
       /\ \A x \in copies : LET q == g.peind[x.pe] IN
            pc[q] = "done" => graph[q].imap[x.loc + 1] = v
  /\ IsInjective(g.lperm)
  /\ \A i \in 1..nvtxs(p) :
       (i <= g.nlocal) = (Adj[vtxdist[p] + g.lperm[i]] \subseteq D!Own(p))

\* The rewriting in place loses nothing: local numbers translate back to the
\* caller's, and after the call the caller has the lists it passed.
ListsComeBack == \A p \in PE : \A i \in 1..nvtxs(p) :
  /\ pc[p] = "done" => [k \in DOMAIN adjncy[p][i] |-> graph[p].imap[adjncy[p][i][k] + 1]] =
                         input[vtxdist[p] + i - 1]
  /\ pc[p] = "freed" => adjncy[p][i] = input[vtxdist[p] + i - 1]
=============================================================================
