------------------------------ MODULE MoveGraph ------------------------------
(***************************************************************************)
(* MoveGraph and ProjectInfoBack of libparmetis/move.c: every vertex is    *)
(* sent to the PE that where names, under a new label that its old PE      *)
(* works out from prefix sums; the moved graph is partitioned or ordered;  *)
(* and the result comes back to the PE that had the vertex.  No vertex     *)
(* carries its old number, nor where it came from: both directions rely    *)
(* on the order of vertices in messages and of messages in arrays.         *)
(*                                                                         *)
(* Between the two functions PEs compute what they like about their moved  *)
(* vertices.  MPI_Scan, MPI_Allreduce and MPI_Alltoall are joint steps.    *)
(***************************************************************************)
EXTENDS Integers, Sequences, SequencesExt, PointToPoint

CONSTANTS
  VWgt,     \* VWgt[v]: vertex weight
  AdjWgt,   \* AdjWgt[u][v]: edge weight
  Wheres,   \* the partitions into npes parts
  Infos     \* what may be computed about a moved graph: functions on labels

ASSUME WheresAssumption == Wheres \subseteq [Vertex -> PE]

VARIABLES
  pc,         \* the phase a PE is in
  where,      \* where[v], at v's owner
  mvtxdist,   \* the distribution of the moved graph, the same on all PEs
  newlabel,   \* newlabel[p][v], for p's vertices and ghosts
  sinfo,      \* sinfo[p][q]: the vertices (key) and edges (val) p sends to q
  rinfo,      \* rinfo[p][q]: those p gets from q
  mgraph,     \* mgraph[p]: p's moved vertices: weight and adjacency list
  minfo,      \* minfo[p][k]: what has been computed for the k-th of them
  info,       \* info[p][v]: what came back for p's own vertex v
  chan        \* the messages in flight

vars == <<pc, where, mvtxdist, newlabel, sinfo, rinfo, mgraph, minfo, info, chan>>

Ascending(S) == SetToSortSeq(S, <)
Total(n, S)  == FoldSet(LAMBDA x, s : s + n[x], 0, S)

\* The vertices of p that go to q, in p's order.
Leaving(p, q) == Ascending({v \in Own(p) : where[v] = q})

Init ==
  /\ pc = [p \in PE |-> "scan"]
  /\ where \in Wheres
  /\ mvtxdist = <<>> /\ newlabel = [p \in PE |-> <<>>]
  /\ sinfo = [p \in PE |-> [q \in PE |-> [key |-> 0, val |-> 0]]] /\ rinfo = sinfo
  /\ mgraph = [p \in PE |-> <<>>] /\ minfo = [p \in PE |-> <<>>] /\ info = [p \in PE |-> <<>>]
  /\ chan = NoMessages

-----------------------------------------------------------------------------
\* lpwgts[p][q]: how many vertices of p go to q.
lpwgts == [p \in PE |-> [q \in PE |-> Len(Leaving(p, q))]]

MAKECSR(n) == [i \in 0..npes |-> Total(n, 0..(i - 1))]

MoveVtxdist == MAKECSR([q \in PE |-> Total([p \in PE |-> lpwgts[p][q]], PE)])

\* gpwgts(p, q): the first label of p's vertices in part q.  MPI_Scan includes
\* p's own count, which is taken off again.
gpwgtsUnscanned(p, q) == MoveVtxdist[q]
gpwgts(p, q) == MoveVtxdist[q] + Total([s \in PE |-> lpwgts[s][q]], 0..p) - lpwgts[p][q]

\* MPI_Scan and MPI_Allreduce of the counts, and the labels of own vertices.
Scan ==
  /\ \A p \in PE : pc[p] = "scan"
  /\ mvtxdist' = MoveVtxdist
  /\ newlabel' = [p \in PE |-> [v \in Own(p) \cup Ghosts(p) |->
       IF v \in Own(p)
       THEN gpwgts(p, where[v]) + Cardinality({u \in Own(p) : u < v /\ where[u] = where[v]})
       ELSE -1]]
  /\ sinfo' = [p \in PE |-> [q \in PE |->
       [key |-> lpwgts[p][q],
        val |-> Total([v \in Vertex |-> Cardinality(Adj[v])], ToSet(Leaving(p, q)))]]]
  /\ pc' = [p \in PE |-> "publish"]
  /\ UNCHANGED <<where, rinfo, mgraph, minfo, info, chan>>

\* CommInterfaceData of newlabel.
Publish(p) ==
  /\ pc[p] = "publish"
  /\ chan' = Post(chan, p, [q \in Nbrs(p) |-> [v \in Send(p, q) |-> newlabel[p][v]]])
  /\ pc' = [pc EXCEPT ![p] = "labels"]
  /\ UNCHANGED <<where, mvtxdist, newlabel, sinfo, rinfo, mgraph, minfo, info>>

Labels(p) ==
  /\ pc[p] = "labels"
  /\ ArrivedFrom(chan, p, Nbrs(p))
  /\ newlabel' = [newlabel EXCEPT ![p] = Exchanged(chan, p, @)]
  /\ chan' = Take(chan, p, Nbrs(p))
  /\ pc' = [pc EXCEPT ![p] = "tell"]
  /\ UNCHANGED <<where, mvtxdist, sinfo, rinfo, mgraph, minfo, info>>

\* MPI_Alltoall: all PEs learn what they will get from whom.
Tell ==
  /\ \A p \in PE : pc[p] = "tell"
  /\ rinfo' = [p \in PE |-> [q \in PE |-> sinfo[q][p]]]
  /\ pc' = [p \in PE |-> "ship"]
  /\ UNCHANGED <<where, mvtxdist, newlabel, sinfo, mgraph, minfo, info, chan>>

\* Whom p sends to and whom it waits for: only who has vertices for whom.
Receivers(p) == {q \in PE : sinfo[p][q].key > 0}
Senders(p)   == {q \in PE : rinfo[p][q].key > 0}

\* A vertex on its way: its weight and its neighbours' new labels.
Shipped(p, v) == [vwgt |-> VWgt[v], adj |-> [l \in {newlabel[p][u] : u \in Adj[v]} |->
                    AdjWgt[v][CHOOSE u \in Adj[v] : newlabel[p][u] = l]]]

Ship(p) ==
  /\ pc[p] = "ship"
  /\ chan' = Post(chan, p, [q \in Receivers(p) |->
       [i \in 1..sinfo[p][q].key |-> Shipped(p, Leaving(p, q)[i])]])
  /\ pc' = [pc EXCEPT ![p] = "unpack"]
  /\ UNCHANGED <<where, mvtxdist, newlabel, sinfo, rinfo, mgraph, minfo, info>>

\* rgraph: the regions of the senders, one after the other.
Regions(p, From) ==
  FlattenSeq([i \in 1..Cardinality(From) |-> Head(chan[Ascending(From)[i]][p])])

\* The moved graph, and whatever is computed about it.
Unpack(p) ==
  /\ pc[p] = "unpack"
  /\ ArrivedFrom(chan, p, Senders(p))
  /\ mgraph' = [mgraph EXCEPT ![p] = Regions(p, Senders(p))]
  /\ chan' = Take(chan, p, Senders(p))
  /\ \E f \in Infos : minfo' = [minfo EXCEPT ![p] =
       [k \in 1..Len(mgraph'[p]) |-> f[mvtxdist[p] + k - 1]]]
  /\ pc' = [pc EXCEPT ![p] = "transpose"]
  /\ UNCHANGED <<where, mvtxdist, newlabel, sinfo, rinfo, info>>

-----------------------------------------------------------------------------
\* ProjectInfoBack.  rinfo counts what a PE sent away and will get back, its
\* transpose sinfo what it has to return.
Transpose ==
  /\ \A p \in PE : pc[p] = "transpose"
  /\ rinfo' = [p \in PE |-> [q \in PE |-> [key |-> lpwgts[p][q], val |-> 0]]]
  /\ sinfo' = [p \in PE |-> [q \in PE |-> [key |-> lpwgts[q][p], val |-> 0]]]
  /\ pc' = [p \in PE |-> "return"]
  /\ UNCHANGED <<where, mvtxdist, newlabel, mgraph, minfo, info, chan>>

\* Where the part of q begins in an array ordered by PEs.
Offset(n, q) == Total([r \in PE |-> n[r].key], 0..(q - 1))

\* The results go back in the order the vertices came.
Return(p) ==
  /\ pc[p] = "return"
  /\ chan' = Post(chan, p, [q \in Receivers(p) |->
       SubSeq(minfo[p], Offset(sinfo[p], q) + 1, Offset(sinfo[p], q) + sinfo[p][q].key)])
  /\ pc' = [pc EXCEPT ![p] = "scatter"]
  /\ UNCHANGED <<where, mvtxdist, newlabel, sinfo, rinfo, mgraph, minfo, info>>

ScatterInOrder(p) ==
  /\ pc[p] = "scatter"
  /\ ArrivedFrom(chan, p, Senders(p))
  /\ info' = [info EXCEPT ![p] = [v \in Own(p) |->
       Regions(p, Senders(p))[Cardinality({u \in Own(p) : u <= v})]]]
  /\ chan' = Take(chan, p, Senders(p))
  /\ pc' = [pc EXCEPT ![p] = "done"]
  /\ UNCHANGED <<where, mvtxdist, newlabel, sinfo, rinfo, mgraph, minfo>>

\* A PE deals what came back to its vertices, the next one of the region of
\* the PE that had the vertex.
Scatter(p) ==
  /\ pc[p] = "scatter"
  /\ ArrivedFrom(chan, p, Senders(p))
  /\ LET auxinfo == Regions(p, Senders(p)) IN
     info' = [info EXCEPT ![p] = [v \in Own(p) |->
       auxinfo[Offset(rinfo[p], where[v])
               + Cardinality({u \in Own(p) : u <= v /\ where[u] = where[v]})]]]
  /\ chan' = Take(chan, p, Senders(p))
  /\ pc' = [pc EXCEPT ![p] = "done"]
  /\ UNCHANGED <<where, mvtxdist, newlabel, sinfo, rinfo, mgraph, minfo>>

Step(p) == Publish(p) \/ Labels(p) \/ Ship(p) \/ Unpack(p) \/ Return(p) \/ Scatter(p)

Terminated == \A p \in PE : pc[p] = "done"

Next == Scan \/ Tell \/ Transpose \/ (\E p \in PE : Step(p)) \/ (Terminated /\ UNCHANGED vars)

Spec == Init /\ [][Next]_vars
-----------------------------------------------------------------------------
(* Properties *)

Label == [v \in Vertex |-> newlabel[Owner[v]][v]]
gnvtxs == Cardinality(Vertex)

\* Labels stay in the range of the moved graph, counts and parts in theirs.
TypeOK ==
  /\ pc \in [PE -> {"scan", "publish", "labels", "tell", "ship", "unpack", "transpose",
                     "return", "scatter", "done"}]
  /\ where \in [Vertex -> PE]
  /\ \A p \in PE :
       /\ \A v \in DOMAIN newlabel[p] : newlabel[p][v] \in -1..(gnvtxs - 1)
       /\ DOMAIN newlabel[p] \in {{}, Own(p) \cup Ghosts(p)}
       /\ \A q \in PE : sinfo[p][q].key \in 0..gnvtxs /\ rinfo[p][q].key \in 0..gnvtxs
       /\ Len(mgraph[p]) <= gnvtxs /\ Len(minfo[p]) = Len(mgraph[p])

\* The moved graph is the old one under new names (CheckMGraph): the PEs' prefix
\* sums give each label once, and the vertex a PE finds at the place of a
\* label, by the order of the messages alone, is the one that got this label,
\* with its weights and with its neighbours' labels.
MovedIsGraph == (\A p \in PE : pc[p] = "transpose") =>
  /\ {Label[v] : v \in Vertex} = 0..(gnvtxs - 1)
  /\ \A p \in PE : Len(mgraph[p]) = mvtxdist[p + 1] - mvtxdist[p]
  /\ \A v \in Vertex :
       LET moved == mgraph[where[v]][Label[v] - mvtxdist[where[v]] + 1] IN
       /\ Label[v] \in mvtxdist[where[v]]..(mvtxdist[where[v] + 1] - 1)
       /\ moved.vwgt = VWgt[v]
       /\ DOMAIN moved.adj = {Label[u] : u \in Adj[v]}
       /\ \A u \in Adj[v] : moved.adj[Label[u]] = AdjWgt[v][u]

\* What was computed for a moved vertex comes back to the vertex it was.
InfoReturns == \A p \in PE : pc[p] = "done" => \A v \in Own(p) :
  info[p][v] = minfo[where[v]][Label[v] - mvtxdist[where[v]] + 1]
=============================================================================
