-------------------------------- MODULE Mesh --------------------------------
(***************************************************************************)
(* The partitioning of meshes: ParMETIS_V3_PartMeshKway                    *)
(* (libparmetis/mmetis.c) turns a mesh into its dual graph                 *)
(* (ParMETIS_V3_Mesh2Dual, libparmetis/mesh.c) and partitions that.  The   *)
(* elements are the vertices of the dual graph; two of them are neighbours *)
(* when they have at least ncommon nodes in common.  Each node belongs to  *)
(* a PE, which is told of all elements with that node and tells the PEs of *)
(* these elements of each other.  The answers carry no node numbers: they  *)
(* are matched to the nodes by their order.                                *)
(*                                                                         *)
(* The dual graph then goes to CommSetup.  The caller's arrays are changed *)
(* in place all the way, and changed back.  Every exchange here is a       *)
(* collective one, so the PEs go on together.                              *)
(***************************************************************************)
EXTENDS CommSetup

CONSTANTS
  Meshes,   \* the meshes callers may pass
  mask      \* the hash table has mask + 1 entries (2^11 in the code)

VARIABLES
  stage,      \* "call", "nodes", "lists", "dual", "graph", "closed"
  mesh,       \* what the caller passed: elmdist, eind, numflag and ncommon; <<>> when it
              \* passed a graph
  elmdist,    \* the caller's arrays as they are now; eind[p][i] are the nodes of
  eind,       \* p's i-th element
  gminnode,   \* the least node
  nodedist,   \* q's nodes are nodedist[q]..nodedist[q+1]-1
  nmap,       \* nmap[p]: the nodes of p's elements
  recvbuffer, \* recvbuffer[q][p]: the pairs of node and local element p sent q
  nind        \* nind[p]: the lists of elements that came back

meshvars == <<stage, mesh, elmdist, eind, gminnode, nodedist, nmap, recvbuffer, nind>>

\* f for each node of each element of each PE.
Nodes(f(_, _)) == [p \in PE |-> [i \in DOMAIN eind[p] |->
                     [j \in DOMAIN eind[p][i] |-> f(p, eind[p][i][j])]]]
AllNodes(lists) == UNION {ToSet(lists[p][i]) : <<p, i>> \in {x \in PE \X (1..Cardinality(Vertex)) :
                                                               x[2] \in DOMAIN lists[x[1]]}}
\* ChangeNumbering and ChangeNumberingMesh: from 1 to 0 and back.
Renumbered(array, d) == [k \in DOMAIN array |-> array[k] + d]
from == IF mesh.numflag > 0 THEN 1 ELSE 0

MeshInit ==
  /\ \E x \in Meshes :
       /\ mesh = x /\ elmdist = x.elmdist /\ eind = x.eind /\ vtxdist = x.elmdist
  /\ stage = "call"
  /\ gminnode = 0 /\ nodedist = <<>>
  /\ nmap = [p \in PE |-> <<>>] /\ recvbuffer = nmap /\ nind = nmap
  /\ pc = [p \in PE |-> "scan"] /\ input = <<>> /\ adjncy = <<>>
  /\ graph = [p \in PE |-> <<>>]
  /\ requests = [p \in PE |-> [q \in PE |-> [key |-> 0, val |-> 0]]]
  /\ chan = D!NoMessages

GraphInit ==
  /\ Init
  /\ stage = "graph"
  /\ mesh = <<>> /\ elmdist = <<>> /\ eind = <<>> /\ gminnode = 0 /\ nodedist = <<>>
  /\ nmap = <<>> /\ recvbuffer = <<>> /\ nind = <<>>

-----------------------------------------------------------------------------
\* Each PE gets its share of the n nodes, the first ones the smaller shares.
Distribution(n) ==
  LET upto[q \in 0..npes] ==
        IF q = 0 THEN 0 ELSE upto[q - 1] + (n - upto[q - 1]) \div (npes - (q - 1))
  IN upto

\* Numbers begin at 0 from here on; the least and the largest node are global.
NumberNodes ==
  LET low == Min(AllNodes(eind)) - from IN
  /\ stage = "call"
  /\ elmdist' = Renumbered(elmdist, -from)
  /\ gminnode' = low
  /\ eind' = Nodes(LAMBDA p, n : n - from - low)
  /\ nodedist' = Distribution(Max(AllNodes(eind')) + 1)
  /\ stage' = "nodes"
  /\ UNCHANGED <<mesh, nmap, recvbuffer, nind, vars>>

\* nodelist: p's pairs of node and local element, by nodes.
Before(a, b) == a.key < b.key \/ (a.key = b.key /\ a.val < b.val)
nodelist(p) == SetToSortSeq({[key |-> n, val |-> i - 1] :
  <<n, i>> \in {x \in AllNodes(eind) \X DOMAIN eind[p] : x[1] \in ToSet(eind[p][x[2]])}}, Before)

\* The nodes of p's elements get local numbers, and the pairs go to the nodes' PEs.
LocalNodes ==
  /\ stage = "nodes"
  /\ nmap' = [p \in PE |-> Ascending({x.key : x \in ToSet(nodelist(p))})]
  /\ eind' = Nodes(LAMBDA p, n : (CHOOSE k \in DOMAIN nmap'[p] : nmap'[p][k] = n) - 1)
  /\ recvbuffer' = [q \in PE |-> [p \in PE |-> SelectSeq(nodelist(p),
                      LAMBDA x : nodedist[q] <= x.key /\ x.key < nodedist[q + 1])]]
  /\ stage' = "lists"
  /\ UNCHANGED <<mesh, elmdist, gminnode, nodedist, nind, vars>>

\* gnind: the elements with node n, in the order of the PEs they came from.
gnind(q, n) == FlattenSeq([k \in 1..npes |->
  LET of == SelectSeq(recvbuffer[q][k - 1], LAMBDA x : x.key = n)
  IN  [j \in DOMAIN of |-> of[j].val + elmdist[k - 1]]])

\* The first element of a list is told from the others by its sign.
Marked(list) == [k \in DOMAIN list |-> IF k = 1 THEN -(list[k] + 1) ELSE list[k]]

\* sbuffer: the lists q has for p, one for each node p has asked for.
Answer(q, p) ==
  LET asked == Ascending({x.key : x \in ToSet(recvbuffer[q][p])})
  IN  FlattenSeq([k \in DOMAIN asked |-> Marked(gnind(q, asked[k]))])

\* The lists a PE reads out of what it has received from all PEs.
Lists(buffer) ==
  FoldLeft(LAMBDA lists, x : IF x < 0 THEN Append(lists, <<-x - 1>>)
                             ELSE [lists EXCEPT ![Len(lists)] = Append(@, x)], <<>>, buffer)

ReturnLists ==
  /\ stage = "lists"
  /\ nind' = [p \in PE |-> Lists(FlattenSeq([k \in 1..npes |-> Answer(k - 1, p)]))]
  /\ recvbuffer' = [p \in PE |-> <<>>]
  /\ stage' = "dual"
  /\ UNCHANGED <<mesh, elmdist, eind, gminnode, nodedist, nmap, vars>>

-----------------------------------------------------------------------------
\* Counting common nodes.  htable leads from a hash value to the place in ind of the
\* first element with that value, the others are looked for one by one.

CountUnsearched(st, kk) ==
  LET h == kk % (mask + 1)
      m == st.htable[h]
  IN
  IF m = 0 THEN [ind |-> Append(st.ind, kk), wgt |-> Append(st.wgt, 1),
                 htable |-> [st.htable EXCEPT ![h] = Len(st.ind) + 1]]
  ELSE [st EXCEPT !.wgt[m] = @ + 1]

Count(st, kk) ==
  LET h     == kk % (mask + 1)
      known == {j \in DOMAIN st.ind : st.ind[j] = kk}
      next  == [ind |-> Append(st.ind, kk), wgt |-> Append(st.wgt, 1), htable |-> st.htable]
  IN
  IF st.htable[h] = 0 THEN [next EXCEPT !.htable[h] = Len(st.ind) + 1]
  ELSE IF known # {} THEN [st EXCEPT !.wgt[CHOOSE j \in known : TRUE] = @ + 1]
  ELSE next

\* The elements that have a node in common with p's i-th, with their numbers of common
\* nodes.  The table is empty again after each element.
Common(p, i) ==
  LET lists == FlattenSeq([j \in DOMAIN eind[p][i] |-> nind[p][eind[p][i][j] + 1]])
  IN  FoldLeft(Count, [ind |-> <<>>, wgt |-> <<>>, htable |-> [h \in 0..mask |-> 0]],
               SelectSeq(lists, LAMBDA kk : kk # elmdist[p] + i - 1))

DualList(p, i) ==
  LET c == Common(p, i)
      near == SelectSeq([j \in DOMAIN c.ind |-> j], LAMBDA j : c.wgt[j] >= mesh.ncommon)
  IN  [k \in DOMAIN near |-> c.ind[near[k]]]

\* The dual graph, and the caller's numbers again.
RestoredShifted == Nodes(LAMBDA p, n : nmap[p][n + 1] + from)
Restored == Nodes(LAMBDA p, n : nmap[p][n + 1] + gminnode + from)
MakeDual ==
  /\ stage = "dual"
  /\ adjncy' = [p \in PE |-> [i \in DOMAIN eind[p] |-> Renumbered(DualList(p, i), from)]]
  /\ eind' = Restored
  /\ elmdist' = Renumbered(elmdist, from)
  /\ nmap' = [p \in PE |-> <<>>] /\ nind' = nmap'
  /\ stage' = "part"
  /\ UNCHANGED <<mesh, gminnode, nodedist, recvbuffer>>
  /\ UNCHANGED <<pc, vtxdist, input, graph, requests, chan>>

\* ParMETIS_V3_PartKway with elmdist as its vtxdist.
PartKway ==
  /\ stage = "part"
  /\ elmdist' = Renumbered(elmdist, -from)
  /\ vtxdist' = elmdist'
  /\ adjncy' = [p \in PE |-> [i \in DOMAIN adjncy[p] |-> Renumbered(adjncy[p][i], -from)]]
  /\ input' = [v \in Vertex |->
       LET p == CHOOSE q \in PE : vtxdist'[q] <= v /\ v < vtxdist'[q + 1]
       IN  adjncy'[p][v - vtxdist'[p] + 1]]
  /\ stage' = "graph"
  /\ UNCHANGED <<mesh, eind, gminnode, nodedist, nmap, recvbuffer, nind>>
  /\ UNCHANGED <<pc, graph, requests, chan>>

\* The library works on the graph, as in CommSetup.
Library == stage = "graph" /\ Next /\ UNCHANGED meshvars

\* The end of ParMETIS_V3_PartKway.
Close ==
  /\ stage = "graph" /\ mesh # <<>> /\ Terminated
  /\ elmdist' = Renumbered(elmdist, from)
  /\ stage' = "closed"
  /\ UNCHANGED <<mesh, eind, gminnode, nodedist, nmap, recvbuffer, nind, vars>>

MeshNext == \/ NumberNodes \/ LocalNodes \/ ReturnLists \/ MakeDual \/ PartKway \/ Close
            \/ Library
            \/ stage = "closed" /\ UNCHANGED <<meshvars, vars>>

MeshSpec == (MeshInit \/ GraphInit) /\ [][MeshNext]_<<meshvars, vars>>

-----------------------------------------------------------------------------
(* Properties *)

\* What the PEs derive from each other's lists is the dual graph: every PE lists each
\* element with at least ncommon nodes of its own, once.  So both ends of an edge have
\* it, which CommSetup relies on, though each has counted by itself.
DualGraphRight == (stage = "graph" /\ mesh # <<>>) =>
  LET elm(v) == LET p == CHOOSE q \in PE : vtxdist[q] <= v /\ v < vtxdist[q + 1]
                IN  ToSet(mesh.eind[p][v - vtxdist[p] + 1])
  IN \A v \in Vertex :
       /\ IsInjective(input[v])
       /\ ToSet(input[v]) = {u \in Vertex \ {v} : Cardinality(elm(u) \cap elm(v)) >= mesh.ncommon}

\* The caller has its input back after all the changes in place: its mesh when the dual
\* graph is ready and when the call returns, and the lists of its graph (module CommSetup).
InputComesBack ==
  /\ ListsComeBack
  /\ stage \in {"part", "closed"} => elmdist = mesh.elmdist /\ eind = mesh.eind
=============================================================================
