------------------------- MODULE NodeRefine_proofs -------------------------
(***************************************************************************)
(* What the refinement of the separators keeps, for every distributed      *)
(* graph, every number of PEs and of parts and all interleavings of the    *)
(* PEs' moves: the separators stay separators (IInv and Separates), the    *)
(* degrees and weights that the PEs keep incrementally are right again     *)
(* after each side (DInv and ParamsExact), and the separators never get    *)
(* heavier (SeparatorNeverGrows).                                          *)
(***************************************************************************)
EXTENDS NodeRefine, GraphFacts, TLAPS

SidePhases  == {"move", "pull", "labels", "sum"}
ParamPhases == {"interior", "params", "ghosts", "paramsum"}

cur(v) == where[Owner[v]][v]
Seps(p) == {v \in Own(p) : InSeparator(where[p][v])}

\* The reductions keep the PEs in one part of the algorithm.
Together ==
  /\ pc \in [PE -> SidePhases \union ParamPhases \union {"greedy", "done"}]
  /\ \/ \A p \in PE : pc[p] \in SidePhases
     \/ \A p \in PE : pc[p] \in ParamPhases
     \/ \A p \in PE : pc[p] = "greedy"
     \/ \A p \in PE : pc[p] = "done"

\* Types.  A vertex never leaves its pair.
Typed ==
  /\ c \in {0, 1}
  /\ where = [p \in PE |-> where[p]]
  /\ chan = [q \in PE |-> [p \in PE |-> chan[q][p]]]
  /\ \A p \in PE : where[p] \in [Own(p) \union Ghosts(p) -> Int]
  /\ update \in [PE -> SUBSET Vertex] /\ supdate \in [PE -> SUBSET Vertex]
  /\ changed \in [PE -> SUBSET Vertex]
  /\ sepind \in [PE -> SUBSET Vertex] /\ queue \in [PE -> SUBSET Vertex]
  /\ \A p \in PE : update[p] \subseteq Own(p)

Paired ==
  /\ \A v \in Vertex : cur(v) \in Label /\ PairOf(cur(v)) \in Pairs
  /\ \A v \in Vertex : \A u \in Adj[v] : PairOf(cur(u)) = PairOf(cur(v))

\* Sent, but not taken yet.
UpdatesOut(q) == pc[q] \in {"pull", "labels", "sum"}
LabelsOut(q)  == pc[q] \in {"labels", "sum"}
UpdatesDue(p) == pc[p] \in {"move", "pull"}
LabelsDue(p)  == pc[p] \in {"move", "pull", "labels"}
WhereOut(q)   == pc[q] \in {"ghosts", "paramsum"}
WhereDue(p)   == pc[p] \in {"interior", "params", "ghosts"}

\* An edge from the side the separator moves away from to the other one.
Crosses(u, v) ==
  /\ u \in Adj[v]
  /\ cur(u) < nparts /\ cur(u) % 2 = c
  /\ cur(v) < nparts /\ cur(v) % 2 = cc

\* The messages: of the vertices next to moved ones, of the new labels and of all labels.
GoodUpdates(q, p, m) ==
  /\ m \subseteq Own(p)
  /\ \A u \in Own(q), v \in Own(p) : Crosses(u, v) => v \in m
GoodLabels(q, p, n) ==
  /\ \A v \in Send(q, p) : v \in DOMAIN n => n[v] = cur(v)
  /\ \A v \in Send(q, p) : v \notin DOMAIN n => where[p][v] = cur(v)
GoodWhere(q, p, n) ==
  \A v \in Send(q, p) : v \in DOMAIN n /\ n[v] = cur(v)

\* What is on its way from q to p.
Box(q, p) ==
  IF LabelsOut(q) /\ UpdatesDue(p)
  THEN \E m, n : chan[q][p] = <<m, n>> /\ GoodUpdates(q, p, m) /\ GoodLabels(q, p, n)
  ELSE IF UpdatesOut(q) /\ UpdatesDue(p)
  THEN \E m : chan[q][p] = <<m>> /\ GoodUpdates(q, p, m)
  ELSE IF LabelsOut(q) /\ LabelsDue(p)
  THEN \E n : chan[q][p] = <<n>> /\ GoodLabels(q, p, n)
  ELSE IF WhereOut(q) /\ WhereDue(p)
  THEN \E n : chan[q][p] = <<n>> /\ GoodWhere(q, p, n)
  ELSE chan[q][p] = <<>>
Boxes == \A p \in PE : \A q \in Nbrs(p) : Box(q, p)

\* Nobody is ahead of a neighbour by more than a message.
NotAhead ==
  \A p \in PE : \A q \in Nbrs(p) :
    /\ LabelsOut(q) => pc[p] # "move"
    /\ pc[q] = "sum" => pc[p] \notin {"move", "pull"}
    /\ pc[q] = "paramsum" => pc[p] \notin {"interior", "params"}

\* The copies of remote labels.
Copies ==
  \A p \in PE : \A v \in Ghosts(p) :
    /\ pc[p] \in {"paramsum", "greedy", "sum"} => where[p][v] = cur(v)
    /\ pc[p] \in {"move", "pull", "labels"} /\ ~LabelsOut(Owner[v]) =>
         where[p][v] = cur(v) \/ v \in changed[Owner[v]]

\* The vertices that have been moved out of the separator.
Changed ==
  \A p \in PE :
    /\ pc[p] \in {"move", "pull"} =>
         \A v \in changed[p] : v \in Own(p) /\ cur(v) < nparts /\ cur(v) % 2 = c
    /\ pc[p] \notin {"move", "pull"} => changed[p] = {}

\* The lists of the separator vertices.
Lists ==
  \A p \in PE :
    /\ pc[p] \in {"paramsum", "greedy", "pull", "labels", "sum"} => sepind[p] = Seps(p)
    /\ pc[p] = "move" => /\ sepind[p] \union queue[p] = Seps(p)
                         /\ sepind[p] \intersect queue[p] = {}

\* During a side every edge between the two sides is about to be cut by the separator.
Pending ==
  (\A p \in PE : pc[p] \in SidePhases) =>
    \A v \in Vertex : \A u \in Adj[v] : Crosses(u, v) =>
      IF Owner[u] = Owner[v]
      THEN pc[Owner[v]] \in {"move", "pull"} /\ v \in update[Owner[v]]
      ELSE \/ pc[Owner[u]] = "move" /\ v \in supdate[Owner[u]]
           \/ UpdatesOut(Owner[u]) /\ UpdatesDue(Owner[v])

\* Before and after a side there is no such edge.
Parted == (\A p \in PE : pc[p] \notin SidePhases) => Separated(Current, Vertex)

IInv ==
  /\ Together
  /\ Typed
  /\ Paired
  /\ Boxes
  /\ NotAhead
  /\ Copies
  /\ Changed
  /\ Lists
  /\ Pending
  /\ Parted

-----------------------------------------------------------------------------
(* The labels.                                                             *)

\* A separator's label is that of its pair, nparts further.
LEMMA SeparatorLabel ==
  ASSUME NEW a \in Label, PairOf(a) \in Pairs, InSeparator(a)
  PROVE  a = nparts + PairOf(a) /\ a % nparts = PairOf(a)
<1>1. /\ nparts \in Nat /\ nparts > 0 /\ PairOf(a) \in Nat /\ PairOf(a) < nparts
      /\ a = nparts + PairOf(a)
  BY PartsAssumption DEF Label, InSeparator, PairOf, Pairs
<1>2. \A m \in Nat, g \in Nat : g < m => (m + g) % m = g
  OBVIOUS
<1> QED BY <1>1, <1>2

\* The parts of a pair.
LEMMA PartLabel ==
  ASSUME NEW g \in Pairs, NEW x \in {0, 1}
  PROVE  g + x \in Label /\ g + x < nparts /\ PairOf(g + x) = g /\ (g + x) % 2 = x
BY PartsAssumption DEF Pairs, Label, PairOf, InSeparator

\* A part and its separator.
LEMMA SeparatorOfPart ==
  ASSUME NEW a \in Label, a < nparts, PairOf(a) \in Pairs
  PROVE  /\ SeparatorOf(a) \in Label /\ InSeparator(SeparatorOf(a))
         /\ PairOf(SeparatorOf(a)) = PairOf(a)
BY PartsAssumption DEF Pairs, Label, PairOf, InSeparator, SeparatorOf

\* A pair has a part of each parity.
LEMMA TwoParts ==
  ASSUME NEW a \in Label, NEW b \in Label, a < nparts, b < nparts, PairOf(a) = PairOf(b),
         a % 2 = b % 2
  PROVE  a = b
BY PartsAssumption DEF Label, PairOf, InSeparator

LEMMA Parity == \A a \in Label : a \in Int /\ a % 2 \in {0, 1}
BY PartsAssumption DEF Label

-----------------------------------------------------------------------------
(* What a step of one PE leaves as it is.                                  *)

\* The PE stays in its part of the algorithm.
LEMMA StaysTogether ==
  ASSUME Together, NEW a \in PE, NEW x,
         \/ pc[a] \in SidePhases /\ x \in SidePhases
         \/ pc[a] \in ParamPhases /\ x \in ParamPhases,
         pc' = [pc EXCEPT ![a] = x]
  PROVE  /\ Together' /\ pc'[a] = x /\ \A p \in PE : p # a => pc'[p] = pc[p]
         /\ (\A p \in PE : pc[p] \in SidePhases) <=> pc[a] \in SidePhases
         /\ (\A p \in PE : pc[p] \in ParamPhases) <=> pc[a] \in ParamPhases
         /\ (\A p \in PE : pc'[p] \in SidePhases) <=> pc[a] \in SidePhases
         /\ (\A p \in PE : pc'[p] \notin SidePhases) <=> (\A p \in PE : pc[p] \notin SidePhases)
<1>1. pc'[a] = x /\ \A p \in PE : p # a => pc'[p] = pc[p]
  BY DEF Together
<1>2. pc' \in [PE -> SidePhases \union ParamPhases \union {"greedy", "done"}]
  BY DEF Together
<1>3. CASE pc[a] \in SidePhases /\ x \in SidePhases
  <2>1. \A p \in PE : pc[p] \in SidePhases /\ pc[p] \notin ParamPhases
    BY <1>3 DEF Together, SidePhases, ParamPhases
  <2>2. \A p \in PE : pc'[p] \in SidePhases
    BY <1>1, <1>3, <2>1
  <2> QED BY <1>1, <1>2, <2>1, <2>2 DEF Together
<1>4. CASE pc[a] \in ParamPhases /\ x \in ParamPhases
  <2>1. \A p \in PE : pc[p] \in ParamPhases /\ pc[p] \notin SidePhases
    BY <1>4 DEF Together, SidePhases, ParamPhases
  <2>2. \A p \in PE : pc'[p] \in ParamPhases /\ pc'[p] \notin SidePhases
    BY <1>1, <1>4, <2>1 DEF SidePhases, ParamPhases
  <2> QED BY <1>1, <1>2, <2>1, <2>2 DEF Together
<1> QED BY <1>3, <1>4

\* No vertex gets another label.
LEMMA SameLabels ==
  ASSUME \A v \in Vertex : where'[Owner[v]][v] = where[Owner[v]][v], c' = c
  PROVE  /\ \A v \in Vertex : cur(v)' = cur(v)
         /\ Paired => Paired'
         /\ \A u, v \in Vertex : Crosses(u, v)' <=> Crosses(u, v)
         /\ \A p, q \in PE : \A u \in Own(q), v \in Own(p) : Crosses(u, v)' => Crosses(u, v)
         /\ \A p, q \in PE : \A v \in Send(q, p) : v \in Vertex /\ cur(v)' = cur(v)
         /\ Separated(Current, Vertex) => Separated(Current, Vertex)'
<1>1. \A v \in Vertex : cur(v)' = cur(v)
  BY DEF cur
<1>2. Paired => Paired'
  <2> SUFFICES ASSUME Paired PROVE Paired'
    OBVIOUS
  <2>1. \A v \in Vertex : cur(v)' \in Label /\ PairOf(cur(v)') \in Pairs
    BY <1>1 DEF Paired
  <2>2. ASSUME NEW v \in Vertex, NEW u \in Adj[v] PROVE PairOf(cur(u)') = PairOf(cur(v)')
    BY <1>1, EdgesBothWays DEF Paired
  <2> QED BY <2>1, <2>2 DEF Paired, PairOf, InSeparator
<1>3. \A u, v \in Vertex : Crosses(u, v)' <=> Crosses(u, v)
  BY <1>1 DEF Crosses, cc
<1>4. Current' = Current
  BY DEF Current
<1>5. \A p, q \in PE : \A u \in Own(q), v \in Own(p) : Crosses(u, v)' => Crosses(u, v)
  BY <1>3, OwnIs
<1>6. \A p, q \in PE : \A v \in Send(q, p) : v \in Vertex /\ cur(v)' = cur(v)
  BY <1>1, SendIs, OwnIs
<1> QED BY <1>1, <1>2, <1>3, <1>4, <1>5, <1>6 DEF Separated

\* The messages on their way from q to p are as good as before: q's labels are, and no edge
\* between q and p newly joins two sides.
LEMMA SameMessages ==
  ASSUME NEW p \in PE, NEW q \in PE,
         \A u \in Own(q), v \in Own(p) : Crosses(u, v)' => Crosses(u, v),
         \A v \in Send(q, p) : cur(v)' = cur(v) /\ where'[p][v] = where[p][v], NEW m
  PROVE  /\ GoodUpdates(q, p, m) => GoodUpdates(q, p, m)'
         /\ GoodLabels(q, p, m) => GoodLabels(q, p, m)'
         /\ GoodWhere(q, p, m) => GoodWhere(q, p, m)'
<1>1. GoodUpdates(q, p, m) => GoodUpdates(q, p, m)'
  BY DEF GoodUpdates
<1>2. GoodLabels(q, p, m) => GoodLabels(q, p, m)'
  BY DEF GoodLabels
<1>3. GoodWhere(q, p, m) => GoodWhere(q, p, m)'
  BY DEF GoodWhere
<1> QED BY <1>1, <1>2, <1>3

\* So are the messages of a PE that sends and takes nothing.
LEMMA SameBox ==
  ASSUME NEW p \in PE, NEW q \in PE,
         \A u \in Own(q), v \in Own(p) : Crosses(u, v)' => Crosses(u, v),
         \A v \in Send(q, p) : cur(v)' = cur(v) /\ where'[p][v] = where[p][v],
         chan'[q][p] = chan[q][p],
         LabelsOut(q)' <=> LabelsOut(q), UpdatesOut(q)' <=> UpdatesOut(q),
         WhereOut(q)' <=> WhereOut(q),
         LabelsDue(p)' <=> LabelsDue(p), UpdatesDue(p)' <=> UpdatesDue(p),
         WhereDue(p)' <=> WhereDue(p), Box(q, p)
  PROVE  Box(q, p)'
<1>1. CASE LabelsOut(q) /\ UpdatesDue(p)
  <2>1. PICK m, n : chan[q][p] = <<m, n>> /\ GoodUpdates(q, p, m) /\ GoodLabels(q, p, n)
    BY <1>1 DEF Box
  <2>2. GoodUpdates(q, p, m)' /\ GoodLabels(q, p, n)'
    <3>1. GoodUpdates(q, p, m)'
      BY <2>1, SameMessages
    <3>2. GoodLabels(q, p, n)'
      BY <2>1, SameMessages
    <3> QED BY <3>1, <3>2
  <2> QED BY <1>1, <2>1, <2>2 DEF Box
<1>2. CASE UpdatesOut(q) /\ UpdatesDue(p) /\ ~LabelsOut(q)
  <2>1. PICK m : chan[q][p] = <<m>> /\ GoodUpdates(q, p, m)
    BY <1>2 DEF Box
  <2>2. GoodUpdates(q, p, m)'
    BY <2>1, SameMessages
  <2> QED BY <1>2, <2>1, <2>2 DEF Box
<1>3. CASE LabelsOut(q) /\ LabelsDue(p) /\ ~UpdatesDue(p)
  <2>1. PICK n : chan[q][p] = <<n>> /\ GoodLabels(q, p, n)
    BY <1>3 DEF Box
  <2>2. GoodLabels(q, p, n)'
    BY <2>1, SameMessages
  <2> QED BY <1>3, <2>1, <2>2 DEF Box
<1>4. CASE /\ WhereOut(q) /\ WhereDue(p)
           /\ ~(UpdatesOut(q) /\ UpdatesDue(p)) /\ ~(LabelsOut(q) /\ LabelsDue(p))
           /\ ~(LabelsOut(q) /\ UpdatesDue(p))
  <2>1. PICK n : chan[q][p] = <<n>> /\ GoodWhere(q, p, n)
    BY <1>4 DEF Box
  <2>2. GoodWhere(q, p, n)'
    BY <2>1, SameMessages
  <2> QED BY <1>4, <2>1, <2>2 DEF Box
<1>5. CASE ~(WhereOut(q) /\ WhereDue(p)) /\ ~(UpdatesOut(q) /\ UpdatesDue(p))
           /\ ~(LabelsOut(q) /\ LabelsDue(p)) /\ ~(LabelsOut(q) /\ UpdatesDue(p))
  BY <1>5 DEF Box
<1> QED BY <1>1, <1>2, <1>3, <1>4, <1>5 DEF UpdatesDue, LabelsDue, UpdatesOut, LabelsOut

-----------------------------------------------------------------------------
(* The initial states.                                                     *)

LEMMA InitInv == Init => IInv
<1> SUFFICES ASSUME Init PROVE IInv
  OBVIOUS
<1>1. PICK w \in Starts :
        where = [p \in PE |-> [v \in Own(p) \union Ghosts(p) |-> IF v \in Own(p) THEN w[v] ELSE -1]]
  BY DEF Init
<1>2. /\ pc = [p \in PE |-> "params"] /\ c = 0 /\ chan = NoMessages
      /\ sepind = [p \in PE |-> {}] /\ queue = sepind
      /\ update = sepind /\ supdate = sepind /\ changed = sepind
  BY DEF Init
<1>3. /\ w \in [Vertex -> Label] /\ \A v \in Vertex : PairOf(w[v]) \in Pairs
      /\ \A u, v \in Vertex : u \in Adj[v] => PairOf(w[u]) = PairOf(w[v])
      /\ Separated(w, Vertex)
  BY StartsAssumption
<1>4. \A v \in Vertex : cur(v) = w[v]
  BY <1>1, OwnerIn DEF cur
<1>5. \A p \in PE : pc[p] = "params"
  BY <1>2
<1>6. Together
  BY <1>2 DEF Together, ParamPhases
<1>7. Typed
  <2>1. \A p \in PE : where[p] \in [Own(p) \union Ghosts(p) -> Int]
    <3> SUFFICES ASSUME NEW p \in PE PROVE where[p] \in [Own(p) \union Ghosts(p) -> Int]
      OBVIOUS
    <3>1. \A v \in Own(p) : w[v] \in Int
      BY <1>3, OwnIs, Parity
    <3> QED BY <1>1, <3>1
  <2>2. where = [p \in PE |-> where[p]]
    BY <1>1
  <2>3. chan = [q \in PE |-> [p \in PE |-> chan[q][p]]]
    BY <1>2 DEF NoMessages
  <2> QED BY <1>2, <2>1, <2>2, <2>3 DEF Typed
<1>8. Paired
  BY <1>3, <1>4, EdgesBothWays DEF Paired
<1>9. Boxes
  <2> SUFFICES ASSUME NEW p \in PE, NEW q \in Nbrs(p) PROVE Box(q, p)
    BY DEF Boxes
  <2>1. q \in PE /\ chan[q][p] = <<>>
    BY <1>2, NbrsIn DEF NoMessages
  <2> QED BY <1>5, <2>1 DEF Box, LabelsOut, UpdatesOut, WhereOut
<1>10. NotAhead /\ Copies /\ Lists
  BY <1>5, NbrsIn DEF NotAhead, Copies, Lists, LabelsOut
<1>11. Changed
  BY <1>2, <1>5 DEF Changed
<1>12. Pending
  BY <1>5, NpesAssumption DEF Pending, SidePhases, PE
<1>13. Separated(Current, Vertex)
  BY <1>3, <1>4 DEF Separated, Current, cur
<1> QED BY <1>6, <1>7, <1>8, <1>9, <1>10, <1>11, <1>12, <1>13 DEF IInv, Parted

-----------------------------------------------------------------------------
(* ComputeNodePartitionParams.                                             *)

LEMMA SendWhereKeeps == ASSUME IInv, NEW a \in PE, SendWhere(a) PROVE IInv'
<1> DEFINE msgs == [q \in Nbrs(a) |-> [v \in Send(a, q) |-> where[a][v]]]
<1>1. /\ pc[a] = "params" /\ pc' = [pc EXCEPT ![a] = "ghosts"] /\ chan' = Post(chan, a, msgs)
      /\ UNCHANGED <<where, sepind, queue, update, supdate, changed, c>>
  BY DEF SendWhere, greedy
<1>2. /\ Together' /\ pc'[a] = "ghosts" /\ \A p \in PE : p # a => pc'[p] = pc[p]
      /\ \A p \in PE : pc[p] \in ParamPhases /\ pc'[p] \in ParamPhases
      /\ (\A p \in PE : pc'[p] \notin SidePhases)
  <2>1. pc[a] \in ParamPhases /\ "ghosts" \in ParamPhases
    BY <1>1 DEF ParamPhases
  <2>2. /\ Together' /\ pc'[a] = "ghosts" /\ \A p \in PE : p # a => pc'[p] = pc[p]
        /\ \A p \in PE : pc[p] \in ParamPhases
    BY <1>1, <2>1, StaysTogether DEF IInv
  <2> QED BY <2>1, <2>2 DEF ParamPhases, SidePhases
<1>3. /\ chan' = [q \in PE |-> [p \in PE |-> chan'[q][p]]]
      /\ \A q, r \in PE : chan'[q][r] =
           IF q = a /\ r \in DOMAIN msgs THEN Append(chan[q][r], msgs[r]) ELSE chan[q][r]
  <2>1. chan = [q \in PE |-> [p \in PE |-> chan[q][p]]]
    BY DEF IInv, Typed
  <2> HIDE DEF msgs
  <2> QED BY <1>1, <2>1, Posted
<1>4. Typed'
  BY <1>1, <1>3 DEF IInv, Typed
<1>5. /\ \A v \in Vertex : where'[Owner[v]][v] = where[Owner[v]][v]
      /\ \A p \in PE : \A v \in Vertex : where'[p][v] = where[p][v]
  BY <1>1
<1>6. /\ \A v \in Vertex : cur(v)' = cur(v)
      /\ \A p, q \in PE : \A u \in Own(q), v \in Own(p) : Crosses(u, v)' => Crosses(u, v)
      /\ \A p, q \in PE : \A v \in Send(q, p) : cur(v)' = cur(v)
      /\ Paired' /\ (Separated(Current, Vertex) => Separated(Current, Vertex)')
  BY <1>1, <1>5, SameLabels DEF IInv
<1>7. Boxes'
  <2> SUFFICES ASSUME NEW p \in PE, NEW q \in Nbrs(p) PROVE Box(q, p)'
    BY DEF Boxes
  <2>1. q \in PE /\ p \in Nbrs(q)
    BY NbrsIn, NbrsBothWays
  <2>2. Box(q, p)
    BY DEF IInv, Boxes
  <2>3. /\ ~LabelsOut(q) /\ ~LabelsOut(q)' /\ ~UpdatesOut(q) /\ ~UpdatesOut(q)'
        /\ WhereDue(p) <=> WhereDue(p)'
    BY <1>1, <1>2, <2>1 DEF LabelsOut, UpdatesOut, WhereDue, ParamPhases
  <2>4. CASE q = a
    <3>1. pc[p] # "paramsum"
      BY <1>1, <2>1, <2>4 DEF IInv, NotAhead
    <3>2. WhereDue(p) /\ ~WhereOut(q) /\ WhereOut(q)'
      BY <1>1, <1>2, <2>4, <3>1 DEF WhereDue, WhereOut, ParamPhases
    <3>3. chan[q][p] = <<>>
      BY <2>2, <2>3, <3>2 DEF Box
    <3>4. chan'[q][p] = <<msgs[p]>>
      BY <1>3, <2>1, <2>4, <3>3, Queues
    <3>5. \A v \in Send(q, p) : Owner[v] = q /\ v \in Vertex
      BY <2>1, SendIs, OwnIs
    <3>6. PICK n : n = msgs[p]
      OBVIOUS
    <3>7. \A v \in Send(q, p) : v \in DOMAIN n /\ n[v] = cur(v)
      BY <2>1, <2>4, <3>5, <3>6 DEF cur
    <3>8. GoodWhere(q, p, n)' /\ chan'[q][p] = <<n>>
      BY <1>6, <3>4, <3>5, <3>6, <3>7 DEF GoodWhere
    <3> QED BY <2>3, <3>2, <3>8 DEF Box
  <2>5. CASE q # a
    <3>1. chan'[q][p] = chan[q][p] /\ (WhereOut(q)' <=> WhereOut(q))
      BY <1>2, <1>3, <2>1, <2>5 DEF WhereOut
    <3>2. (LabelsDue(p)' <=> LabelsDue(p)) /\ (UpdatesDue(p)' <=> UpdatesDue(p))
      BY <1>2 DEF LabelsDue, UpdatesDue, ParamPhases
    <3>3. \A v \in Send(q, p) : where'[p][v] = where[p][v]
      BY <1>1
    <3> QED BY <1>6, <2>1, <2>2, <2>3, <3>1, <3>2, <3>3, SameBox
  <2> QED BY <2>4, <2>5
<1>8. NotAhead'
  <2> SUFFICES ASSUME NEW p \in PE, NEW q \in Nbrs(p)
               PROVE  /\ LabelsOut(q)' => pc'[p] # "move"
                      /\ pc'[q] = "sum" => pc'[p] \notin {"move", "pull"}
                      /\ pc'[q] = "paramsum" => pc'[p] \notin {"interior", "params"}
    BY DEF NotAhead
  <2>1. q \in PE
    BY NbrsIn
  <2> QED BY <1>1, <1>2, <2>1 DEF IInv, NotAhead, LabelsOut, ParamPhases
<1>9. Copies'
  <2> SUFFICES ASSUME NEW p \in PE, NEW v \in Ghosts(p)
               PROVE  /\ pc'[p] \in {"paramsum", "greedy", "sum"} => where'[p][v] = cur(v)'
                      /\ pc'[p] \notin {"move", "pull", "labels"}
    BY DEF Copies
  <2>1. v \in Vertex
    BY GhostsAre
  <2>2. pc'[p] \notin {"move", "pull", "labels"}
    BY <1>2 DEF ParamPhases
  <2>3. pc'[p] \in {"paramsum", "greedy", "sum"} => p # a /\ pc[p] = pc'[p]
    BY <1>2
  <2> QED BY <1>1, <1>6, <2>1, <2>2, <2>3 DEF IInv, Copies
<1>10. Changed'
  BY <1>1, <1>2 DEF IInv, Changed, ParamPhases
<1>11. Lists'
  BY <1>1, <1>2 DEF IInv, Lists, ParamPhases, Seps
<1>12. Pending' /\ Parted'
  <2>1. \A p \in PE : pc[p] \notin SidePhases
    BY <1>2 DEF ParamPhases, SidePhases
  <2>2. Parted'
    BY <1>6, <2>1 DEF IInv, Parted
  <2>3. Pending'
    BY <1>2, NpesAssumption DEF Pending, PE
  <2> QED BY <2>2, <2>3
<1> QED BY <1>2, <1>4, <1>6, <1>7, <1>8, <1>9, <1>10, <1>11, <1>12 DEF IInv

LEMMA ComputeParamsKeeps == ASSUME IInv, NEW a \in PE, ComputeParams(a) PROVE IInv'
<1> DEFINE new == Exchanged(chan, a, where[a])
<1>1. /\ pc[a] = "ghosts" /\ ArrivedFrom(chan, a, Nbrs(a))
      /\ where' = [where EXCEPT ![a] = new]
      /\ sepind' = [sepind EXCEPT ![a] = {v \in Own(a) : InSeparator(new[v])}]
      /\ chan' = Take(chan, a, Nbrs(a)) /\ pc' = [pc EXCEPT ![a] = "paramsum"]
      /\ UNCHANGED <<queue, update, supdate, changed, c>>
  BY DEF ComputeParams, greedy
<1>2. /\ Together' /\ pc'[a] = "paramsum" /\ \A p \in PE : p # a => pc'[p] = pc[p]
      /\ \A p \in PE : pc[p] \in ParamPhases /\ pc'[p] \in ParamPhases
      /\ (\A p \in PE : pc'[p] \notin SidePhases)
  <2>1. pc[a] \in ParamPhases /\ "paramsum" \in ParamPhases
    BY <1>1 DEF ParamPhases
  <2>2. /\ Together' /\ pc'[a] = "paramsum" /\ \A p \in PE : p # a => pc'[p] = pc[p]
        /\ \A p \in PE : pc[p] \in ParamPhases
    BY <1>1, <2>1, StaysTogether DEF IInv
  <2> QED BY <2>1, <2>2 DEF ParamPhases, SidePhases
<1>3. /\ chan' = [q \in PE |-> [p \in PE |-> chan'[q][p]]]
      /\ \A q, r \in PE : chan'[q][r] =
           IF q \in Nbrs(a) /\ r = a THEN Tail(chan[q][r]) ELSE chan[q][r]
  <2>1. chan = [q \in PE |-> [p \in PE |-> chan[q][p]]]
    BY DEF IInv, Typed
  <2>2. chan' = Take(chan, a, Nbrs(a))
    BY <1>1
  <2>3. /\ Take(chan, a, Nbrs(a)) = [q \in PE |-> [r \in PE |-> Take(chan, a, Nbrs(a))[q][r]]]
        /\ \A q, r \in PE : Take(chan, a, Nbrs(a))[q][r] =
             IF q \in Nbrs(a) /\ r = a THEN Tail(chan[q][r]) ELSE chan[q][r]
    BY <2>1, Taken
  <2> QED BY <2>2, <2>3
\* What a has been sent.
<1>4. ASSUME NEW q \in Nbrs(a)
      PROVE  WhereOut(q) /\ \E n : chan[q][a] = <<n>> /\ GoodWhere(q, a, n)
  <2>1. q \in PE /\ Box(q, a) /\ chan[q][a] # <<>>
    BY <1>1, NbrsIn DEF IInv, Boxes, ArrivedFrom
  <2>2. ~LabelsOut(q) /\ ~UpdatesOut(q)
    BY <1>2, <2>1 DEF LabelsOut, UpdatesOut, ParamPhases
  <2> QED BY <2>1, <2>2 DEF Box
<1>5. /\ new \in [Own(a) \union Ghosts(a) -> Int]
      /\ \A v \in Own(a) : new[v] = where[a][v]
      /\ \A v \in Ghosts(a) : new[v] = cur(v)
  <2>1. where[a] \in [Own(a) \union Ghosts(a) -> Int]
    BY DEF IInv, Typed
  <2>2. DOMAIN new = Own(a) \union Ghosts(a)
    BY <2>1 DEF Exchanged
  <2>3. \A v \in Own(a) : v \notin Ghosts(a) /\ new[v] = where[a][v]
    BY <2>1, OwnIs, GhostsAre DEF Exchanged
  <2>4. ASSUME NEW v \in Ghosts(a) PROVE new[v] = cur(v) /\ cur(v) \in Int
    <3>1. v \in Vertex /\ Owner[v] \in Nbrs(a) /\ v \in Send(Owner[v], a)
      BY GhostsAre
    <3>2. PICK n : chan[Owner[v]][a] = <<n>> /\ GoodWhere(Owner[v], a, n)
      BY <1>4, <3>1
    <3>3. v \in DOMAIN n /\ n[v] = cur(v) /\ Head(chan[Owner[v]][a]) = n
      BY <3>1, <3>2, Queues DEF GoodWhere
    <3>4. cur(v) \in Int
      BY <3>1, Parity DEF IInv, Paired
    <3> QED BY <2>1, <3>3, <3>4 DEF Exchanged
  <2>5. \A v \in Own(a) \union Ghosts(a) : new[v] \in Int
    BY <2>1, <2>3, <2>4
  <2>6. new = [v \in Own(a) \union Ghosts(a) |-> new[v]]
    BY <2>2 DEF Exchanged
  <2> HIDE DEF new
  <2> QED BY <2>3, <2>4, <2>5, <2>6
<1> HIDE DEF new
<1>6. /\ where' = [p \in PE |-> where'[p]] /\ where'[a] = new
      /\ \A p \in PE : p # a => where'[p] = where[p]
  <2>1. where = [p \in PE |-> where[p]]
    BY DEF IInv, Typed
  <2> QED BY <1>1, <2>1
<1>7. Typed'
  <2>1. \A p \in PE : where'[p] \in [Own(p) \union Ghosts(p) -> Int]
    BY <1>5, <1>6 DEF IInv, Typed
  <2>2. sepind' \in [PE -> SUBSET Vertex]
    BY <1>1, OwnIs DEF IInv, Typed
  <2> QED BY <1>1, <1>3, <1>6, <2>1, <2>2 DEF IInv, Typed
<1>8. \A v \in Vertex : where'[Owner[v]][v] = where[Owner[v]][v]
  BY <1>5, <1>6, OwnerIn
<1>9. /\ \A v \in Vertex : cur(v)' = cur(v)
      /\ \A p, q \in PE : \A u \in Own(q), v \in Own(p) : Crosses(u, v)' => Crosses(u, v)
      /\ \A p, q \in PE : \A v \in Send(q, p) : cur(v)' = cur(v)
      /\ Paired' /\ (Separated(Current, Vertex) => Separated(Current, Vertex)')
  BY <1>1, <1>8, SameLabels DEF IInv
<1>10. Boxes'
  <2> SUFFICES ASSUME NEW p \in PE, NEW q \in Nbrs(p) PROVE Box(q, p)'
    BY DEF Boxes
  <2>1. q \in PE /\ p \in Nbrs(q) /\ q # p
    BY NbrsIn, NbrsBothWays, NbrsAre, SendIs
  <2>2. Box(q, p)
    BY DEF IInv, Boxes
  <2>3. /\ ~LabelsOut(q) /\ ~LabelsOut(q)' /\ ~UpdatesOut(q) /\ ~UpdatesOut(q)'
        /\ WhereOut(q) <=> WhereOut(q)'
    BY <1>1, <1>2, <2>1 DEF LabelsOut, UpdatesOut, WhereOut, ParamPhases
  <2>4. CASE p = a
    <3>1. PICK n : chan[q][a] = <<n>>
      BY <1>4, <2>4
    <3>2. chan'[q][a] = <<>>
      <4>1. chan'[q][a] = Tail(<<n>>)
        BY <1>3, <2>1, <2>4, <3>1
      <4> QED BY <4>1, Queues
    <3> QED BY <1>2, <2>3, <2>4, <3>2 DEF Box, WhereDue
  <2>5. CASE p # a
    <3>1. chan'[q][p] = chan[q][p] /\ where'[p] = where[p] /\ c' = c /\ pc'[p] = pc[p]
      BY <1>1, <1>2, <1>3, <1>6, <2>1, <2>5
    <3>2. /\ LabelsDue(p)' <=> LabelsDue(p)
          /\ UpdatesDue(p)' <=> UpdatesDue(p)
          /\ WhereDue(p)' <=> WhereDue(p)
      BY <3>1 DEF LabelsDue, UpdatesDue, WhereDue
    <3> QED BY <1>9, <2>1, <2>2, <2>3, <3>1, <3>2, SameBox
  <2> QED BY <2>4, <2>5
<1>11. NotAhead'
  <2> SUFFICES ASSUME NEW p \in PE, NEW q \in Nbrs(p)
               PROVE  /\ LabelsOut(q)' => pc'[p] # "move"
                      /\ pc'[q] = "sum" => pc'[p] \notin {"move", "pull"}
                      /\ pc'[q] = "paramsum" => pc'[p] \notin {"interior", "params"}
    BY DEF NotAhead
  <2>1. q \in PE /\ p \in Nbrs(q) /\ p # q
    BY NbrsIn, NbrsBothWays, NbrsAre, SendIs
  <2>2. q = a => pc'[p] = pc[p] /\ WhereOut(p)
    BY <1>2, <1>4, <2>1
  <2> QED BY <1>1, <1>2, <2>1, <2>2 DEF IInv, NotAhead, LabelsOut, ParamPhases, WhereOut
<1>12. Copies'
  <2> SUFFICES ASSUME NEW p \in PE, NEW v \in Ghosts(p)
               PROVE  /\ pc'[p] \in {"paramsum", "greedy", "sum"} => where'[p][v] = cur(v)'
                      /\ pc'[p] \notin {"move", "pull", "labels"}
    BY DEF Copies
  <2>1. v \in Vertex
    BY GhostsAre
  <2>2. pc'[p] \notin {"move", "pull", "labels"}
    BY <1>2 DEF ParamPhases
  <2>3. p = a => where'[p][v] = cur(v)'
    BY <1>5, <1>6, <1>9, <2>1
  <2>4. p # a => pc'[p] = pc[p] /\ where'[p] = where[p]
    BY <1>2, <1>6
  <2> QED BY <1>9, <2>1, <2>2, <2>3, <2>4 DEF IInv, Copies
<1>13. Changed'
  BY <1>1, <1>2 DEF IInv, Changed, ParamPhases
<1>14. Lists'
  <2> SUFFICES ASSUME NEW p \in PE
               PROVE  /\ pc'[p] # "move"
                      /\ pc'[p] \in {"paramsum", "greedy", "pull", "labels", "sum"} =>
                           sepind'[p] = Seps(p)'
    BY DEF Lists
  <2>1. CASE p = a
    <3>1. sepind'[a] = {v \in Own(a) : InSeparator(new[v])}
      BY <1>1 DEF IInv, Typed
    <3> QED BY <1>2, <1>6, <2>1, <3>1 DEF Seps
  <2>2. CASE p # a
    <3>1. sepind'[p] = sepind[p]
      BY <1>1, <2>2 DEF IInv, Typed
    <3>2. Seps(p)' = Seps(p)
      BY <1>6, <2>2 DEF Seps
    <3> QED BY <1>2, <2>2, <3>1, <3>2 DEF IInv, Lists, ParamPhases
  <2> QED BY <2>1, <2>2
<1>15. Pending' /\ Parted'
  <2>1. \A p \in PE : pc[p] \notin SidePhases
    BY <1>2 DEF ParamPhases, SidePhases
  <2>2. Parted'
    BY <1>9, <2>1 DEF IInv, Parted
  <2>3. Pending'
    BY <1>2, NpesAssumption DEF Pending, PE
  <2> QED BY <2>2, <2>3
<1> QED BY <1>2, <1>7, <1>9, <1>10, <1>11, <1>12, <1>13, <1>14, <1>15 DEF IInv

-----------------------------------------------------------------------------
(* The reductions.                                                         *)

\* The sides are the two parities.
LEMMA Sides == Typed => /\ cc \in {0, 1} /\ c # cc
                        /\ \A a \in Label : a % 2 = c \/ a % 2 = cc
<1> SUFFICES ASSUME Typed PROVE /\ cc \in {0, 1} /\ c # cc
                                /\ \A a \in Label : a % 2 = c \/ a % 2 = cc
  OBVIOUS
<1>1. c = 0 \/ c = 1
  BY DEF Typed
<1>2. CASE c = 0
  BY <1>2, Parity DEF cc
<1>3. CASE c = 1
  BY <1>3, Parity DEF cc
<1> QED BY <1>1, <1>2, <1>3

\* At a reduction no edge joins two sides of a separator: nothing is pending.
LEMMA InvSeparates == IInv => Separates
<1> SUFFICES ASSUME IInv, Synchronized PROVE Separated(Current, Vertex)
  BY DEF Separates
<1>1. CASE \A p \in PE : pc[p] \in SidePhases
  <2> SUFFICES ASSUME NEW u \in Vertex, NEW v \in Vertex, u \in Adj[v],
                      cur(u) < nparts, cur(v) < nparts, cur(u) # cur(v)
               PROVE  FALSE
    BY DEF Separated, Current, cur
  <2>1. cur(u) \in Label /\ cur(v) \in Label /\ PairOf(cur(u)) = PairOf(cur(v)) /\ v \in Adj[u]
    BY EdgesBothWays DEF IInv, Paired
  <2>2. cur(u) % 2 # cur(v) % 2
    BY <2>1, TwoParts
  <2>3. Crosses(u, v) \/ Crosses(v, u)
    BY <2>1, <2>2, Sides DEF IInv, Crosses
  <2>4. pc[Owner[u]] = "sum" /\ pc[Owner[v]] = "sum"
    BY <1>1, OwnerIn DEF Synchronized, SidePhases
  <2> QED BY <1>1, <2>1, <2>3, <2>4 DEF IInv, Pending, UpdatesDue
<1>2. CASE \A p \in PE : pc[p] \notin SidePhases
  BY <1>2 DEF IInv, Parted
<1> QED BY <1>1, <1>2 DEF IInv, Together, SidePhases, ParamPhases

\* All PEs leave a reduction together.
LEMMA BarrierKeeps ==
  ASSUME IInv, NEW x \in {"greedy", "done", "interior", "move"}, pc' = [p \in PE |-> x],
         \A p \in PE : pc[p] \in {"paramsum", "greedy", "sum"},
         UNCHANGED <<where, update, supdate, changed, chan>>,
         c' \in {0, 1}, sepind' \in [PE -> SUBSET Vertex], queue' \in [PE -> SUBSET Vertex], Lists'
  PROVE  IInv'
<1>1. Separated(Current, Vertex)
  BY InvSeparates DEF Synchronized, Separates
<1>2. \A p \in PE : pc'[p] = x
  OBVIOUS
<1>3. Together'
  BY <1>2 DEF Together, SidePhases, ParamPhases
<1>4. Typed'
  BY DEF IInv, Typed
<1>5. \A v \in Vertex : cur(v)' = cur(v) /\ cur(v) \in Label /\ PairOf(cur(v)) \in Pairs
  BY DEF cur, IInv, Paired
<1>6. Paired'
  <2>1. \A v \in Vertex : cur(v)' \in Label /\ PairOf(cur(v)') \in Pairs
    BY <1>5
  <2>2. ASSUME NEW v \in Vertex, NEW u \in Adj[v] PROVE PairOf(cur(u)') = PairOf(cur(v)')
    BY <1>5, EdgesBothWays DEF IInv, Paired
  <2> QED BY <2>1, <2>2 DEF Paired, PairOf, InSeparator
<1>7. Boxes'
  <2> SUFFICES ASSUME NEW p \in PE, NEW q \in Nbrs(p) PROVE Box(q, p)'
    BY DEF Boxes
  <2>1. q \in PE /\ Box(q, p)
    BY NbrsIn DEF IInv, Boxes
  <2>2. chan[q][p] = <<>>
    BY <2>1 DEF Box, UpdatesDue, LabelsDue, WhereDue
  <2> QED BY <1>2, <2>1, <2>2 DEF Box, LabelsOut, UpdatesOut, WhereOut
<1>8. NotAhead'
  BY <1>2, NbrsIn DEF NotAhead, LabelsOut
<1>9. Copies'
  <2> SUFFICES ASSUME NEW p \in PE, NEW v \in Ghosts(p) PROVE where'[p][v] = cur(v)'
    BY DEF Copies
  <2> QED BY <1>5, GhostsAre DEF IInv, Copies
<1>10. Changed'
  <2>1. \A p \in PE : changed'[p] = {}
    BY DEF IInv, Changed
  <2> QED BY <2>1 DEF Changed
<1>11. Current' = Current
  BY DEF Current
<1>12. Separated(Current, Vertex)'
  BY <1>1, <1>11 DEF Separated
<1>13. Pending'
  <2> SUFFICES ASSUME NEW v \in Vertex, NEW u \in Adj[v], Crosses(u, v)' PROVE FALSE
    BY DEF Pending
  <2>1. c' # cc'
    <3>1. c' = 0 \/ c' = 1
      OBVIOUS
    <3>2. CASE c' = 0
      BY <3>2 DEF cc
    <3>3. CASE c' = 1
      BY <3>3 DEF cc
    <3> QED BY <3>1, <3>2, <3>3
  <2>2. u \in Vertex /\ Current'[u] = cur(u)' /\ Current'[v] = cur(v)'
    BY EdgesBothWays DEF Current, cur
  <2> QED BY <1>12, <2>1, <2>2 DEF Crosses, Separated
<1> QED BY <1>3, <1>4, <1>6, <1>7, <1>8, <1>9, <1>10, <1>12, <1>13 DEF IInv, Parted

LEMMA ReduceParamsKeeps == ASSUME IInv, ReduceParams PROVE IInv'
<1>1. /\ \A p \in PE : pc[p] = "paramsum"
      /\ UNCHANGED <<where, sepind, queue, update, supdate, changed, chan, c>>
  BY DEF ReduceParams, greedy
<1>2. PICK x \in {"done", "greedy"} : pc' = [p \in PE |-> x]
  <2>1. ReduceParams => \/ pc' = [p \in PE |-> "done"] \/ pc' = [p \in PE |-> "greedy"]
    BY Zenon DEF ReduceParams
  <2> QED BY <2>1
<1>3. Lists'
  <2>1. \A p \in PE : sepind'[p] = Seps(p)'
    BY <1>1 DEF IInv, Lists, Seps
  <2> QED BY <1>2, <2>1 DEF Lists
<1>4. c' \in {0, 1} /\ sepind' \in [PE -> SUBSET Vertex] /\ queue' \in [PE -> SUBSET Vertex]
  BY <1>1 DEF IInv, Typed
<1> QED BY <1>1, <1>2, <1>3, <1>4, BarrierKeeps

\* The lists at the beginning of a side.
LEMMA SideLists ==
  ASSUME \A p \in PE : sepind[p] = Seps(p), Typed, where' = where,
         queue' = sepind, sepind' = [p \in PE |-> {}], pc' = [p \in PE |-> "move"]
  PROVE  Lists' /\ sepind' \in [PE -> SUBSET Vertex] /\ queue' \in [PE -> SUBSET Vertex]
<1>1. \A p \in PE : Seps(p)' = Seps(p)
  BY DEF Seps
<1>2. Lists'
  BY <1>1 DEF Lists
<1> QED BY <1>2 DEF Typed

LEMMA StartGreedyKeeps == ASSUME IInv, StartGreedy PROVE IInv'
<1>1. /\ \A p \in PE : pc[p] = "greedy"
      /\ UNCHANGED <<where, update, supdate, changed, chan>>
      /\ c' \in {0, 1} /\ queue' = sepind /\ sepind' = [p \in PE |-> {}]
      /\ pc' = [p \in PE |-> "move"]
  BY DEF StartGreedy
<1>2. \A p \in PE : sepind[p] = Seps(p)
  BY <1>1 DEF IInv, Lists
<1>3. Lists' /\ sepind' \in [PE -> SUBSET Vertex] /\ queue' \in [PE -> SUBSET Vertex]
  BY <1>1, <1>2, SideLists DEF IInv
<1> QED BY <1>1, <1>3, BarrierKeeps

LEMMA EndSideKeeps == ASSUME IInv, EndSide PROVE IInv'
<1>1. /\ \A p \in PE : pc[p] = "sum"
      /\ UNCHANGED <<where, update, supdate, changed, chan>>
  BY DEF EndSide
<1>2. \A p \in PE : sepind[p] = Seps(p)
  BY <1>1 DEF IInv, Lists
<1>3. \/ pc' = [p \in PE |-> AfterGreedy] /\ UNCHANGED <<c, queue, sepind>>
      \/ /\ pc' = [p \in PE |-> "move"] /\ queue' = sepind /\ sepind' = [p \in PE |-> {}]
         /\ c' = cc
  BY DEF EndSide
<1>4. CASE pc' = [p \in PE |-> AfterGreedy] /\ UNCHANGED <<c, queue, sepind>>
  <2>1. AfterGreedy \in {"done", "interior"}
    BY DEF AfterGreedy
  <2>2. Lists'
    BY <1>4, <2>1 DEF Lists
  <2>3. c' \in {0, 1} /\ sepind' \in [PE -> SUBSET Vertex] /\ queue' \in [PE -> SUBSET Vertex]
    BY <1>4 DEF IInv, Typed
  <2> QED BY <1>1, <1>4, <2>1, <2>2, <2>3, BarrierKeeps
<1>5. CASE /\ pc' = [p \in PE |-> "move"] /\ queue' = sepind /\ sepind' = [p \in PE |-> {}]
           /\ c' = cc
  <2>1. Lists' /\ sepind' \in [PE -> SUBSET Vertex] /\ queue' \in [PE -> SUBSET Vertex]
    BY <1>1, <1>2, <1>5, SideLists DEF IInv
  <2>2. c' \in {0, 1}
    BY <1>5, Sides DEF IInv
  <2> QED BY <1>1, <1>5, <2>1, <2>2, BarrierKeeps
<1> QED BY <1>3, <1>4, <1>5

-----------------------------------------------------------------------------
(* KWayNodeRefineInterior.                                                 *)

\* The labels of a pair.
LEMMA PairLabels ==
  ASSUME NEW g \in Pairs
  PROVE  /\ \A x \in {g, g + 1, nparts + g} : x \in Label /\ PairOf(x) = g
         /\ \A x \in Label : PairOf(x) = g => x \in {g, g + 1, nparts + g}
<1>1. /\ g \in Label /\ PairOf(g) = g /\ g + 1 \in Label /\ PairOf(g + 1) = g
  BY PartsAssumption DEF Pairs, Label, PairOf, InSeparator
<1>2. nparts + g \in Label /\ PairOf(nparts + g) = g
  BY PartsAssumption DEF Pairs, Label, PairOf, InSeparator
<1>3. ASSUME NEW x \in Label, PairOf(x) = g PROVE x \in {g, g + 1, nparts + g}
  BY <1>3, PartsAssumption DEF Pairs, Label, PairOf, InSeparator
<1> QED BY <1>1, <1>2, <1>3

LEMMA OfPairIs ==
  ASSUME Paired, NEW a \in PE, NEW g \in Pairs, NEW v \in Own(a)
  PROVE  v \in OfPair(a, g) <=> PairOf(where[a][v]) = g
<1>1. cur(v) = where[a][v] /\ cur(v) \in Label
  BY OwnIs DEF cur, Paired
<1> QED BY <1>1, PairLabels DEF OfPair

\* METIS leaves the vertices in their pairs, the border alone, and no edge between two sides.
LEMMA RefinedLabels ==
  ASSUME Paired, Typed, Separated(Current, Vertex), NEW a \in PE, NEW new \in RefinementsOf(a)
  PROVE  /\ new \in [Own(a) \union Ghosts(a) -> Int]
         /\ \A v \in Ghosts(a) \union Border(a) : new[v] = where[a][v]
         /\ \A v \in Own(a) : new[v] \in Label /\ PairOf(new[v]) = PairOf(where[a][v])
         /\ \A u, v \in Own(a) : u \in Adj[v] /\ new[u] < nparts /\ new[v] < nparts => new[u] = new[v]
<1> DEFINE of(g)   == NodeRefinements(where[a], OfPair(a, g), Border(a), g)
           refined == UNION {OfPair(a, g) : g \in RefinedPairs(a)}
<1>1. PICK n : /\ \A g \in RefinedPairs(a) : n[g] \in of(g)
               /\ new = [v \in DOMAIN where[a] |->
                           IF v \in refined THEN n[PairOf(where[a][v])][v] ELSE where[a][v]]
  BY DEF RefinementsOf
<1>2. DOMAIN where[a] = Own(a) \union Ghosts(a) /\ where[a] \in [Own(a) \union Ghosts(a) -> Int]
  BY DEF Typed
<1>3. ASSUME NEW v \in Own(a), v \in refined
      PROVE  \E g \in RefinedPairs(a) : /\ g \in Pairs /\ PairOf(where[a][v]) = g /\ v \in OfPair(a, g)
                                        /\ new[v] = n[g][v]
  <2>1. PICK g \in RefinedPairs(a) : v \in OfPair(a, g)
    BY <1>3
  <2>2. g \in Pairs
    BY DEF RefinedPairs
  <2>3. PairOf(where[a][v]) = g
    BY <2>1, <2>2, OfPairIs
  <2>4. new[v] = n[PairOf(where[a][v])][v]
    BY <1>1, <1>2, <1>3
  <2> QED BY <2>1, <2>2, <2>3, <2>4
<1>4. ASSUME NEW g \in RefinedPairs(a)
      PROVE  /\ \A v \in OfPair(a, g) : n[g][v] \in {g, g + 1, nparts + g}
             /\ \A v \in OfPair(a, g) \intersect Border(a) : n[g][v] = where[a][v]
             /\ Separated(n[g], OfPair(a, g))
  BY <1>1 DEF NodeRefinements
<1>5. \A v \in Own(a) \union Ghosts(a) : v \notin refined => new[v] = where[a][v]
  BY <1>1, <1>2
<1>6. \A v \in Ghosts(a) : new[v] = where[a][v]
  <2>1. \A v \in Ghosts(a) : v \notin refined
    BY GhostsAre, OwnIs DEF OfPair
  <2> QED BY <1>5, <2>1
<1> HIDE DEF refined, of
<1>7. ASSUME NEW v \in Own(a)
      PROVE  new[v] \in Label /\ PairOf(new[v]) = PairOf(where[a][v])
  <2>1. CASE v \in refined
    <3>1. PICK g \in RefinedPairs(a) : /\ g \in Pairs /\ PairOf(where[a][v]) = g /\ v \in OfPair(a, g)
                                       /\ new[v] = n[g][v]
      BY <1>3, <2>1
    <3>2. new[v] \in {g, g + 1, nparts + g}
      BY <1>4, <3>1
    <3> QED BY <3>1, <3>2, PairLabels
  <2>2. CASE v \notin refined
    BY <1>5, <2>2, OwnIs DEF Paired, cur
  <2> QED BY <2>1, <2>2
<1>8. ASSUME NEW v \in Border(a) PROVE new[v] = where[a][v]
  <2>1. v \in Own(a)
    BY SendIs DEF Border
  <2>2. CASE v \in refined
    BY <1>3, <1>4, <2>1, <2>2
  <2>3. CASE v \notin refined
    BY <1>5, <2>1, <2>3
  <2> QED BY <2>2, <2>3
<1>9. ASSUME NEW u \in Own(a), NEW v \in Own(a), u \in Adj[v], new[u] < nparts, new[v] < nparts
      PROVE  new[u] = new[v]
  <2>1. /\ u \in Vertex /\ v \in Vertex /\ cur(u) = where[a][u] /\ cur(v) = where[a][v]
    BY OwnIs DEF cur
  <2>2. PairOf(where[a][u]) = PairOf(where[a][v])
    BY <1>9, <2>1 DEF Paired
  <2>3. CASE u \in refined \/ v \in refined
    <3>1. PICK g \in RefinedPairs(a) : g \in Pairs /\ PairOf(where[a][v]) = g
      BY <1>3, <2>2, <2>3
    <3>2. u \in OfPair(a, g) /\ v \in OfPair(a, g)
      BY <2>2, <3>1, OfPairIs
    <3>3. u \in refined /\ v \in refined
      BY <3>2 DEF refined
    <3>4. new[u] = n[g][u] /\ new[v] = n[g][v]
      BY <1>3, <2>2, <3>1, <3>3
    <3> QED BY <1>4, <1>9, <3>2, <3>4 DEF Separated
  <2>4. CASE u \notin refined /\ v \notin refined
    <3>1. new[u] = Current[u] /\ new[v] = Current[v]
      BY <1>5, <2>1, <2>4, OwnIs DEF Current
    <3> QED BY <1>9, <2>1, <3>1 DEF Separated
  <2> QED BY <2>3, <2>4
<1>10. new \in [Own(a) \union Ghosts(a) -> Int]
  <2>1. DOMAIN new = Own(a) \union Ghosts(a) /\ new = [v \in Own(a) \union Ghosts(a) |-> new[v]]
    BY <1>1, <1>2
  <2>2. \A v \in Own(a) \union Ghosts(a) : new[v] \in Int
    BY <1>2, <1>6, <1>7, Parity
  <2> QED BY <2>1, <2>2
<1> QED BY <1>6, <1>7, <1>8, <1>9, <1>10

LEMMA RefineInteriorKeeps == ASSUME IInv, NEW a \in PE, RefineInterior(a) PROVE IInv'
<1>1. PICK new \in RefinementsOf(a) : where' = [where EXCEPT ![a] = new]
  BY DEF RefineInterior
<1>2. /\ pc[a] = "interior" /\ pc' = [pc EXCEPT ![a] = "params"]
      /\ UNCHANGED <<sepind, queue, update, supdate, changed, chan, c>>
  BY DEF RefineInterior, greedy
<1>3. /\ Together' /\ pc'[a] = "params" /\ \A p \in PE : p # a => pc'[p] = pc[p]
      /\ \A p \in PE : pc[p] \in ParamPhases /\ pc'[p] \in ParamPhases
      /\ (\A p \in PE : pc'[p] \notin SidePhases) /\ (\A p \in PE : pc[p] \notin SidePhases)
  <2>1. pc[a] \in ParamPhases /\ "params" \in ParamPhases
    BY <1>2 DEF ParamPhases
  <2>2. /\ Together' /\ pc'[a] = "params" /\ \A p \in PE : p # a => pc'[p] = pc[p]
        /\ \A p \in PE : pc[p] \in ParamPhases
    BY <1>2, <2>1, StaysTogether DEF IInv
  <2> QED BY <2>1, <2>2 DEF ParamPhases, SidePhases
<1>4. Separated(Current, Vertex)
  BY <1>3 DEF IInv, Parted
<1>5. /\ new \in [Own(a) \union Ghosts(a) -> Int]
      /\ \A v \in Ghosts(a) \union Border(a) : new[v] = where[a][v]
      /\ \A v \in Own(a) : new[v] \in Label /\ PairOf(new[v]) = PairOf(where[a][v])
      /\ \A u, v \in Own(a) : u \in Adj[v] /\ new[u] < nparts /\ new[v] < nparts => new[u] = new[v]
  BY <1>4, RefinedLabels DEF IInv
<1>6. /\ where' = [p \in PE |-> where'[p]] /\ where'[a] = new
      /\ \A p \in PE : p # a => where'[p] = where[p]
  <2>1. where = [p \in PE |-> where[p]]
    BY DEF IInv, Typed
  <2> QED BY <1>1, <2>1
<1>7. Typed'
  <2>1. \A p \in PE : where'[p] \in [Own(p) \union Ghosts(p) -> Int]
    BY <1>5, <1>6 DEF IInv, Typed
  <2> QED BY <1>2, <1>6, <2>1 DEF IInv, Typed
\* What other PEs know of stays as it is.
<1>8. ASSUME NEW v \in Vertex, Owner[v] # a \/ v \in Border(a) PROVE cur(v)' = cur(v)
  BY <1>5, <1>6, <1>8, OwnerIn DEF cur
<1>9. ASSUME NEW p \in PE, NEW q \in PE, NEW v \in Send(q, p)
      PROVE  v \in Vertex /\ Owner[v] = q /\ cur(v)' = cur(v)
  <2>1. v \in Vertex /\ Owner[v] = q
    BY SendIs, OwnIs
  <2>2. q = a => v \in Border(a)
    BY DEF Border
  <2> QED BY <1>8, <2>1, <2>2
<1>10. \A v \in Vertex : cur(v)' \in Label /\ PairOf(cur(v)') = PairOf(cur(v))
  <2> SUFFICES ASSUME NEW v \in Vertex PROVE cur(v)' \in Label /\ PairOf(cur(v)') = PairOf(cur(v))
    OBVIOUS
  <2>1. CASE Owner[v] = a
    BY <1>5, <1>6, <2>1, OwnerIn DEF cur
  <2>2. CASE Owner[v] # a
    BY <1>8, <2>2 DEF IInv, Paired
  <2> QED BY <2>1, <2>2
<1>11. Paired'
  <2>1. \A v \in Vertex : cur(v)' \in Label /\ PairOf(cur(v)') \in Pairs
    BY <1>10 DEF IInv, Paired
  <2>2. ASSUME NEW v \in Vertex, NEW u \in Adj[v] PROVE PairOf(cur(u)') = PairOf(cur(v)')
    BY <1>10, EdgesBothWays DEF IInv, Paired
  <2> QED BY <2>1, <2>2 DEF Paired, PairOf, InSeparator
<1>12. Separated(Current, Vertex)'
  <2> SUFFICES ASSUME NEW u \in Vertex, NEW v \in Vertex, u \in Adj[v],
                      cur(u)' < nparts, cur(v)' < nparts
               PROVE  cur(u)' = cur(v)'
    BY DEF Separated, Current, cur
  <2>1. CASE Owner[u] = a /\ Owner[v] = a
    BY <1>5, <1>6, <2>1, OwnerIn DEF cur
  <2>2. CASE Owner[u] # a \/ Owner[v] # a
    <3>1. v \in Adj[u]
      BY EdgesBothWays
    <3>2. Owner[u] = a /\ Owner[v] # a => u \in Border(a)
      BY <3>1, SendIs, OwnerIn DEF Border
    <3>3. Owner[v] = a /\ Owner[u] # a => v \in Border(a)
      BY <3>1, SendIs, OwnerIn DEF Border
    <3>4. cur(u)' = cur(u) /\ cur(v)' = cur(v)
      BY <1>8, <2>2, <3>2, <3>3
    <3> QED BY <1>4, <3>4 DEF Separated, Current, cur
  <2> QED BY <2>1, <2>2
<1>13. Boxes'
  <2> SUFFICES ASSUME NEW p \in PE, NEW q \in Nbrs(p) PROVE Box(q, p)'
    BY DEF Boxes
  <2>1. q \in PE /\ Box(q, p)
    BY NbrsIn DEF IInv, Boxes
  <2>2. /\ ~LabelsOut(q) /\ ~LabelsOut(q)' /\ ~UpdatesOut(q) /\ ~UpdatesOut(q)'
        /\ WhereOut(q) <=> WhereOut(q)'
        /\ WhereDue(p) <=> WhereDue(p)'
    BY <1>2, <1>3, <2>1 DEF LabelsOut, UpdatesOut, WhereOut, WhereDue, ParamPhases
  <2>3. chan'[q][p] = chan[q][p]
    BY <1>2
  <2>4. CASE WhereOut(q) /\ WhereDue(p)
    <3>1. PICK n : chan[q][p] = <<n>> /\ GoodWhere(q, p, n)
      BY <2>1, <2>2, <2>4 DEF Box
    <3>2. GoodWhere(q, p, n)'
      BY <1>9, <2>1, <3>1 DEF GoodWhere
    <3> QED BY <2>2, <2>3, <2>4, <3>1, <3>2 DEF Box
  <2>5. CASE ~(WhereOut(q) /\ WhereDue(p))
    BY <2>1, <2>2, <2>3, <2>5 DEF Box
  <2> QED BY <2>4, <2>5
<1>14. NotAhead'
  <2> SUFFICES ASSUME NEW p \in PE, NEW q \in Nbrs(p)
               PROVE  /\ LabelsOut(q)' => pc'[p] # "move"
                      /\ pc'[q] = "sum" => pc'[p] \notin {"move", "pull"}
                      /\ pc'[q] = "paramsum" => pc'[p] \notin {"interior", "params"}
    BY DEF NotAhead
  <2>1. q \in PE
    BY NbrsIn
  <2> QED BY <1>2, <1>3, <2>1 DEF IInv, NotAhead, LabelsOut, ParamPhases
<1>15. Copies'
  <2> SUFFICES ASSUME NEW p \in PE, NEW v \in Ghosts(p)
               PROVE  /\ pc'[p] \in {"paramsum", "greedy", "sum"} => where'[p][v] = cur(v)'
                      /\ pc'[p] \notin {"move", "pull", "labels"}
    BY DEF Copies
  <2>1. v \in Vertex /\ v \in Send(Owner[v], p) /\ Owner[v] \in PE
    BY GhostsAre, OwnerIn
  <2>2. cur(v)' = cur(v)
    BY <1>9, <2>1
  <2>3. pc'[p] \notin {"move", "pull", "labels"}
    BY <1>3 DEF ParamPhases
  <2>4. p # a => pc'[p] = pc[p] /\ where'[p] = where[p]
    BY <1>3, <1>6
  <2> QED BY <1>3, <2>2, <2>3, <2>4 DEF IInv, Copies
<1>16. Changed'
  BY <1>2, <1>3 DEF IInv, Changed, ParamPhases
<1>17. Lists'
  <2> SUFFICES ASSUME NEW p \in PE
               PROVE  /\ pc'[p] # "move"
                      /\ pc'[p] \in {"paramsum", "greedy", "pull", "labels", "sum"} =>
                           sepind'[p] = Seps(p)'
    BY DEF Lists
  <2>1. p # a => Seps(p)' = Seps(p)
    BY <1>6 DEF Seps
  <2> QED BY <1>2, <1>3, <2>1 DEF IInv, Lists, ParamPhases
<1>18. Pending'
  BY <1>3, NpesAssumption DEF Pending, PE
<1> QED BY <1>3, <1>7, <1>11, <1>12, <1>13, <1>14, <1>15, <1>16, <1>17, <1>18 DEF IInv, Parted

-----------------------------------------------------------------------------
(* KWayNodeRefine_Greedy: the moves.                                       *)

LEMMA StaysInSide ==
  ASSUME Together, NEW a \in PE, NEW x \in SidePhases, pc[a] \in SidePhases,
         pc' = [pc EXCEPT ![a] = x]
  PROVE  /\ Together' /\ pc'[a] = x /\ \A p \in PE : p # a => pc'[p] = pc[p]
         /\ \A p \in PE : pc[p] \in SidePhases /\ pc'[p] \in SidePhases
<1>1. pc'[a] = x /\ \A p \in PE : p # a => pc'[p] = pc[p]
  BY DEF Together
<1>2. \A p \in PE : pc[p] \in SidePhases
  BY DEF Together, SidePhases, ParamPhases
<1>3. \A p \in PE : pc'[p] \in SidePhases
  BY <1>1, <1>2
<1>4. pc' \in [PE -> SidePhases \union ParamPhases \union {"greedy", "done"}]
  BY DEF Together
<1> QED BY <1>1, <1>2, <1>3, <1>4 DEF Together

LEMMA AllInSide ==
  ASSUME Together, NEW a \in PE, pc[a] \in SidePhases
  PROVE  \A p \in PE : pc[p] \in {"move", "pull", "labels", "sum"}
BY DEF Together, SidePhases, ParamPhases

\* A queued vertex that does not fit stays in the separator.
LEMMA StayKeeps ==
  ASSUME IInv, NEW a \in PE, NEW v \in queue[a],
         UNCHANGED <<pc, c, where, update, supdate, changed, chan>>,
         queue' = [queue EXCEPT ![a] = @ \ {v}], sepind' = [sepind EXCEPT ![a] = @ \union {v}],
         pc[a] = "move"
  PROVE  IInv'
<1>1. \A p \in PE : /\ queue'[p] = IF p = a THEN queue[p] \ {v} ELSE queue[p]
                    /\ sepind'[p] = IF p = a THEN sepind[p] \union {v} ELSE sepind[p]
  BY DEF IInv, Typed
<1>2. v \in Vertex
  BY DEF IInv, Typed
<1>3. Typed'
  BY <1>2 DEF IInv, Typed
<1>4. \A w \in Vertex : where'[Owner[w]][w] = where[Owner[w]][w]
  OBVIOUS
<1>5. /\ \A w \in Vertex : cur(w)' = cur(w)
      /\ \A u, w \in Vertex : Crosses(u, w)' <=> Crosses(u, w)
      /\ \A p, q \in PE : \A u \in Own(q), w \in Own(p) : Crosses(u, w)' => Crosses(u, w)
      /\ \A p, q \in PE : \A w \in Send(q, p) : w \in Vertex /\ cur(w)' = cur(w)
      /\ Paired'
  BY <1>4, SameLabels DEF IInv
<1>6. Together' /\ NotAhead'
  BY DEF IInv, Together, NotAhead, LabelsOut
<1>7. Boxes'
  <2> SUFFICES ASSUME NEW p \in PE, NEW q \in Nbrs(p) PROVE Box(q, p)'
    BY DEF Boxes
  <2>1. q \in PE /\ Box(q, p)
    BY NbrsIn DEF IInv, Boxes
  <2>2. /\ LabelsOut(q)' <=> LabelsOut(q)
        /\ UpdatesOut(q)' <=> UpdatesOut(q)
        /\ WhereOut(q)' <=> WhereOut(q)
        /\ LabelsDue(p)' <=> LabelsDue(p)
        /\ UpdatesDue(p)' <=> UpdatesDue(p)
        /\ WhereDue(p)' <=> WhereDue(p)
    BY DEF LabelsOut, UpdatesOut, WhereOut, LabelsDue, UpdatesDue, WhereDue
  <2>3. chan'[q][p] = chan[q][p] /\ \A w \in Send(q, p) : where'[p][w] = where[p][w]
    OBVIOUS
  <2> QED BY <1>5, <2>1, <2>2, <2>3, SameBox
<1>8. Copies'
  <2> SUFFICES ASSUME NEW p \in PE, NEW w \in Ghosts(p)
               PROVE  /\ pc'[p] \in {"paramsum", "greedy", "sum"} => where'[p][w] = cur(w)'
                      /\ pc'[p] \in {"move", "pull", "labels"} /\ ~LabelsOut(Owner[w])' =>
                           where'[p][w] = cur(w)' \/ w \in changed'[Owner[w]]
    BY DEF Copies
  <2>1. cur(w)' = cur(w)
    BY <1>5, GhostsAre
  <2> QED BY <2>1 DEF IInv, Copies, LabelsOut
<1>9. Changed'
  <2> SUFFICES ASSUME NEW p \in PE
               PROVE  /\ pc'[p] \in {"move", "pull"} => \A w \in changed'[p] :
                           w \in Own(p) /\ cur(w)' < nparts /\ cur(w)' % 2 = c'
                      /\ pc'[p] \notin {"move", "pull"} => changed'[p] = {}
    BY DEF Changed
  <2>1. \A w \in Own(p) : cur(w)' = cur(w)
    BY <1>5, OwnIs
  <2> QED BY <2>1 DEF IInv, Changed
<1>10. Lists'
  <2> SUFFICES ASSUME NEW p \in PE
               PROVE  /\ pc'[p] \in {"paramsum", "greedy", "pull", "labels", "sum"} =>
                           sepind'[p] = Seps(p)'
                      /\ pc'[p] = "move" => /\ sepind'[p] \union queue'[p] = Seps(p)'
                                            /\ sepind'[p] \intersect queue'[p] = {}
    BY DEF Lists
  <2>1. Seps(p)' = Seps(p)
    BY DEF Seps
  <2> QED BY <1>1, <2>1 DEF IInv, Lists
<1>11. Pending' /\ Parted'
  <2>1. pc'[a] \in SidePhases /\ pc[a] \in SidePhases /\ \A p \in PE : pc[p] \in SidePhases
    BY AllInSide DEF SidePhases, IInv
  <2>2. Pending'
    <3> SUFFICES ASSUME NEW x \in Vertex, NEW u \in Adj[x], Crosses(u, x)'
                 PROVE  IF Owner[u] = Owner[x]
                        THEN pc'[Owner[x]] \in {"move", "pull"} /\ x \in update'[Owner[x]]
                        ELSE \/ pc'[Owner[u]] = "move" /\ x \in supdate'[Owner[u]]
                             \/ UpdatesOut(Owner[u])' /\ UpdatesDue(Owner[x])'
      BY DEF Pending
    <3>1. Crosses(u, x)
      BY <1>5, EdgesBothWays
    <3> QED BY <2>1, <3>1 DEF IInv, Pending, UpdatesOut, UpdatesDue
  <2> QED BY <2>1, <2>2 DEF Parted
<1> QED BY <1>3, <1>5, <1>6, <1>7, <1>8, <1>9, <1>10, <1>11 DEF IInv

\* A vertex that fits leaves the separator for the side of parity c.
LEMMA LeaveKeeps ==
  ASSUME IInv, NEW a \in PE, NEW v \in queue[a], pc[a] = "move",
         where' = [where EXCEPT ![a][v] = To(a, v)],
         update' = [update EXCEPT ![a] = @ \union (Near(a, v) \intersect Own(a))],
         supdate' = [supdate EXCEPT ![a] = @ \union (Near(a, v) \ Own(a))],
         changed' = [changed EXCEPT ![a] = @ \union {v}],
         queue' = [queue EXCEPT ![a] = @ \ {v}],
         UNCHANGED <<pc, c, sepind, chan>>
  PROVE  IInv'
<1> DEFINE to == To(a, v)
<1>1. /\ v \in Own(a) /\ v \in Vertex /\ Owner[v] = a /\ InSeparator(where[a][v])
      /\ v \notin sepind[a]
  BY OwnIs DEF IInv, Lists, Seps
<1>2. /\ to \in Label /\ to \in Int /\ to < nparts /\ to % 2 = c /\ PairOf(to) = PairOf(cur(v))
      /\ cur(v) = where[a][v]
  <2>1. cur(v) = where[a][v] /\ cur(v) \in Label /\ PairOf(cur(v)) \in Pairs
    BY <1>1 DEF IInv, Paired, cur
  <2>2. where[a][v] % nparts = PairOf(cur(v))
    BY <1>1, <2>1, SeparatorLabel
  <2>3. to = PairOf(cur(v)) + c
    BY <2>2 DEF To
  <2>4. c \in {0, 1}
    BY DEF IInv, Typed
  <2> QED BY <2>1, <2>3, <2>4, PartLabel, Parity
<1> HIDE DEF to
<1>3. /\ where' = [p \in PE |-> where'[p]] /\ where'[a] = [where[a] EXCEPT ![v] = to]
      /\ \A p \in PE : p # a => where'[p] = where[p]
  <2>1. where = [p \in PE |-> where[p]]
    BY DEF IInv, Typed
  <2>2. where' = [where EXCEPT ![a] = [where[a] EXCEPT ![v] = to]]
    BY DEF to
  <2> QED BY <2>1, <2>2
<1>4. /\ DOMAIN where[a] = Own(a) \union Ghosts(a)
      /\ where'[a][v] = to /\ \A x \in Own(a) \union Ghosts(a) : x # v => where'[a][x] = where[a][x]
  <2>1. where[a] \in [Own(a) \union Ghosts(a) -> Int]
    BY DEF IInv, Typed
  <2> QED BY <1>1, <1>3, <2>1
<1>5. \A p \in PE :
        /\ update'[p] = IF p = a THEN update[p] \union (Near(a, v) \intersect Own(a)) ELSE update[p]
        /\ supdate'[p] = IF p = a THEN supdate[p] \union (Near(a, v) \ Own(a)) ELSE supdate[p]
        /\ changed'[p] = IF p = a THEN changed[p] \union {v} ELSE changed[p]
        /\ queue'[p] = IF p = a THEN queue[p] \ {v} ELSE queue[p]
  BY DEF IInv, Typed
<1>5a. /\ update'[a] = update[a] \union (Near(a, v) \intersect Own(a))
       /\ supdate'[a] = supdate[a] \union (Near(a, v) \ Own(a))
       /\ changed'[a] = changed[a] \union {v} /\ queue'[a] = queue[a] \ {v}
       /\ sepind'[a] = sepind[a] /\ pc'[a] = "move"
  BY <1>5
<1>6. \A x \in Near(a, v) : x \in Vertex
  BY <1>1, EdgesBothWays DEF Near
<1>7. Typed'
  <2>1. \A p \in PE : where'[p] \in [Own(p) \union Ghosts(p) -> Int]
    <3> SUFFICES ASSUME NEW p \in PE PROVE where'[p] \in [Own(p) \union Ghosts(p) -> Int]
      OBVIOUS
    <3>1. where[p] \in [Own(p) \union Ghosts(p) -> Int]
      BY DEF IInv, Typed
    <3> QED BY <1>2, <1>3, <3>1
  <2>2. /\ update' \in [PE -> SUBSET Vertex] /\ supdate' \in [PE -> SUBSET Vertex]
        /\ \A p \in PE : update'[p] \subseteq Own(p)
    BY <1>5, <1>6 DEF IInv, Typed
  <2>3. changed' \in [PE -> SUBSET Vertex] /\ queue' \in [PE -> SUBSET Vertex]
    BY <1>1, <1>5 DEF IInv, Typed
  <2>4. c' \in {0, 1} /\ sepind' \in [PE -> SUBSET Vertex]
        /\ chan' = [q \in PE |-> [p \in PE |-> chan'[q][p]]]
    BY DEF IInv, Typed
  <2> QED BY <1>3, <2>1, <2>2, <2>3, <2>4 DEF Typed
<1>8. cur(v)' = to /\ \A x \in Vertex : x # v => cur(x)' = cur(x)
  <2>1. cur(v)' = to
    BY <1>1, <1>4 DEF cur
  <2>2. ASSUME NEW x \in Vertex, x # v PROVE cur(x)' = cur(x)
    BY <1>3, <1>4, <2>2, OwnerIn DEF cur
  <2> QED BY <2>1, <2>2
<1>9. Paired'
  <2>1. \A x \in Vertex : cur(x)' \in Label /\ PairOf(cur(x)') = PairOf(cur(x))
    BY <1>2, <1>8 DEF IInv, Paired
  <2>2. \A x \in Vertex : cur(x)' \in Label /\ PairOf(cur(x)') \in Pairs
    BY <2>1 DEF IInv, Paired
  <2>3. ASSUME NEW w \in Vertex, NEW u \in Adj[w] PROVE PairOf(cur(u)') = PairOf(cur(w)')
    BY <2>1, EdgesBothWays DEF IInv, Paired
  <2> QED BY <2>2, <2>3 DEF Paired, PairOf, InSeparator
\* The only edges that newly join two sides are those of v.
<1>10. ASSUME NEW u \in Vertex, NEW w \in Vertex, Crosses(u, w)' PROVE Crosses(u, w) \/ u = v
  <2>1. cc' = cc /\ c # cc /\ c' = c
    BY Sides DEF IInv, cc
  <2>2. w # v
    BY <1>2, <1>8, <1>10, <2>1 DEF Crosses
  <2>3. CASE u # v
    BY <1>8, <1>10, <2>1, <2>2, <2>3 DEF Crosses
  <2> QED BY <2>3
<1>11. \A p \in PE : pc[p] \in {"move", "pull", "labels", "sum"}
  BY AllInSide DEF IInv, SidePhases
<1>12. Together' /\ NotAhead'
  BY DEF IInv, Together, NotAhead, LabelsOut
<1>13. Boxes'
  <2> SUFFICES ASSUME NEW p \in PE, NEW q \in Nbrs(p) PROVE Box(q, p)'
    BY DEF Boxes
  <2>1. q \in PE /\ Box(q, p)
    BY NbrsIn DEF IInv, Boxes
  <2>2. /\ LabelsOut(q)' <=> LabelsOut(q)
        /\ UpdatesOut(q)' <=> UpdatesOut(q)
        /\ WhereOut(q)' <=> WhereOut(q)
        /\ LabelsDue(p)' <=> LabelsDue(p)
        /\ UpdatesDue(p)' <=> UpdatesDue(p)
        /\ WhereDue(p)' <=> WhereDue(p)
    BY DEF LabelsOut, UpdatesOut, WhereOut, LabelsDue, UpdatesDue, WhereDue
  <2>3. CASE q = a
    BY <2>1, <2>2, <2>3 DEF Box, LabelsOut, UpdatesOut, WhereOut
  <2>4. CASE q # a
    <3>1. ASSUME NEW w \in Send(q, p) PROVE cur(w)' = cur(w) /\ where'[p][w] = where[p][w]
      <4>1. w \in Vertex /\ Owner[w] = q /\ w # v
        BY <1>1, <2>1, <2>4, SendIs, OwnIs
      <4>2. w \in Ghosts(p)
        BY <2>1, <4>1, GhostsAre, SendIs
      <4> QED BY <1>3, <1>4, <1>8, <4>1, <4>2
    <3>2. \A u \in Own(q), w \in Own(p) : Crosses(u, w)' => Crosses(u, w)
      BY <1>1, <1>10, <2>1, <2>4, OwnIs
    <3> QED BY <2>1, <2>2, <3>1, <3>2, SameBox
  <2> QED BY <2>3, <2>4
<1>14. Copies'
  <2> SUFFICES ASSUME NEW p \in PE, NEW x \in Ghosts(p)
               PROVE  /\ pc'[p] \in {"paramsum", "greedy", "sum"} => where'[p][x] = cur(x)'
                      /\ pc'[p] \in {"move", "pull", "labels"} /\ ~LabelsOut(Owner[x])' =>
                           where'[p][x] = cur(x)' \/ x \in changed'[Owner[x]]
    BY DEF Copies
  <2>1. /\ x \in Vertex /\ Owner[x] # p /\ Owner[x] \in Nbrs(p) /\ Owner[x] \in PE
        /\ LabelsOut(Owner[x])' <=> LabelsOut(Owner[x])
    BY GhostsAre, OwnerIn DEF LabelsOut
  <2>2. where'[p][x] = where[p][x]
    BY <1>1, <1>3, <1>4, <2>1
  <2>3. CASE x = v
    <3>1. x \in changed'[Owner[x]]
      BY <1>1, <1>5a, <2>3
    <3>2. pc[p] # "sum"
      <4>1. p \in Nbrs(a)
        BY <1>1, <2>1, <2>3, NbrsBothWays
      <4> QED BY <4>1, NbrsIn DEF IInv, NotAhead, LabelsOut
    <3> QED BY <1>11, <3>1, <3>2
  <2>4. CASE x # v
    <3>1. cur(x)' = cur(x) /\ changed[Owner[x]] \subseteq changed'[Owner[x]]
      BY <1>5, <1>8, <2>1, <2>4
    <3> QED BY <2>1, <2>2, <3>1 DEF IInv, Copies
  <2> QED BY <2>3, <2>4
<1>15. Changed'
  <2> SUFFICES ASSUME NEW p \in PE
               PROVE  /\ pc'[p] \in {"move", "pull"} => \A w \in changed'[p] :
                           w \in Own(p) /\ cur(w)' < nparts /\ cur(w)' % 2 = c'
                      /\ pc'[p] \notin {"move", "pull"} => changed'[p] = {}
    BY DEF Changed
  <2>1. pc[p] \notin {"move", "pull"} => changed'[p] = {}
    BY <1>5 DEF IInv, Changed
  <2>2. ASSUME pc[p] \in {"move", "pull"}, NEW w \in changed'[p]
        PROVE  w \in Own(p) /\ cur(w)' < nparts /\ cur(w)' % 2 = c'
    <3>1. CASE w = v
      <4>1. p = a
        BY <1>1, <1>5, <2>2, <3>1, OwnIs DEF IInv, Changed
      <4> QED BY <1>1, <1>2, <1>8, <3>1, <4>1
    <3>2. CASE w # v
      <4>1. w \in Own(p) /\ cur(w) < nparts /\ cur(w) % 2 = c
        BY <1>5, <2>2, <3>2 DEF IInv, Changed
      <4> QED BY <1>8, <3>2, <4>1, OwnIs
    <3> QED BY <3>1, <3>2
  <2> QED BY <2>1, <2>2
<1>16. Lists'
  <2> SUFFICES ASSUME NEW p \in PE
               PROVE  /\ pc'[p] \in {"paramsum", "greedy", "pull", "labels", "sum"} =>
                           sepind'[p] = Seps(p)'
                      /\ pc'[p] = "move" => /\ sepind'[p] \union queue'[p] = Seps(p)'
                                            /\ sepind'[p] \intersect queue'[p] = {}
    BY DEF Lists
  <2>1. CASE p # a
    <3>1. Seps(p)' = Seps(p)
      BY <1>3, <2>1 DEF Seps
    <3> QED BY <1>5, <2>1, <3>1 DEF IInv, Lists
  <2>2. CASE p = a
    <3>1. ~InSeparator(to)
      BY <1>2, PartsAssumption DEF InSeparator
    <3>2. Seps(a)' = Seps(a) \ {v}
      BY <1>4, <3>1 DEF Seps
    <3>3. sepind[a] \union queue[a] = Seps(a) /\ sepind[a] \intersect queue[a] = {}
      BY DEF IInv, Lists
    <3> QED BY <1>1, <1>5a, <2>2, <3>2, <3>3
  <2> QED BY <2>1, <2>2
<1>17. Pending'
  <2> SUFFICES ASSUME NEW w \in Vertex, NEW u \in Adj[w], Crosses(u, w)'
               PROVE  IF Owner[u] = Owner[w]
                      THEN pc'[Owner[w]] \in {"move", "pull"} /\ w \in update'[Owner[w]]
                      ELSE \/ pc'[Owner[u]] = "move" /\ w \in supdate'[Owner[u]]
                           \/ UpdatesOut(Owner[u])' /\ UpdatesDue(Owner[w])'
    BY DEF Pending
  <2>1. u \in Vertex /\ w \in Adj[u] /\ Owner[u] \in PE /\ Owner[w] \in PE
    BY EdgesBothWays, OwnerIn
  <2>2. CASE Crosses(u, w)
    <3>1. /\ \A p \in PE : update[p] \subseteq update'[p] /\ supdate[p] \subseteq supdate'[p]
          /\ \A p \in PE : pc[p] \in SidePhases
      BY <1>5, <1>11 DEF SidePhases
    <3>2. IF Owner[u] = Owner[w]
          THEN pc[Owner[w]] \in {"move", "pull"} /\ w \in update[Owner[w]]
          ELSE \/ pc[Owner[u]] = "move" /\ w \in supdate[Owner[u]]
               \/ UpdatesOut(Owner[u]) /\ UpdatesDue(Owner[w])
      BY <2>2, <3>1 DEF IInv, Pending
    <3> QED BY <2>1, <3>1, <3>2 DEF UpdatesOut, UpdatesDue
  <2>3. CASE u = v
    <3>1. /\ c # cc /\ cc' = cc /\ c' = c
      BY Sides DEF IInv, cc
    <3>2. w # v /\ cur(w)' = cur(w) /\ cur(w) % 2 = cc
      BY <1>2, <1>8, <3>1 DEF Crosses
    <3>3. CASE Owner[w] = a
      <4>1. where[a][w] # to
        BY <1>2, <3>1, <3>2, <3>3 DEF cur
      <4>2. w \in Near(a, v) \intersect Own(a)
        BY <2>1, <2>3, <3>3, <4>1, OwnIs DEF Near, to
      <4> QED BY <1>1, <1>5a, <2>3, <3>3, <4>2
    <3>4. CASE Owner[w] # a
      <4>1. w \in Ghosts(a) /\ Owner[w] \in Nbrs(a)
        BY <1>1, <2>3, <3>4, EdgeKnown
      <4>2. ~LabelsOut(Owner[w])
        BY <4>1 DEF IInv, NotAhead
      <4>3. w \notin changed[Owner[w]]
        BY <1>11, <2>1, <3>1, <3>2, <4>2 DEF IInv, Changed, LabelsOut
      <4>4. where[a][w] = cur(w)
        BY <4>1, <4>2, <4>3 DEF IInv, Copies
      <4>5. where[a][w] # to
        BY <1>2, <3>1, <3>2, <4>4
      <4>6. w \in Near(a, v) \ Own(a)
        BY <2>1, <2>3, <3>4, <4>5, OwnIs DEF Near, to
      <4> QED BY <1>1, <1>5a, <2>3, <3>4, <4>6
    <3> QED BY <3>3, <3>4
  <2> QED BY <1>10, <2>1, <2>2, <2>3
<1>18. Parted'
  BY DEF Parted, SidePhases
<1> QED BY <1>7, <1>9, <1>12, <1>13, <1>14, <1>15, <1>16, <1>17, <1>18 DEF IInv

LEMMA MoveVertexKeeps == ASSUME IInv, NEW a \in PE, MoveVertex(a) PROVE IInv'
<1>1. /\ pc[a] = "move" /\ UNCHANGED <<pc, c, chan>>
  BY DEF MoveVertex, greedy
<1>2. PICK v \in Top(a) :
        /\ queue' = [queue EXCEPT ![a] = @ \ {v}]
        /\ \/ /\ sepind' = [sepind EXCEPT ![a] = @ \union {v}]
              /\ UNCHANGED <<where, update, supdate, changed>>
           \/ /\ where' = [where EXCEPT ![a][v] = To(a, v)]
              /\ update' = [update EXCEPT ![a] = @ \union (Near(a, v) \intersect Own(a))]
              /\ supdate' = [supdate EXCEPT ![a] = @ \union (Near(a, v) \ Own(a))]
              /\ changed' = [changed EXCEPT ![a] = @ \union {v}]
              /\ UNCHANGED sepind
  BY DEF MoveVertex
<1>3. v \in queue[a]
  BY DEF Top
<1> QED BY <1>1, <1>2, <1>3, StayKeeps, LeaveKeeps

-----------------------------------------------------------------------------
(* KWayNodeRefine_Greedy: the exchanges.                                   *)

LEMMA SendUpdatesKeeps == ASSUME IInv, NEW a \in PE, SendUpdates(a) PROVE IInv'
<1> DEFINE msgs == [q \in Nbrs(a) |-> supdate[a] \intersect Own(q)]
<1>1. /\ pc[a] = "move" /\ queue[a] = {} /\ pc' = [pc EXCEPT ![a] = "pull"]
      /\ chan' = Post(chan, a, msgs) /\ supdate' = [supdate EXCEPT ![a] = {}]
      /\ UNCHANGED <<c, where, sepind, queue, update, changed>>
  BY DEF SendUpdates, greedy
<1>2. /\ Together' /\ pc'[a] = "pull" /\ \A p \in PE : p # a => pc'[p] = pc[p]
      /\ \A p \in PE : pc[p] \in SidePhases
  <2>1. pc[a] \in SidePhases /\ "pull" \in SidePhases /\ pc' = [pc EXCEPT ![a] = "pull"]
    BY <1>1 DEF SidePhases
  <2> QED BY <2>1, StaysInSide DEF IInv
<1>3. \A p \in PE : pc[p] \in {"move", "pull", "labels", "sum"}
  BY <1>2 DEF SidePhases
<1>4. /\ chan' = [q \in PE |-> [p \in PE |-> chan'[q][p]]]
      /\ \A q, r \in PE : chan'[q][r] =
           IF q = a /\ r \in DOMAIN msgs THEN Append(chan[q][r], msgs[r]) ELSE chan[q][r]
  <2>1. chan = [q \in PE |-> [p \in PE |-> chan[q][p]]]
    BY DEF IInv, Typed
  <2> HIDE DEF msgs
  <2> QED BY <1>1, <2>1, Posted
<1>5. \A p \in PE : supdate'[p] = IF p = a THEN {} ELSE supdate[p]
  BY <1>1 DEF IInv, Typed
<1>6. Typed'
  BY <1>1, <1>4 DEF IInv, Typed
<1>7. \A v \in Vertex : where'[Owner[v]][v] = where[Owner[v]][v]
  BY <1>1
<1>8. /\ \A v \in Vertex : cur(v)' = cur(v)
      /\ \A u, v \in Vertex : Crosses(u, v)' <=> Crosses(u, v)
      /\ \A p, q \in PE : \A u \in Own(q), v \in Own(p) : Crosses(u, v)' => Crosses(u, v)
      /\ \A p, q \in PE : \A v \in Send(q, p) : v \in Vertex /\ cur(v)' = cur(v)
      /\ Paired'
  BY <1>1, <1>7, SameLabels DEF IInv
\* No neighbour is further than its own updates.
<1>9. \A q \in Nbrs(a) : q \in PE /\ q # a /\ pc[q] \in {"move", "pull"}
  BY <1>1, <1>3, NbrsIn, NbrsAre, SendIs DEF IInv, NotAhead, LabelsOut
<1>10. Boxes'
  <2> SUFFICES ASSUME NEW p \in PE, NEW q \in Nbrs(p) PROVE Box(q, p)'
    BY DEF Boxes
  <2>1. q \in PE /\ Box(q, p) /\ p \in Nbrs(q)
    BY NbrsIn, NbrsBothWays DEF IInv, Boxes
  <2>2. /\ LabelsDue(p)' <=> LabelsDue(p)
        /\ UpdatesDue(p)' <=> UpdatesDue(p)
        /\ WhereDue(p)' <=> WhereDue(p)
    BY <1>1, <1>2 DEF LabelsDue, UpdatesDue, WhereDue
  <2>3. CASE q = a
    <3>1. pc[p] \in {"move", "pull"} /\ p # a
      BY <1>9, <2>1, <2>3
    <3>2. UpdatesDue(p)' /\ ~LabelsOut(q)' /\ UpdatesOut(q)'
      BY <1>2, <2>3, <3>1 DEF UpdatesDue, LabelsOut, UpdatesOut
    <3>3. chan[q][p] = <<>>
      BY <1>1, <2>1, <2>3 DEF Box, LabelsOut, UpdatesOut, WhereOut
    <3>4. PICK m : m = supdate[a] \intersect Own(p)
      OBVIOUS
    <3>5. chan'[q][p] = <<m>>
      <4>1. p \in DOMAIN msgs /\ msgs[p] = m
        BY <2>1, <2>3, <3>4
      <4> HIDE DEF msgs
      <4>2. chan'[q][p] = Append(<<>>, m)
        BY <1>4, <2>1, <2>3, <3>3, <4>1
      <4> QED BY <4>2, Queues
    <3>6. ASSUME NEW u \in Own(q), NEW v \in Own(p), Crosses(u, v) PROVE v \in m
      <4>1. u \in Vertex /\ v \in Vertex /\ Owner[u] = a /\ Owner[v] = p /\ u \in Adj[v]
        BY <2>1, <2>3, <3>6, OwnIs DEF Crosses
      <4>2. (pc[a] = "move" /\ v \in supdate[a]) \/ UpdatesOut(a)
        BY <1>2, <3>1, <3>6, <4>1 DEF IInv, Pending
      <4> QED BY <1>1, <3>4, <4>2 DEF UpdatesOut
    <3>7. GoodUpdates(q, p, m)'
      BY <1>8, <2>1, <3>4, <3>6 DEF GoodUpdates
    <3> QED BY <3>2, <3>5, <3>7 DEF Box
  <2>4. CASE q # a
    <3>1. /\ LabelsOut(q)' <=> LabelsOut(q)
          /\ UpdatesOut(q)' <=> UpdatesOut(q)
          /\ WhereOut(q)' <=> WhereOut(q)
      BY <1>2, <2>1, <2>4 DEF LabelsOut, UpdatesOut, WhereOut
    <3>2. chan'[q][p] = chan[q][p] /\ \A v \in Send(q, p) : where'[p][v] = where[p][v]
      BY <1>1, <1>4, <2>1, <2>4
    <3> QED BY <1>8, <2>1, <2>2, <3>1, <3>2, SameBox
  <2> QED BY <2>3, <2>4
<1>11. NotAhead'
  <2> SUFFICES ASSUME NEW p \in PE, NEW q \in Nbrs(p)
               PROVE  /\ LabelsOut(q)' => pc'[p] # "move"
                      /\ pc'[q] = "sum" => pc'[p] \notin {"move", "pull"}
                      /\ pc'[q] = "paramsum" => pc'[p] \notin {"interior", "params"}
    BY DEF NotAhead
  <2>1. q \in PE
    BY NbrsIn
  <2> QED BY <1>1, <1>2, <2>1 DEF IInv, NotAhead, LabelsOut
<1>12. Copies'
  <2> SUFFICES ASSUME NEW p \in PE, NEW x \in Ghosts(p)
               PROVE  /\ pc'[p] \in {"paramsum", "greedy", "sum"} => where'[p][x] = cur(x)'
                      /\ pc'[p] \in {"move", "pull", "labels"} /\ ~LabelsOut(Owner[x])' =>
                           where'[p][x] = cur(x)' \/ x \in changed'[Owner[x]]
    BY DEF Copies
  <2>1. cur(x)' = cur(x) /\ (LabelsOut(Owner[x])' <=> LabelsOut(Owner[x]))
    BY <1>1, <1>2, <1>8, GhostsAre, OwnerIn DEF LabelsOut
  <2> QED BY <1>1, <1>2, <2>1 DEF IInv, Copies
<1>13. Changed'
  <2> SUFFICES ASSUME NEW p \in PE
               PROVE  /\ pc'[p] \in {"move", "pull"} => \A w \in changed'[p] :
                           w \in Own(p) /\ cur(w)' < nparts /\ cur(w)' % 2 = c'
                      /\ pc'[p] \notin {"move", "pull"} => changed'[p] = {}
    BY DEF Changed
  <2>1. \A w \in Own(p) : cur(w)' = cur(w)
    BY <1>8, OwnIs
  <2> QED BY <1>1, <1>2, <2>1 DEF IInv, Changed
<1>14. Lists'
  <2> SUFFICES ASSUME NEW p \in PE
               PROVE  /\ pc'[p] \in {"paramsum", "greedy", "pull", "labels", "sum"} =>
                           sepind'[p] = Seps(p)'
                      /\ pc'[p] = "move" => /\ sepind'[p] \union queue'[p] = Seps(p)'
                                            /\ sepind'[p] \intersect queue'[p] = {}
    BY DEF Lists
  <2>1. Seps(p)' = Seps(p)
    BY <1>1 DEF Seps
  <2> QED BY <1>1, <1>2, <2>1 DEF IInv, Lists
<1>15. Pending'
  <2> SUFFICES ASSUME NEW v \in Vertex, NEW u \in Adj[v], Crosses(u, v)'
               PROVE  IF Owner[u] = Owner[v]
                      THEN pc'[Owner[v]] \in {"move", "pull"} /\ v \in update'[Owner[v]]
                      ELSE \/ pc'[Owner[u]] = "move" /\ v \in supdate'[Owner[u]]
                           \/ UpdatesOut(Owner[u])' /\ UpdatesDue(Owner[v])'
    BY DEF Pending
  <2>1. u \in Vertex /\ Owner[u] \in PE /\ Owner[v] \in PE /\ Crosses(u, v)
    BY <1>8, EdgesBothWays, OwnerIn
  <2>2. IF Owner[u] = Owner[v]
        THEN pc[Owner[v]] \in {"move", "pull"} /\ v \in update[Owner[v]]
        ELSE \/ pc[Owner[u]] = "move" /\ v \in supdate[Owner[u]]
             \/ UpdatesOut(Owner[u]) /\ UpdatesDue(Owner[v])
    BY <1>2, <2>1 DEF IInv, Pending
  <2>3. UpdatesDue(Owner[v]) => UpdatesDue(Owner[v])'
    BY <1>2, <2>1 DEF UpdatesDue
  <2>4. CASE Owner[u] = Owner[v]
    BY <1>1, <1>2, <2>1, <2>2, <2>4
  <2>5. CASE Owner[u] # Owner[v] /\ Owner[u] = a
    <3>1. UpdatesDue(Owner[v])
      BY <1>9, <2>5, EdgeKnown DEF UpdatesDue
    <3> QED BY <1>2, <2>3, <2>5, <3>1 DEF UpdatesOut
  <2>6. CASE Owner[u] # Owner[v] /\ Owner[u] # a
    BY <1>2, <1>5, <2>1, <2>2, <2>3, <2>6 DEF UpdatesOut
  <2> QED BY <2>4, <2>5, <2>6
<1>16. Parted'
  BY <1>2 DEF Parted, SidePhases
<1> QED BY <1>2, <1>6, <1>8, <1>10, <1>11, <1>12, <1>13, <1>14, <1>15, <1>16 DEF IInv

\* What PullVertices finds: every neighbour's updates, and nothing but own vertices.
LEMMA UpdatesArrived ==
  ASSUME IInv, NEW a \in PE, pc[a] = "pull", ArrivedFrom(chan, a, Nbrs(a)), NEW q \in Nbrs(a)
  PROVE  /\ q \in PE /\ q # a /\ pc[q] \in {"pull", "labels"} /\ UpdatesOut(q)
         /\ GoodUpdates(q, a, Head(chan[q][a]))
         /\ IF LabelsOut(q)
            THEN \E n : Tail(chan[q][a]) = <<n>> /\ GoodLabels(q, a, n)
            ELSE Tail(chan[q][a]) = <<>>
<1>1. q \in PE /\ q # a /\ Box(q, a) /\ chan[q][a] # <<>>
  BY NbrsIn, NbrsAre, SendIs DEF IInv, Boxes, ArrivedFrom
<1>2. /\ \A p \in PE : pc[p] \in {"move", "pull", "labels", "sum"}
      /\ UpdatesDue(a) /\ pc[q] # "sum" /\ ~WhereOut(q)
  BY <1>1, AllInSide DEF IInv, SidePhases, UpdatesDue, WhereOut, NotAhead
<1>3. CASE LabelsOut(q)
  <2>1. PICK m, n : chan[q][a] = <<m, n>> /\ GoodUpdates(q, a, m) /\ GoodLabels(q, a, n)
    BY <1>1, <1>2, <1>3 DEF Box
  <2>2. Head(chan[q][a]) = m /\ Tail(chan[q][a]) = <<n>>
    <3>1. Head(<<m, n>>) = m /\ Tail(<<m, n>>) = <<n>>
      BY Queues
    <3> QED BY <2>1, <3>1
  <2> QED BY <1>1, <1>2, <1>3, <2>1, <2>2 DEF UpdatesOut, LabelsOut
<1>4. CASE ~LabelsOut(q)
  <2>1. UpdatesOut(q)
    BY <1>1, <1>2, <1>4 DEF Box
  <2>2. PICK m : chan[q][a] = <<m>> /\ GoodUpdates(q, a, m)
    BY <1>1, <1>2, <1>4, <2>1 DEF Box
  <2>3. Head(chan[q][a]) = m /\ Tail(chan[q][a]) = <<>>
    <3>1. Head(<<m>>) = m /\ Tail(<<m>>) = <<>>
      BY Queues
    <3> QED BY <2>2, <3>1
  <2> QED BY <1>1, <1>2, <1>4, <2>1, <2>2, <2>3 DEF UpdatesOut, LabelsOut
<1> QED BY <1>3, <1>4

\* So every end of an edge that joins two sides is pulled into the separator.
LEMMA AllPulled ==
  ASSUME IInv, NEW a \in PE, pc[a] = "pull", ArrivedFrom(chan, a, Nbrs(a))
  PROVE  /\ Touched(a) \subseteq Own(a)
         /\ \A v \in ToPull(a) : v \in Own(a) /\ where[a][v] < nparts /\ where[a][v] % 2 = cc
         /\ \A u \in Vertex, v \in Own(a) : Crosses(u, v) => v \in ToPull(a)
<1>1. ASSUME NEW q \in Nbrs(a)
      PROVE  /\ q \in PE /\ pc[q] \in {"pull", "labels"} /\ GoodUpdates(q, a, Head(chan[q][a]))
             /\ Head(chan[q][a]) \subseteq Own(a) /\ Head(chan[q][a]) \subseteq Touched(a)
  BY UpdatesArrived DEF GoodUpdates, Touched
<1>2. Touched(a) \subseteq Own(a)
  <2> SUFFICES ASSUME NEW v \in Touched(a) PROVE v \in Own(a)
    OBVIOUS
  <2>1. v \in update[a] \/ \E q \in Nbrs(a) : v \in Head(chan[q][a])
    BY DEF Touched
  <2>2. update[a] \subseteq Own(a)
    BY DEF IInv, Typed
  <2> QED BY <1>1, <2>1, <2>2
<1>3. \A v \in ToPull(a) : v \in Own(a) /\ where[a][v] < nparts /\ where[a][v] % 2 = cc
  BY <1>2 DEF ToPull
<1>4. ASSUME NEW u \in Vertex, NEW v \in Own(a), Crosses(u, v) PROVE v \in ToPull(a)
  <2>1. v \in Vertex /\ Owner[v] = a /\ u \in Adj[v]
    BY <1>4, OwnIs DEF Crosses
  <2>2. cur(v) = where[a][v] /\ cur(v) < nparts /\ cur(v) % 2 = cc
    BY <1>4, <2>1 DEF cur, Crosses
  <2>3. \A p \in PE : pc[p] \in SidePhases
    BY AllInSide DEF IInv, SidePhases
  <2>4. v \in Touched(a)
    <3>1. CASE Owner[u] = a
      BY <1>4, <2>1, <2>3, <3>1 DEF IInv, Pending, Touched
    <3>2. CASE Owner[u] # a
      <4>1. Owner[u] \in Nbrs(a)
        BY <2>1, <3>2, EdgeKnown
      <4>2. u \in Own(Owner[u])
        BY OwnerIn
      <4>3. v \in Head(chan[Owner[u]][a])
        BY <1>1, <1>4, <4>1, <4>2 DEF GoodUpdates
      <4> QED BY <1>1, <4>1, <4>3
    <3> QED BY <3>1, <3>2
  <2> QED BY <2>2, <2>4 DEF ToPull
<1> QED BY <1>2, <1>3, <1>4

LEMMA PullVerticesKeeps == ASSUME IInv, NEW a \in PE, PullVertices(a) PROVE IInv'
<1> DEFINE pulled == ToPull(a)
           new == [v \in DOMAIN where[a] |->
                     IF v \in pulled THEN SeparatorOf(where[a][v]) ELSE where[a][v]]
           all == changed[a] \union pulled
           msgs == [q \in Nbrs(a) |-> [v \in Send(a, q) \intersect all |-> new[v]]]
           taken == Take(chan, a, Nbrs(a))
<1>1. /\ pc[a] = "pull" /\ ArrivedFrom(chan, a, Nbrs(a)) /\ pc' = [pc EXCEPT ![a] = "labels"]
      /\ where' = [where EXCEPT ![a] = new]
      /\ sepind' = [sepind EXCEPT ![a] = @ \union pulled]
      /\ update' = [update EXCEPT ![a] = Touched(a)]
      /\ changed' = [changed EXCEPT ![a] = {}]
      /\ chan' = Post(taken, a, msgs)
      /\ UNCHANGED <<c, queue, supdate>>
  BY DEF PullVertices, greedy
<1>2. /\ Together' /\ pc'[a] = "labels" /\ \A p \in PE : p # a => pc'[p] = pc[p]
      /\ \A p \in PE : pc[p] \in SidePhases
  <2>1. pc[a] \in SidePhases /\ "labels" \in SidePhases /\ pc' = [pc EXCEPT ![a] = "labels"]
    BY <1>1 DEF SidePhases
  <2> QED BY <2>1, StaysInSide DEF IInv
<1>3. \A p \in PE : pc[p] \in {"move", "pull", "labels", "sum"}
  BY <1>2 DEF SidePhases
<1>4. /\ Touched(a) \subseteq Own(a)
      /\ \A v \in pulled : v \in Own(a) /\ where[a][v] < nparts /\ where[a][v] % 2 = cc
      /\ \A u \in Vertex, v \in Own(a) : Crosses(u, v) => v \in pulled
  BY <1>1, AllPulled
<1>5. /\ DOMAIN where[a] = Own(a) \union Ghosts(a) /\ DOMAIN new = Own(a) \union Ghosts(a)
      /\ \A v \in Own(a) \union Ghosts(a) :
           new[v] = IF v \in pulled THEN SeparatorOf(where[a][v]) ELSE where[a][v]
  BY DEF IInv, Typed
\* The labels.
<1>6. ASSUME NEW v \in Own(a), v \in pulled
      PROVE  /\ new[v] \in Label /\ InSeparator(new[v]) /\ PairOf(new[v]) = PairOf(cur(v))
             /\ cur(v) = where[a][v]
  <2>1. cur(v) = where[a][v] /\ cur(v) \in Label /\ PairOf(cur(v)) \in Pairs
    BY OwnIs DEF IInv, Paired, cur
  <2>2. new[v] = SeparatorOf(cur(v)) /\ cur(v) < nparts
    BY <1>4, <1>5, <1>6, <2>1
  <2> HIDE DEF new
  <2> QED BY <2>1, <2>2, SeparatorOfPart
<1> HIDE DEF pulled, new
<1>7. /\ where' = [p \in PE |-> where'[p]] /\ where'[a] = new
      /\ \A p \in PE : p # a => where'[p] = where[p]
  <2>1. where = [p \in PE |-> where[p]]
    BY DEF IInv, Typed
  <2> QED BY <1>1, <2>1
<1>8. \A p \in PE : /\ sepind'[p] = IF p = a THEN sepind[p] \union pulled ELSE sepind[p]
                    /\ update'[p] = IF p = a THEN Touched(a) ELSE update[p]
                    /\ changed'[p] = IF p = a THEN {} ELSE changed[p]
  BY <1>1 DEF IInv, Typed
\* The channels.
<1>9. /\ taken = [q \in PE |-> [p \in PE |-> taken[q][p]]]
      /\ \A q, r \in PE : taken[q][r] =
           IF q \in Nbrs(a) /\ r = a THEN Tail(chan[q][r]) ELSE chan[q][r]
  <2>1. chan = [q \in PE |-> [p \in PE |-> chan[q][p]]]
    BY DEF IInv, Typed
  <2> QED BY <2>1, Taken
<1> HIDE DEF taken
<1>10. /\ chan' = [q \in PE |-> [p \in PE |-> chan'[q][p]]]
       /\ \A q, r \in PE : chan'[q][r] =
            IF q = a /\ r \in DOMAIN msgs THEN Append(taken[q][r], msgs[r]) ELSE taken[q][r]
  <2>1. chan' = Post(taken, a, msgs)
    BY <1>1
  <2> HIDE DEF msgs
  <2>2. taken = [q \in PE |-> [p \in PE |-> taken[q][p]]]
    BY <1>9
  <2> QED BY <2>1, <2>2, Posted
<1>11. Typed'
  <2>1. \A p \in PE : where'[p] \in [Own(p) \union Ghosts(p) -> Int]
    <3> SUFFICES ASSUME NEW p \in PE PROVE where'[p] \in [Own(p) \union Ghosts(p) -> Int]
      OBVIOUS
    <3>1. where[p] \in [Own(p) \union Ghosts(p) -> Int]
      BY DEF IInv, Typed
    <3>2. ASSUME NEW v \in Own(a) \union Ghosts(a) PROVE new[v] \in Int
      <4>1. where[a][v] \in Int
        BY DEF IInv, Typed
      <4>2. CASE v \in pulled
        BY <1>4, <1>6, <4>2 DEF Label
      <4>3. CASE v \notin pulled
        BY <1>5, <4>1, <4>3
      <4> QED BY <4>2, <4>3
    <3>3. new = [v \in Own(a) \union Ghosts(a) |-> new[v]]
      BY <1>5 DEF new
    <3> QED BY <1>7, <3>1, <3>2, <3>3
  <2>2. /\ update' \in [PE -> SUBSET Vertex] /\ \A p \in PE : update'[p] \subseteq Own(p)
        /\ sepind' \in [PE -> SUBSET Vertex] /\ changed' \in [PE -> SUBSET Vertex]
    <3>1. \A v \in Own(a) : v \in Vertex
      BY OwnIs
    <3>2. update' = [p \in PE |-> update'[p]] /\ sepind' = [p \in PE |-> sepind'[p]]
          /\ changed' = [p \in PE |-> changed'[p]]
      BY <1>1 DEF IInv, Typed
    <3>3. \A p \in PE : update'[p] \subseteq Own(p) /\ update'[p] \in SUBSET Vertex
      BY <1>4, <1>8, <3>1 DEF IInv, Typed
    <3>4. \A p \in PE : sepind'[p] \in SUBSET Vertex /\ changed'[p] \in SUBSET Vertex
      BY <1>4, <1>8, <3>1 DEF IInv, Typed
    <3> QED BY <3>2, <3>3, <3>4
  <2>3. c' \in {0, 1} /\ queue' \in [PE -> SUBSET Vertex] /\ supdate' \in [PE -> SUBSET Vertex]
    BY <1>1 DEF IInv, Typed
  <2> QED BY <1>7, <1>10, <2>1, <2>2, <2>3 DEF Typed
<1>12. ASSUME NEW v \in Vertex
       PROVE  /\ v \in pulled => InSeparator(cur(v)') /\ cur(v)' \in Label
                                 /\ PairOf(cur(v)') = PairOf(cur(v))
              /\ v \notin pulled => cur(v)' = cur(v)
  <2>1. CASE Owner[v] = a
    <3>1. v \in Own(a) /\ cur(v)' = new[v] /\ cur(v) = where[a][v]
      BY <1>7, <2>1, OwnerIn DEF cur
    <3> QED BY <1>5, <1>6, <3>1
  <2>2. CASE Owner[v] # a
    BY <1>4, <1>7, <2>2, OwnerIn, OwnIs DEF cur
  <2> QED BY <2>1, <2>2
<1>13. Paired'
  <2>1. \A x \in Vertex : cur(x)' \in Label /\ PairOf(cur(x)') = PairOf(cur(x))
    BY <1>12 DEF IInv, Paired
  <2>2. \A x \in Vertex : cur(x)' \in Label /\ PairOf(cur(x)') \in Pairs
    BY <2>1 DEF IInv, Paired
  <2>3. ASSUME NEW w \in Vertex, NEW u \in Adj[w] PROVE PairOf(cur(u)') = PairOf(cur(w)')
    BY <2>1, EdgesBothWays DEF IInv, Paired
  <2> QED BY <2>2, <2>3 DEF Paired, PairOf, InSeparator
\* No edge newly joins two sides, and none that ends at a's vertices is left.
<1>14. ASSUME NEW u \in Vertex, NEW v \in Vertex, Crosses(u, v)'
       PROVE  Crosses(u, v) /\ Owner[v] # a
  <2>1. ~InSeparator(cur(u)') /\ ~InSeparator(cur(v)')
    <3>1. \A x \in Vertex : cur(x)' \in Int
      BY <1>13, Parity DEF Paired
    <3> QED BY <1>14, <3>1, PartsAssumption DEF Crosses, InSeparator
  <2>2. u \notin pulled /\ v \notin pulled /\ cur(u)' = cur(u) /\ cur(v)' = cur(v)
    BY <1>12, <2>1
  <2>3. Crosses(u, v)
    BY <1>1, <1>14, <2>2 DEF Crosses, cc
  <2> QED BY <1>4, <2>2, <2>3, OwnerIn
<1>15. \A q \in Nbrs(a) : q \in PE /\ q # a /\ pc[q] \in {"pull", "labels"} /\ UpdatesOut(q)
  BY <1>1, UpdatesArrived
<1>16. Boxes'
  <2> SUFFICES ASSUME NEW p \in PE, NEW q \in Nbrs(p) PROVE Box(q, p)'
    BY DEF Boxes
  <2>1. q \in PE /\ Box(q, p) /\ p \in Nbrs(q) /\ p # q
    BY NbrsIn, NbrsBothWays, NbrsAre, SendIs DEF IInv, Boxes
  <2>2. \A u \in Own(q), v \in Own(p) : Crosses(u, v)' => Crosses(u, v)
    BY <1>14, <2>1, OwnIs
  <2>3. CASE p = a
    <3>1. \A v \in Send(q, p) : cur(v)' = cur(v) /\ where'[p][v] = where[p][v]
      <4> SUFFICES ASSUME NEW v \in Send(q, p) PROVE cur(v)' = cur(v) /\ where'[p][v] = where[p][v]
        OBVIOUS
      <4>1. v \in Vertex /\ Owner[v] = q /\ v \in Ghosts(a)
        BY <2>1, <2>3, SendIs, OwnIs, GhostsAre
      <4>2. v \notin pulled
        BY <1>4, <2>1, <2>3, <4>1, OwnIs
      <4> QED BY <1>5, <1>7, <1>12, <2>3, <4>1, <4>2
    <3>2. chan'[q][a] = Tail(chan[q][a])
      BY <1>9, <1>10, <2>1, <2>3
    <3>3. /\ ~UpdatesDue(a)' /\ LabelsDue(a)' /\ ~WhereDue(a)'
          /\ LabelsOut(q)' <=> LabelsOut(q)
      BY <1>2, <2>1, <2>3 DEF UpdatesDue, LabelsDue, WhereDue, LabelsOut
    <3>4. CASE LabelsOut(q)
      <4>1. PICK n : Tail(chan[q][a]) = <<n>> /\ GoodLabels(q, a, n)
        BY <1>1, <2>3, <3>4, UpdatesArrived
      <4>2. GoodLabels(q, p, n)'
        BY <2>1, <2>2, <2>3, <3>1, <4>1, SameMessages
      <4> QED BY <2>3, <3>2, <3>3, <3>4, <4>1, <4>2 DEF Box
    <3>5. CASE ~LabelsOut(q)
      <4>1. Tail(chan[q][a]) = <<>>
        BY <1>1, <2>3, <3>5, UpdatesArrived
      <4> QED BY <2>3, <3>2, <3>3, <3>5, <4>1 DEF Box
    <3> QED BY <3>4, <3>5
  <2>4. CASE q = a
    <3>1. pc[p] \in {"pull", "labels"} /\ p # a
      BY <1>15, <2>1, <2>4
    <3>2. /\ ~LabelsOut(a) /\ UpdatesOut(a) /\ ~WhereOut(a) /\ LabelsOut(a)'
          /\ (UpdatesDue(p)' <=> UpdatesDue(p)) /\ LabelsDue(p)'
      BY <1>1, <1>2, <3>1 DEF UpdatesDue, LabelsDue, LabelsOut, UpdatesOut, WhereOut
    <3>3. PICK n : n = [v \in Send(a, p) \intersect all |-> new[v]]
      OBVIOUS
    <3>4. chan'[a][p] = Append(chan[a][p], n)
      <4>1. p \in DOMAIN msgs /\ msgs[p] = n
        BY <2>1, <2>4, <3>3
      <4> HIDE DEF msgs
      <4>2. taken[a][p] = chan[a][p]
        BY <1>9, <3>1
      <4> QED BY <1>10, <4>1, <4>2
    <3>5. GoodLabels(a, p, n)'
      <4>1. DOMAIN n = Send(a, p) \intersect all /\ \A v \in DOMAIN n : n[v] = new[v]
        BY <3>3
      <4>2. ASSUME NEW v \in Send(a, p)
            PROVE  /\ v \in Vertex /\ Owner[v] = a /\ v \in Own(a) /\ v \in Ghosts(p)
                   /\ where'[p][v] = where[p][v] /\ cur(v)' = new[v]
        <5>1. v \in Vertex /\ Owner[v] = a /\ v \in Own(a)
          BY SendIs, OwnIs
        <5>2. v \in Ghosts(p)
          BY <2>1, <2>4, <5>1, GhostsAre
        <5> QED BY <1>7, <3>1, <5>1, <5>2 DEF cur
      <4>3. ASSUME NEW v \in Send(a, p), v \notin DOMAIN n PROVE where[p][v] = cur(v)'
        <5>1. v \notin changed[a] /\ v \notin pulled
          BY <4>1, <4>3 DEF all
        <5>2. cur(v)' = cur(v)
          BY <1>12, <4>2, <5>1
        <5>3. where[p][v] = cur(v)
          BY <3>1, <3>2, <4>2, <5>1 DEF IInv, Copies
        <5> QED BY <5>2, <5>3
      <4> QED BY <4>1, <4>2, <4>3 DEF GoodLabels
    <3>6. CASE UpdatesDue(p)
      <4>1. PICK m : chan[a][p] = <<m>> /\ GoodUpdates(a, p, m)
        BY <2>1, <2>4, <3>2, <3>6 DEF Box
      <4>2. GoodUpdates(a, p, m)'
        BY <2>2, <2>4, <4>1 DEF GoodUpdates
      <4>3. chan'[a][p] = <<m, n>>
        <5>1. Append(<<m>>, n) = <<m, n>>
          BY Queues
        <5> QED BY <3>4, <4>1, <5>1
      <4> QED BY <2>4, <3>2, <3>5, <3>6, <4>2, <4>3 DEF Box
    <3>7. CASE ~UpdatesDue(p)
      <4>1. chan[a][p] = <<>>
        BY <2>1, <2>4, <3>2, <3>7 DEF Box
      <4>2. chan'[a][p] = <<n>>
        <5>1. Append(<<>>, n) = <<n>>
          BY Queues
        <5> QED BY <3>4, <4>1, <5>1
      <4> QED BY <2>4, <3>2, <3>5, <3>7, <4>2 DEF Box
    <3> QED BY <3>6, <3>7
  <2>5. CASE p # a /\ q # a
    <3>1. \A v \in Send(q, p) : cur(v)' = cur(v) /\ where'[p][v] = where[p][v]
      <4> SUFFICES ASSUME NEW v \in Send(q, p) PROVE cur(v)' = cur(v) /\ where'[p][v] = where[p][v]
        OBVIOUS
      <4>1. v \in Vertex /\ Owner[v] = q
        BY <2>1, SendIs, OwnIs
      <4>2. v \notin pulled
        BY <1>4, <2>5, <4>1, OwnIs
      <4> QED BY <1>7, <1>12, <2>5, <4>1, <4>2
    <3>2. chan'[q][p] = chan[q][p]
      <4>1. chan'[q][p] = taken[q][p]
        BY <1>10, <2>1, <2>5
      <4>2. taken[q][p] = chan[q][p]
        BY <1>9, <2>1, <2>5
      <4> QED BY <4>1, <4>2
    <3>3. /\ LabelsOut(q)' <=> LabelsOut(q)
          /\ UpdatesOut(q)' <=> UpdatesOut(q)
          /\ WhereOut(q)' <=> WhereOut(q)
          /\ LabelsDue(p)' <=> LabelsDue(p)
          /\ UpdatesDue(p)' <=> UpdatesDue(p)
          /\ WhereDue(p)' <=> WhereDue(p)
      BY <1>2, <2>1, <2>5 DEF LabelsOut, UpdatesOut, WhereOut, LabelsDue, UpdatesDue, WhereDue
    <3> QED BY <2>1, <2>2, <3>1, <3>2, <3>3, SameBox
  <2> QED BY <2>3, <2>4, <2>5
<1>17. NotAhead'
  <2> SUFFICES ASSUME NEW p \in PE, NEW q \in Nbrs(p)
               PROVE  /\ LabelsOut(q)' => pc'[p] # "move"
                      /\ pc'[q] = "sum" => pc'[p] \notin {"move", "pull"}
                      /\ pc'[q] = "paramsum" => pc'[p] \notin {"interior", "params"}
    BY DEF NotAhead
  <2>1. q \in PE /\ p \in Nbrs(q) /\ p # q
    BY NbrsIn, NbrsBothWays, NbrsAre, SendIs
  <2>2. q = a => pc'[p] \in {"pull", "labels"}
    BY <1>2, <1>15, <2>1
  <2> QED BY <1>1, <1>2, <2>1, <2>2 DEF IInv, NotAhead, LabelsOut
<1>18. Copies'
  <2> SUFFICES ASSUME NEW p \in PE, NEW x \in Ghosts(p)
               PROVE  /\ pc'[p] \in {"paramsum", "greedy", "sum"} => where'[p][x] = cur(x)'
                      /\ pc'[p] \in {"move", "pull", "labels"} /\ ~LabelsOut(Owner[x])' =>
                           where'[p][x] = cur(x)' \/ x \in changed'[Owner[x]]
    BY DEF Copies
  <2>1. /\ x \in Vertex /\ Owner[x] # p /\ Owner[x] \in Nbrs(p) /\ Owner[x] \in PE
        /\ p \in Nbrs(Owner[x])
    BY GhostsAre, OwnerIn, NbrsBothWays
  <2>2. CASE Owner[x] = a
    <3>1. LabelsOut(Owner[x])' /\ pc'[p] \in {"pull", "labels"}
      BY <1>2, <1>15, <2>1, <2>2 DEF LabelsOut
    <3> QED BY <3>1
  <2>3. CASE Owner[x] # a
    <3>1. x \notin pulled /\ cur(x)' = cur(x) /\ changed'[Owner[x]] = changed[Owner[x]]
          /\ (LabelsOut(Owner[x])' <=> LabelsOut(Owner[x]))
      BY <1>2, <1>4, <1>8, <1>12, <2>1, <2>3, OwnIs DEF LabelsOut
    <3>2. where'[p][x] = where[p][x]
      BY <1>5, <1>7, <3>1
    <3> QED BY <1>1, <1>2, <3>1, <3>2 DEF IInv, Copies
  <2> QED BY <2>2, <2>3
<1>19. Changed'
  <2> SUFFICES ASSUME NEW p \in PE
               PROVE  /\ pc'[p] \in {"move", "pull"} => \A w \in changed'[p] :
                           w \in Own(p) /\ cur(w)' < nparts /\ cur(w)' % 2 = c'
                      /\ pc'[p] \notin {"move", "pull"} => changed'[p] = {}
    BY DEF Changed
  <2>1. CASE p = a
    BY <1>2, <1>8, <2>1
  <2>2. CASE p # a
    <3>1. \A w \in Own(p) : cur(w)' = cur(w)
      BY <1>4, <1>12, <2>2, OwnIs
    <3> QED BY <1>1, <1>2, <1>8, <2>2, <3>1 DEF IInv, Changed
  <2> QED BY <2>1, <2>2
<1>20. Lists'
  <2> SUFFICES ASSUME NEW p \in PE
               PROVE  /\ pc'[p] \in {"paramsum", "greedy", "pull", "labels", "sum"} =>
                           sepind'[p] = Seps(p)'
                      /\ pc'[p] = "move" => /\ sepind'[p] \union queue'[p] = Seps(p)'
                                            /\ sepind'[p] \intersect queue'[p] = {}
    BY DEF Lists
  <2>1. CASE p = a
    <3>1. sepind[a] = Seps(a)
      BY <1>1 DEF IInv, Lists
    <3>2. Seps(a)' = Seps(a) \union pulled
      BY <1>4, <1>5, <1>6, <1>7 DEF Seps
    <3> QED BY <1>2, <1>8, <2>1, <3>1, <3>2
  <2>2. CASE p # a
    <3>1. Seps(p)' = Seps(p)
      BY <1>7, <2>2 DEF Seps
    <3> QED BY <1>1, <1>2, <1>8, <2>2, <3>1 DEF IInv, Lists
  <2> QED BY <2>1, <2>2
<1>21. Pending'
  <2> SUFFICES ASSUME NEW v \in Vertex, NEW u \in Adj[v], Crosses(u, v)'
               PROVE  IF Owner[u] = Owner[v]
                      THEN pc'[Owner[v]] \in {"move", "pull"} /\ v \in update'[Owner[v]]
                      ELSE \/ pc'[Owner[u]] = "move" /\ v \in supdate'[Owner[u]]
                           \/ UpdatesOut(Owner[u])' /\ UpdatesDue(Owner[v])'
    BY DEF Pending
  <2>1. u \in Vertex /\ Owner[u] \in PE /\ Owner[v] \in PE /\ Crosses(u, v) /\ Owner[v] # a
    BY <1>14, EdgesBothWays, OwnerIn
  <2>2. IF Owner[u] = Owner[v]
        THEN pc[Owner[v]] \in {"move", "pull"} /\ v \in update[Owner[v]]
        ELSE \/ pc[Owner[u]] = "move" /\ v \in supdate[Owner[u]]
             \/ UpdatesOut(Owner[u]) /\ UpdatesDue(Owner[v])
    BY <1>2, <2>1 DEF IInv, Pending
  <2>3. pc'[Owner[v]] = pc[Owner[v]] /\ update'[Owner[v]] = update[Owner[v]]
    BY <1>2, <1>8, <2>1
  <2>4. CASE Owner[u] = a
    BY <1>1, <1>2, <2>1, <2>2, <2>3, <2>4 DEF UpdatesOut, UpdatesDue
  <2>5. CASE Owner[u] # a
    BY <1>1, <1>2, <2>1, <2>2, <2>3, <2>5 DEF UpdatesOut, UpdatesDue
  <2> QED BY <2>4, <2>5
<1>22. Parted'
  BY <1>2 DEF Parted, SidePhases
<1> QED BY <1>2, <1>11, <1>13, <1>16, <1>17, <1>18, <1>19, <1>20, <1>21, <1>22 DEF IInv

\* What UpdateDegrees finds: every neighbour's labels.
LEMMA LabelsArrived ==
  ASSUME IInv, NEW a \in PE, pc[a] = "labels", ArrivedFrom(chan, a, Nbrs(a)), NEW q \in Nbrs(a)
  PROVE  /\ q \in PE /\ q # a /\ LabelsOut(q)
         /\ \E n : chan[q][a] = <<n>> /\ GoodLabels(q, a, n)
<1>1. q \in PE /\ q # a /\ Box(q, a) /\ chan[q][a] # <<>>
  BY NbrsIn, NbrsAre, SendIs DEF IInv, Boxes, ArrivedFrom
<1>2. /\ \A p \in PE : pc[p] \in {"move", "pull", "labels", "sum"}
      /\ ~UpdatesDue(a) /\ LabelsDue(a) /\ ~WhereOut(q)
  BY <1>1, AllInSide DEF IInv, SidePhases, UpdatesDue, LabelsDue, WhereOut
<1> QED BY <1>1, <1>2 DEF Box

LEMMA UpdateDegreesKeeps == ASSUME IInv, NEW a \in PE, UpdateDegrees(a) PROVE IInv'
<1> DEFINE new == Exchanged(chan, a, where[a])
<1>1. /\ pc[a] = "labels" /\ ArrivedFrom(chan, a, Nbrs(a)) /\ pc' = [pc EXCEPT ![a] = "sum"]
      /\ where' = [where EXCEPT ![a] = new]
      /\ update' = [update EXCEPT ![a] = {}] /\ chan' = Take(chan, a, Nbrs(a))
      /\ UNCHANGED <<c, sepind, queue, supdate, changed>>
  BY DEF UpdateDegrees, greedy
<1>2. /\ Together' /\ pc'[a] = "sum" /\ \A p \in PE : p # a => pc'[p] = pc[p]
      /\ \A p \in PE : pc[p] \in SidePhases
  <2>1. pc[a] \in SidePhases /\ "sum" \in SidePhases /\ pc' = [pc EXCEPT ![a] = "sum"]
    BY <1>1 DEF SidePhases
  <2> HIDE DEF new
  <2> QED BY <2>1, StaysInSide DEF IInv
<1>3. \A p \in PE : pc[p] \in {"move", "pull", "labels", "sum"}
  BY <1>2 DEF SidePhases
<1>4. /\ chan' = [q \in PE |-> [p \in PE |-> chan'[q][p]]]
      /\ \A q, r \in PE : chan'[q][r] =
           IF q \in Nbrs(a) /\ r = a THEN Tail(chan[q][r]) ELSE chan[q][r]
  <2>1. chan = [q \in PE |-> [p \in PE |-> chan[q][p]]]
    BY DEF IInv, Typed
  <2>2. chan' = Take(chan, a, Nbrs(a))
    BY <1>1
  <2>3. /\ Take(chan, a, Nbrs(a)) = [q \in PE |-> [r \in PE |-> Take(chan, a, Nbrs(a))[q][r]]]
        /\ \A q, r \in PE : Take(chan, a, Nbrs(a))[q][r] =
             IF q \in Nbrs(a) /\ r = a THEN Tail(chan[q][r]) ELSE chan[q][r]
    BY <2>1, Taken
  <2> QED BY <2>2, <2>3
<1>5. /\ new \in [Own(a) \union Ghosts(a) -> Int]
      /\ \A v \in Own(a) : new[v] = where[a][v]
      /\ \A v \in Ghosts(a) : new[v] = cur(v)
  <2>1. where[a] \in [Own(a) \union Ghosts(a) -> Int]
    BY DEF IInv, Typed
  <2>2. DOMAIN new = Own(a) \union Ghosts(a)
    BY <2>1 DEF Exchanged
  <2>3. \A v \in Own(a) : v \notin Ghosts(a) /\ new[v] = where[a][v]
    BY <2>1, OwnIs, GhostsAre DEF Exchanged
  <2>4. ASSUME NEW v \in Ghosts(a) PROVE new[v] = cur(v) /\ cur(v) \in Int
    <3>1. v \in Vertex /\ Owner[v] \in Nbrs(a) /\ v \in Send(Owner[v], a)
      BY GhostsAre
    <3>2. PICK n : chan[Owner[v]][a] = <<n>> /\ GoodLabels(Owner[v], a, n)
      BY <1>1, <3>1, LabelsArrived
    <3>3. /\ Head(chan[Owner[v]][a]) = n
          /\ IF v \in DOMAIN n THEN n[v] = cur(v) ELSE where[a][v] = cur(v)
      BY <3>1, <3>2, Queues DEF GoodLabels
    <3>4. cur(v) \in Int
      BY <3>1, Parity DEF IInv, Paired
    <3> QED BY <2>1, <3>3, <3>4 DEF Exchanged
  <2>5. \A v \in Own(a) \union Ghosts(a) : new[v] \in Int
    BY <2>1, <2>3, <2>4
  <2>6. new = [v \in Own(a) \union Ghosts(a) |-> new[v]]
    BY <2>2 DEF Exchanged
  <2> HIDE DEF new
  <2> QED BY <2>3, <2>4, <2>5, <2>6
<1> HIDE DEF new
<1>6. /\ where' = [p \in PE |-> where'[p]] /\ where'[a] = new
      /\ \A p \in PE : p # a => where'[p] = where[p]
  <2>1. where = [p \in PE |-> where[p]]
    BY DEF IInv, Typed
  <2> QED BY <1>1, <2>1
<1>7. \A p \in PE : update'[p] = IF p = a THEN {} ELSE update[p]
  BY <1>1 DEF IInv, Typed
<1>8. Typed'
  <2>1. \A p \in PE : where'[p] \in [Own(p) \union Ghosts(p) -> Int]
    BY <1>5, <1>6 DEF IInv, Typed
  <2>2. update' \in [PE -> SUBSET Vertex] /\ \A p \in PE : update'[p] \subseteq Own(p)
    BY <1>1, <1>7 DEF IInv, Typed
  <2> QED BY <1>1, <1>4, <1>6, <2>1, <2>2 DEF IInv, Typed
<1>9. \A v \in Vertex : where'[Owner[v]][v] = where[Owner[v]][v]
  BY <1>5, <1>6, OwnerIn
<1>10. /\ \A v \in Vertex : cur(v)' = cur(v)
       /\ \A u, v \in Vertex : Crosses(u, v)' <=> Crosses(u, v)
       /\ \A p, q \in PE : \A u \in Own(q), v \in Own(p) : Crosses(u, v)' => Crosses(u, v)
       /\ \A p, q \in PE : \A v \in Send(q, p) : v \in Vertex /\ cur(v)' = cur(v)
       /\ Paired'
  BY <1>1, <1>9, SameLabels DEF IInv
<1>11. \A q \in Nbrs(a) : q \in PE /\ q # a /\ LabelsOut(q)
  BY <1>1, LabelsArrived
<1>12. Boxes'
  <2> SUFFICES ASSUME NEW p \in PE, NEW q \in Nbrs(p) PROVE Box(q, p)'
    BY DEF Boxes
  <2>1. q \in PE /\ Box(q, p) /\ p \in Nbrs(q) /\ p # q
    BY NbrsIn, NbrsBothWays, NbrsAre, SendIs DEF IInv, Boxes
  <2>2. CASE p = a
    <3>1. PICK n : chan[q][a] = <<n>>
      BY <1>1, <2>2, LabelsArrived
    <3>2. chan'[q][a] = <<>>
      <4>1. chan'[q][a] = Tail(<<n>>)
        BY <1>4, <2>1, <2>2, <3>1
      <4> QED BY <4>1, Queues
    <3>3. ~UpdatesDue(a)' /\ ~LabelsDue(a)' /\ ~WhereDue(a)'
      BY <1>2 DEF UpdatesDue, LabelsDue, WhereDue
    <3> QED BY <2>2, <3>2, <3>3 DEF Box
  <2>3. CASE p # a
    <3>1. /\ LabelsOut(q)' <=> LabelsOut(q)
          /\ UpdatesOut(q)' <=> UpdatesOut(q)
          /\ WhereOut(q)' <=> WhereOut(q)
          /\ LabelsDue(p)' <=> LabelsDue(p)
          /\ UpdatesDue(p)' <=> UpdatesDue(p)
          /\ WhereDue(p)' <=> WhereDue(p)
      BY <1>1, <1>2, <2>1, <2>3
      DEF LabelsOut, UpdatesOut, WhereOut, LabelsDue, UpdatesDue, WhereDue
    <3>2. chan'[q][p] = chan[q][p] /\ \A v \in Send(q, p) : where'[p][v] = where[p][v]
      BY <1>4, <1>6, <2>1, <2>3
    <3> QED BY <1>10, <2>1, <3>1, <3>2, SameBox
  <2> QED BY <2>2, <2>3
<1>13. NotAhead'
  <2> SUFFICES ASSUME NEW p \in PE, NEW q \in Nbrs(p)
               PROVE  /\ LabelsOut(q)' => pc'[p] # "move"
                      /\ pc'[q] = "sum" => pc'[p] \notin {"move", "pull"}
                      /\ pc'[q] = "paramsum" => pc'[p] \notin {"interior", "params"}
    BY DEF NotAhead
  <2>1. q \in PE /\ p \in Nbrs(q) /\ p # q
    BY NbrsIn, NbrsBothWays, NbrsAre, SendIs
  <2>2. q = a => pc'[p] \in {"labels", "sum"}
    BY <1>2, <1>11, <2>1 DEF LabelsOut
  <2> QED BY <1>1, <1>2, <2>1, <2>2 DEF IInv, NotAhead, LabelsOut
<1>14. Copies'
  <2> SUFFICES ASSUME NEW p \in PE, NEW x \in Ghosts(p)
               PROVE  /\ pc'[p] \in {"paramsum", "greedy", "sum"} => where'[p][x] = cur(x)'
                      /\ pc'[p] \in {"move", "pull", "labels"} /\ ~LabelsOut(Owner[x])' =>
                           where'[p][x] = cur(x)' \/ x \in changed'[Owner[x]]
    BY DEF Copies
  <2>1. cur(x)' = cur(x) /\ (LabelsOut(Owner[x])' <=> LabelsOut(Owner[x]))
    BY <1>1, <1>2, <1>10, GhostsAre, OwnerIn DEF LabelsOut
  <2>2. CASE p = a
    BY <1>2, <1>5, <1>6, <2>1, <2>2
  <2>3. CASE p # a
    BY <1>1, <1>2, <1>6, <2>1, <2>3 DEF IInv, Copies
  <2> QED BY <2>2, <2>3
<1>15. Changed'
  <2> SUFFICES ASSUME NEW p \in PE
               PROVE  /\ pc'[p] \in {"move", "pull"} => \A w \in changed'[p] :
                           w \in Own(p) /\ cur(w)' < nparts /\ cur(w)' % 2 = c'
                      /\ pc'[p] \notin {"move", "pull"} => changed'[p] = {}
    BY DEF Changed
  <2>1. \A w \in Own(p) : cur(w)' = cur(w)
    BY <1>10, OwnIs
  <2> QED BY <1>1, <1>2, <2>1 DEF IInv, Changed
<1>16. Lists'
  <2> SUFFICES ASSUME NEW p \in PE
               PROVE  /\ pc'[p] \in {"paramsum", "greedy", "pull", "labels", "sum"} =>
                           sepind'[p] = Seps(p)'
                      /\ pc'[p] = "move" => /\ sepind'[p] \union queue'[p] = Seps(p)'
                                            /\ sepind'[p] \intersect queue'[p] = {}
    BY DEF Lists
  <2>1. Seps(p)' = Seps(p)
    BY <1>5, <1>6 DEF Seps
  <2> QED BY <1>1, <1>2, <2>1 DEF IInv, Lists
<1>17. Pending'
  <2> SUFFICES ASSUME NEW v \in Vertex, NEW u \in Adj[v], Crosses(u, v)'
               PROVE  IF Owner[u] = Owner[v]
                      THEN pc'[Owner[v]] \in {"move", "pull"} /\ v \in update'[Owner[v]]
                      ELSE \/ pc'[Owner[u]] = "move" /\ v \in supdate'[Owner[u]]
                           \/ UpdatesOut(Owner[u])' /\ UpdatesDue(Owner[v])'
    BY DEF Pending
  <2>1. u \in Vertex /\ Owner[u] \in PE /\ Owner[v] \in PE /\ Crosses(u, v)
    BY <1>10, EdgesBothWays, OwnerIn
  <2>2. IF Owner[u] = Owner[v]
        THEN pc[Owner[v]] \in {"move", "pull"} /\ v \in update[Owner[v]]
        ELSE \/ pc[Owner[u]] = "move" /\ v \in supdate[Owner[u]]
             \/ UpdatesOut(Owner[u]) /\ UpdatesDue(Owner[v])
    BY <1>2, <2>1 DEF IInv, Pending
  <2>3. Owner[v] # a
    BY <1>1, <1>11, <2>1, <2>2, EdgeKnown DEF UpdatesDue, LabelsOut
  <2>4. pc'[Owner[v]] = pc[Owner[v]] /\ update'[Owner[v]] = update[Owner[v]]
    BY <1>2, <1>7, <2>1, <2>3
  <2>5. CASE Owner[u] = a
    BY <1>1, <1>2, <2>1, <2>2, <2>3, <2>4, <2>5 DEF UpdatesOut, UpdatesDue
  <2>6. CASE Owner[u] # a
    BY <1>1, <1>2, <2>1, <2>2, <2>4, <2>6 DEF UpdatesOut, UpdatesDue
  <2> QED BY <2>5, <2>6
<1>18. Parted'
  BY <1>2 DEF Parted, SidePhases
<1> QED BY <1>2, <1>8, <1>10, <1>12, <1>13, <1>14, <1>15, <1>16, <1>17, <1>18 DEF IInv

-----------------------------------------------------------------------------
(* The theorems.                                                           *)

LEMMA StutterKeeps == IInv /\ UNCHANGED vars => IInv'
<1> SUFFICES ASSUME IInv, UNCHANGED vars PROVE IInv'
  OBVIOUS
<1>1. UNCHANGED <<pc, c, where, sepind, queue, update, supdate, changed, chan>>
  BY DEF vars, greedy
<1>2. Together' /\ Typed' /\ NotAhead'
  BY <1>1 DEF IInv, Together, Typed, NotAhead, LabelsOut
<1>3. Paired' /\ Copies' /\ Changed'
  BY <1>1 DEF IInv, Paired, Copies, Changed, LabelsOut, cur, PairOf, InSeparator
<1>4. Boxes'
  BY <1>1 DEF IInv, Boxes, Box, LabelsOut, UpdatesOut, WhereOut, LabelsDue, UpdatesDue, WhereDue,
              GoodLabels, GoodUpdates, GoodWhere, Crosses, cc, cur
<1>5. Lists' /\ Pending' /\ Parted'
  BY <1>1 DEF IInv, Lists, Seps, InSeparator, Pending, Parted, Separated, Current, Crosses, cc, cur,
              UpdatesOut, UpdatesDue
<1> QED BY <1>2, <1>3, <1>4, <1>5 DEF IInv

LEMMA NextKeeps == IInv /\ [Next]_vars => IInv'
<1> SUFFICES ASSUME IInv, [Next]_vars PROVE IInv'
  OBVIOUS
<1>1. ASSUME NEW p \in PE, Params(p) PROVE IInv'
  BY <1>1, SendWhereKeeps, ComputeParamsKeeps DEF Params
<1>2. ASSUME NEW p \in PE, Greedy(p) PROVE IInv'
  BY <1>2, MoveVertexKeeps, SendUpdatesKeeps, PullVerticesKeeps, UpdateDegreesKeeps DEF Greedy
<1>3. ASSUME NEW p \in PE, RefineInterior(p) PROVE IInv'
  BY <1>3, RefineInteriorKeeps
<1>4. ASSUME ReduceParams \/ StartGreedy \/ EndSide PROVE IInv'
  BY <1>4, ReduceParamsKeeps, StartGreedyKeeps, EndSideKeeps
<1>5. ASSUME UNCHANGED vars PROVE IInv'
  BY <1>5, StutterKeeps
<1> QED BY <1>1, <1>2, <1>3, <1>4, <1>5 DEF Next

\* The inductive invariant: labels stay in their pairs, every message says what its receiver
\* needs, the copies a PE decides by are right where it matters, and every edge that a move has
\* laid open is known to the PE that will close it.
THEOREM Invariance == Spec => []IInv
<1>1. Init => IInv
  BY InitInv
<1>2. IInv /\ [Next]_vars => IInv'
  BY NextKeeps
<1> QED BY <1>1, <1>2, PTL DEF Spec

\* However the moves of the PEs meet, no edge joins the two parts of a pair after a side of
\* KWayNodeRefine_Greedy or after KWayNodeRefineInterior.
THEOREM SeparatorsSeparate == Spec => []Separates
<1>1. IInv => Separates
  BY InvSeparates
<1> QED BY <1>1, Invariance, PTL

-----------------------------------------------------------------------------
(* The degrees and the weights.                                            *)

\* The neighbours of v in the part of parity x of its pair.
OnSide(v, x) == {u \in Adj[v] : cur(u) < nparts /\ cur(u) % 2 = x}

\* q has noted u as next to a vertex it moved, and u's owner has not seen to it yet.
Marked(q, u) ==
  \/ Owner[u] = q /\ pc[q] \in {"move", "pull"} /\ u \in update[q]
  \/ Owner[u] # q /\ pc[q] = "move" /\ u \in supdate[q]
  \/ /\ Owner[u] # q /\ Owner[u] \in Nbrs(q) /\ UpdatesOut(q) /\ UpdatesDue(Owner[u])
     /\ u \in Head(chan[q][Owner[u]])

\* The vertices that are to be pulled into the separators in this side.
ToClose == {v \in Vertex : cur(v) < nparts /\ cur(v) % 2 = cc /\ \E q \in PE : Marked(q, v)}
InSeparators == {v \in Vertex : InSeparator(cur(v))}

Numbers == edegrees \in [Vertex -> [{0, 1} -> Int]] /\ lpwgts \in [PE -> [Label -> Int]] /\ mincut \in Int

\* The weights a PE keeps of its own vertices.
Weighed ==
  \A p \in PE : pc[p] \in {"paramsum", "greedy", "move", "pull", "labels", "sum"} =>
    lpwgts[p] = WeightsOf(Own(p), where[p])

\* The lists of marked vertices are empty between the sides.
Fresh ==
  \A p \in PE : /\ pc[p] \notin {"move", "pull", "labels"} => update[p] = {}
                /\ pc[p] # "move" => supdate[p] = {}
                /\ supdate[p] \intersect Own(p) = {}

\* While vertices are moved, a degree on the side they leave counts the neighbours
\* that are not marked.
Promised ==
  \A p \in PE : pc[p] = "move" => \A v \in Seps(p) :
    edegrees[v][cc] >= Weight({u \in Adj[v] \ (update[p] \union supdate[p]) :
                                 where[p][u] = Other(p, v)})

\* Afterwards it counts those that will not be pulled in because of a mark of this PE.
Remaining ==
  \A p \in PE : pc[p] \in {"pull", "labels"} => \A v \in Seps(p) :
    \/ v \in update[p]
    \/ edegrees[v][cc] >= Weight({u \in OnSide(v, cc) : ~Marked(p, u)})

\* A separator vertex next to a moved one is marked: its degrees will be computed anew.
Gained ==
  \A p \in PE : pc[p] \in {"move", "pull", "labels"} => \A v \in Seps(p) :
    \/ v \in update[p]
    \/ \E q \in Nbrs(p) : Marked(q, v)
    \/ edegrees[v][c] >= Weight(OnSide(v, c))

\* At the end of a side no neighbour is missing in a degree.
Bounded ==
  \A p \in PE : pc[p] \in {"paramsum", "greedy", "sum"} => \A v \in Seps(p) : \A x \in {0, 1} :
    /\ edegrees[v][x] >= Weight(OnSide(v, x))
    /\ pc[p] = "paramsum" => edegrees[v][x] = Weight(OnSide(v, x))

\* The separators and all that will join them do not weigh more than mincut.
NotHeavier ==
  (\A p \in PE : pc[p] # "done") => Weight(InSeparators \union ToClose) <= mincut

DInv ==
  /\ IInv
  /\ Numbers
  /\ Weighed
  /\ Fresh
  /\ Promised
  /\ Remaining
  /\ Gained
  /\ Bounded
  /\ NotHeavier

-----------------------------------------------------------------------------
(* Weights.                                                                *)

LEMMA VertexSets ==
  /\ \A S \in SUBSET Vertex : IsFiniteSet(S) /\ Weight(S) \in Nat
  /\ \A v \in Vertex : VWgt[v] \in Nat
<1>1. ASSUME NEW S \in SUBSET Vertex PROVE IsFiniteSet(S) /\ Weight(S) \in Nat
  <2>1. IsFiniteSet(S)
    BY FiniteAssumption, FS_Subset
  <2>2. \A v \in S : VWgt[v] \in Nat
    BY WeightAssumption
  <2> QED BY <2>1, <2>2, SumNat DEF Weight
<1> QED BY <1>1, WeightAssumption

LEMMA WeightOfTwo ==
  ASSUME NEW S \in SUBSET Vertex, NEW T \in SUBSET Vertex, S \intersect T = {}
  PROVE  Weight(S \union T) = Weight(S) + Weight(T)
<1>1. IsFiniteSet(S) /\ IsFiniteSet(T) /\ \A x \in S \union T : VWgt[x] \in Int
  BY VertexSets
<1> QED BY <1>1, SumUnion DEF Weight

LEMMA WeightMonotone ==
  ASSUME NEW T \in SUBSET Vertex, NEW S \in SUBSET T
  PROVE  Weight(S) <= Weight(T)
<1>1. S \in SUBSET Vertex /\ T \ S \in SUBSET Vertex /\ S \intersect (T \ S) = {} /\ S \union (T \ S) = T
  OBVIOUS
<1>2. Weight(T) = Weight(S) + Weight(T \ S)
  BY <1>1, WeightOfTwo
<1> QED BY <1>1, <1>2, VertexSets

LEMMA WeightOfUnion ==
  ASSUME NEW S \in SUBSET Vertex, NEW T \in SUBSET Vertex
  PROVE  Weight(S \union T) <= Weight(S) + Weight(T)
<1>1. T \ S \in SUBSET T /\ T \ S \in SUBSET Vertex /\ S \intersect (T \ S) = {} /\ S \union (T \ S) = S \union T
  OBVIOUS
<1>2. Weight(S \union T) = Weight(S) + Weight(T \ S)
  BY <1>1, WeightOfTwo
<1>3. Weight(T \ S) <= Weight(T)
  BY <1>1, WeightMonotone
<1> QED BY <1>1, <1>2, <1>3, VertexSets

LEMMA WeightWithout ==
  ASSUME NEW S \in SUBSET Vertex, NEW T \in SUBSET S
  PROVE  Weight(S \ T) = Weight(S) - Weight(T)
<1>1. T \in SUBSET Vertex /\ S \ T \in SUBSET Vertex /\ T \intersect (S \ T) = {} /\ T \union (S \ T) = S
  OBVIOUS
<1>2. Weight(S) = Weight(T) + Weight(S \ T)
  BY <1>1, WeightOfTwo
<1> QED BY <1>1, <1>2, VertexSets

LEMMA WeightOfVertex == \A v \in Vertex : Weight({v}) = VWgt[v]
<1> SUFFICES ASSUME NEW v \in Vertex PROVE Weight({v}) = VWgt[v]
  OBVIOUS
<1>1. IsFiniteSet({v}) /\ VWgt[v] \in Int
  BY VertexSets
<1>2. SumFunctionOnSet(VWgt, {v}) = VWgt[v]
  BY <1>1, SumOfOne
<1> QED BY <1>2 DEF Weight

\* What an index set divides into parts weighs what they weigh together.
LEMMA WeightOfParts ==
  ASSUME NEW I, IsFiniteSet(I), NEW part, NEW sum, NEW all,
         \A i \in I : part[i] \in SUBSET Vertex /\ sum[i] = Weight(part[i]),
         \A i, j \in I : i # j => part[i] \intersect part[j] = {},
         \A x : x \in all <=> \E i \in I : x \in part[i]
  PROVE  Weight(all) = SumFunctionOnSet(sum, I)
<1>1. \A i \in I : /\ IsFiniteSet(part[i])
                   /\ \A x \in part[i] : VWgt[x] \in Int
                   /\ sum[i] = SumFunctionOnSet(VWgt, part[i])
  BY VertexSets DEF Weight
<1>2. SumFunctionOnSet(VWgt, UNION {part[i] : i \in I}) = SumFunctionOnSet(sum, I)
  BY <1>1, SumOfParts
<1>3. all = UNION {part[i] : i \in I}
  OBVIOUS
<1> QED BY <1>2, <1>3 DEF Weight

-----------------------------------------------------------------------------
(* Degrees.                                                                *)

\* What the sets of neighbours are.
LEMMA Neighbours ==
  \A v \in Vertex : Adj[v] \in SUBSET Vertex /\ \A x : OnSide(v, x) \in SUBSET Vertex
BY AdjAssumption DEF OnSide

\* A part of the pair of a separator vertex.
LEMMA OtherPart ==
  ASSUME IInv, NEW p \in PE, NEW v \in Seps(p)
  PROVE  /\ v \in Vertex /\ v \in Own(p) /\ Owner[v] = p /\ cur(v) = where[p][v]
         /\ PairOf(cur(v)) \in Pairs /\ cur(v) = nparts + PairOf(cur(v))
         /\ where[p][v] % nparts = PairOf(cur(v))
         /\ To(p, v) = PairOf(cur(v)) + c /\ Other(p, v) = PairOf(cur(v)) + cc
<1>1. v \in Vertex /\ v \in Own(p) /\ Owner[v] = p /\ cur(v) = where[p][v] /\ InSeparator(cur(v))
  BY OwnIs DEF Seps, cur
<1>2. cur(v) \in Label /\ PairOf(cur(v)) \in Pairs
  BY <1>1 DEF IInv, Paired
<1>3. cur(v) = nparts + PairOf(cur(v)) /\ cur(v) % nparts = PairOf(cur(v))
  BY <1>1, <1>2, SeparatorLabel
<1> QED BY <1>1, <1>2, <1>3 DEF To, Other

\* The neighbours of a separator vertex that are not in the separator.
LEMMA SideLabel ==
  ASSUME IInv, NEW p \in PE, NEW v \in Seps(p), NEW u \in Adj[v]
  PROVE  /\ u \in Vertex /\ cur(u) \in Label /\ PairOf(cur(u)) = PairOf(cur(v))
         /\ \A x \in {0, 1} : u \in OnSide(v, x) <=> cur(u) = PairOf(cur(v)) + x
         /\ cur(u) # cur(v) <=> cur(u) < nparts
<1>1. /\ v \in Vertex /\ PairOf(cur(v)) \in Pairs /\ cur(v) = nparts + PairOf(cur(v))
  BY OtherPart
<1>2. u \in Vertex /\ cur(u) \in Label /\ PairOf(cur(u)) = PairOf(cur(v))
  BY <1>1, EdgesBothWays DEF IInv, Paired
<1>3. cur(u) # cur(v) <=> cur(u) < nparts
  BY <1>1, <1>2, PartsAssumption DEF PairOf, InSeparator, Pairs, Label
<1>4. ASSUME NEW x \in {0, 1} PROVE u \in OnSide(v, x) <=> cur(u) = PairOf(cur(v)) + x
  <2>1. /\ PairOf(cur(v)) + x \in Label /\ PairOf(cur(v)) + x < nparts
        /\ PairOf(PairOf(cur(v)) + x) = PairOf(cur(v)) /\ (PairOf(cur(v)) + x) % 2 = x
    BY <1>1, PartLabel
  <2>2. cur(u) < nparts /\ cur(u) % 2 = x => cur(u) = PairOf(cur(v)) + x
    BY <1>2, <2>1, TwoParts
  <2> QED BY <2>1, <2>2 DEF OnSide
<1> QED BY <1>2, <1>3, <1>4

\* What Degrees computes from labels that are up to date.
LEMMA DegreesAre ==
  ASSUME IInv, NEW p \in PE, NEW v \in Seps(p), NEW w, w[v] = cur(v), \A u \in Adj[v] : w[u] = cur(u)
  PROVE  /\ Degrees(v, w) = [x \in {0, 1} |-> Weight(OnSide(v, x))]
         /\ Degrees(v, w) \in [{0, 1} -> Int]
<1>1. ASSUME NEW x \in {0, 1} PROVE {u \in Adj[v] : w[u] # w[v] /\ w[u] % 2 = x} = OnSide(v, x)
  BY SideLabel DEF OnSide
<1>2. \A x \in {0, 1} : Weight({u \in Adj[v] : w[u] # w[v] /\ w[u] % 2 = x}) = Weight(OnSide(v, x))
  BY <1>1
<1>3. \A x : Weight(OnSide(v, x)) \in Int
  BY OtherPart, Neighbours, VertexSets
<1> QED BY <1>2, <1>3 DEF Degrees

LEMMA SidesStay ==
  ASSUME NEW v, \A u \in Adj[v] : cur(u)' = cur(u)
  PROVE  \A x : OnSide(v, x)' = OnSide(v, x)
BY DEF OnSide

\* Sums of degrees are numbers.
LEMMA SideWeights ==
  \A v \in Vertex : \A x : Weight(OnSide(v, x)) \in Nat
BY Neighbours, VertexSets

-----------------------------------------------------------------------------
(* Nothing is marked but in a side.                                        *)

LEMMA NothingMarked ==
  (\A p \in PE : pc[p] \notin {"move", "pull"}) => ToClose = {}
<1> SUFFICES ASSUME \A p \in PE : pc[p] \notin {"move", "pull"}, NEW v \in Vertex, NEW q \in PE,
                    Marked(q, v)
             PROVE  FALSE
  BY DEF ToClose
<1>1. Owner[v] \in PE
  BY OwnerIn
<1> QED BY <1>1 DEF Marked, UpdatesDue

LEMMA NothingMarkedNext ==
  (\A p \in PE : pc'[p] \notin {"move", "pull"}) => ToClose' = {}
<1> SUFFICES ASSUME \A p \in PE : pc'[p] \notin {"move", "pull"}, NEW v \in Vertex, NEW q \in PE,
                    Marked(q, v)'
             PROVE  FALSE
  BY DEF ToClose
<1>1. Owner[v] \in PE
  BY OwnerIn
<1> QED BY <1>1 DEF Marked, UpdatesDue

\* A step of one PE outside the sides.
LEMMA ParamStep ==
  ASSUME DInv, IInv', NEW a \in PE,
         \A p \in PE : pc[p] \in ParamPhases /\ pc'[p] \in ParamPhases,
         \A p \in PE : p # a => /\ pc'[p] = pc[p] /\ where'[p] = where[p]
                                /\ lpwgts'[p] = lpwgts[p]
                                /\ \A v \in Seps(p) : edegrees'[v] = edegrees[v],
         \A p \in PE : p # a /\ pc[p] = "paramsum" => \A v \in Seps(p) : \A u \in Adj[v] : cur(u)' = cur(u),
         UNCHANGED <<mincut, update, supdate>>, Numbers',
         Weight(InSeparators') <= Weight(InSeparators), InSeparators' \subseteq Vertex,
         pc'[a] = "paramsum" =>
           /\ lpwgts'[a] = WeightsOf(Own(a), where'[a])
           /\ \A v \in Seps(a)' : \A x \in {0, 1} : edegrees'[v][x] = Weight(OnSide(v, x)')
  PROVE  DInv'
<1>1. /\ \A p \in PE : pc'[p] \in {"interior", "params", "ghosts", "paramsum"}
      /\ \A p \in PE : pc[p] \in {"interior", "params", "ghosts", "paramsum"}
  BY DEF ParamPhases
<1>2. Weighed'
  <2> SUFFICES ASSUME NEW p \in PE, pc'[p] = "paramsum"
               PROVE  lpwgts'[p] = WeightsOf(Own(p), where'[p])
    BY <1>1 DEF Weighed, WeightsOf, InSeparator
  <2>1. CASE p # a
    BY <2>1 DEF DInv, Weighed
  <2> QED BY <2>1
<1>3. Fresh'
  BY <1>1 DEF DInv, Fresh
<1>4. Promised' /\ Remaining' /\ Gained'
  BY <1>1 DEF Promised, Remaining, Gained
<1>5. Bounded'
  <2> SUFFICES ASSUME NEW p \in PE, pc'[p] = "paramsum", NEW v \in Seps(p)', NEW x \in {0, 1}
               PROVE  /\ edegrees'[v][x] = Weight(OnSide(v, x)')
                      /\ edegrees'[v][x] >= Weight(OnSide(v, x)')
    BY <1>1 DEF Bounded
  <2>0. v \in Vertex /\ Weight(OnSide(v, x)') \in Nat
    <3>1. v \in Vertex /\ OnSide(v, x)' \in SUBSET Vertex
      BY OwnIs, Neighbours DEF Seps, OnSide
    <3> QED BY <3>1, VertexSets
  <2>1. CASE p # a
    <3>1. v \in Seps(p) /\ pc[p] = "paramsum"
      BY <2>1 DEF Seps
    <3>2. OnSide(v, x)' = OnSide(v, x)
      BY <2>1, <3>1, SidesStay
    <3>3. edegrees'[v] = edegrees[v] /\ edegrees[v][x] = Weight(OnSide(v, x))
      BY <2>1, <3>1 DEF DInv, Bounded
    <3> QED BY <2>0, <3>2, <3>3
  <2>2. CASE p = a
    BY <2>0, <2>2
  <2> QED BY <2>1, <2>2
<1>6. NotHeavier'
  <2>1. ToClose' = {} /\ ToClose = {}
    BY <1>1, NothingMarked, NothingMarkedNext
  <2>2. InSeparators \union ToClose = InSeparators /\ InSeparators' \union ToClose' = InSeparators'
    BY <2>1
  <2>3. Weight(InSeparators) <= mincut
    BY <1>1, <2>2 DEF DInv, NotHeavier
  <2>4. Weight(InSeparators) \in Nat /\ Weight(InSeparators') \in Nat /\ mincut \in Int
    BY VertexSets DEF InSeparators, DInv, Numbers
  <2>5. Weight(InSeparators') <= mincut'
    BY <2>3, <2>4
  <2> QED BY <2>2, <2>5 DEF NotHeavier
<1> QED BY <1>2, <1>3, <1>4, <1>5, <1>6 DEF DInv

-----------------------------------------------------------------------------
(* ComputeNodePartitionParams and KWayNodeRefineInterior.                  *)

LEMMA WeightsTyped == \A p \in PE : \A w : WeightsOf(Own(p), w) \in [Label -> Int]
<1> SUFFICES ASSUME NEW p \in PE, NEW w PROVE WeightsOf(Own(p), w) \in [Label -> Int]
  OBVIOUS
<1>1. ASSUME NEW a \in Label
      PROVE  Weight({v \in Own(p) : w[v] = a \/ (a = Total /\ InSeparator(w[v]))}) \in Int
  <2>1. {v \in Own(p) : w[v] = a \/ (a = Total /\ InSeparator(w[v]))} \in SUBSET Vertex
    BY OwnIs
  <2> QED BY <2>1, VertexSets
<1> QED BY <1>1 DEF WeightsOf

LEMMA SendWhereDegrees == ASSUME DInv, NEW a \in PE, SendWhere(a) PROVE DInv'
<1>1. /\ pc[a] = "params" /\ pc' = [pc EXCEPT ![a] = "ghosts"]
      /\ UNCHANGED <<where, edegrees, lpwgts, mincut, update, supdate>>
  BY DEF SendWhere
<1>2. IInv'
  BY SendWhereKeeps DEF DInv
<1>3. /\ pc'[a] = "ghosts" /\ \A p \in PE : p # a => pc'[p] = pc[p]
      /\ \A p \in PE : pc[p] \in ParamPhases /\ pc'[p] \in ParamPhases
  <2>1. pc[a] \in ParamPhases /\ "ghosts" \in ParamPhases
    BY <1>1 DEF ParamPhases
  <2>2. /\ pc'[a] = "ghosts" /\ \A p \in PE : p # a => pc'[p] = pc[p]
        /\ \A p \in PE : pc[p] \in ParamPhases
    BY <1>1, <2>1, StaysTogether DEF DInv, IInv
  <2> QED BY <2>1, <2>2
<1>4. InSeparators' = InSeparators /\ \A u : cur(u)' = cur(u)
  BY <1>1 DEF InSeparators, cur
<1>5. Weight(InSeparators') <= Weight(InSeparators) /\ InSeparators' \subseteq Vertex
  <2>1. Weight(InSeparators) \in Nat /\ InSeparators \subseteq Vertex
    BY VertexSets DEF InSeparators
  <2> QED BY <1>4, <2>1
<1>6. Numbers'
  BY <1>1 DEF DInv, Numbers
<1> QED BY <1>1, <1>2, <1>3, <1>4, <1>5, <1>6, ParamStep

LEMMA ComputeParamsDegrees == ASSUME DInv, NEW a \in PE, ComputeParams(a) PROVE DInv'
<1> DEFINE new == Exchanged(chan, a, where[a])
           separators == {v \in Own(a) : InSeparator(new[v])}
<1>1. /\ pc[a] = "ghosts" /\ pc' = [pc EXCEPT ![a] = "paramsum"]
      /\ where' = [where EXCEPT ![a] = new]
      /\ edegrees' = [v \in Vertex |-> IF v \in separators THEN Degrees(v, new) ELSE edegrees[v]]
      /\ lpwgts' = [lpwgts EXCEPT ![a] = WeightsOf(Own(a), new)]
      /\ UNCHANGED <<mincut, update, supdate>>
  BY DEF ComputeParams
<1>2. IInv'
  BY ComputeParamsKeeps DEF DInv
<1>3. /\ pc'[a] = "paramsum" /\ \A p \in PE : p # a => pc'[p] = pc[p]
      /\ \A p \in PE : pc[p] \in ParamPhases /\ pc'[p] \in ParamPhases
  <2>1. pc[a] \in ParamPhases /\ "paramsum" \in ParamPhases
    BY <1>1 DEF ParamPhases
  <2>2. /\ pc'[a] = "paramsum" /\ \A p \in PE : p # a => pc'[p] = pc[p]
        /\ \A p \in PE : pc[p] \in ParamPhases
    BY <1>1, <2>1, StaysTogether DEF DInv, IInv
  <2> QED BY <2>1, <2>2
<1>4. /\ where'[a] = new /\ \A p \in PE : p # a => where'[p] = where[p]
      /\ lpwgts'[a] = WeightsOf(Own(a), new) /\ \A p \in PE : p # a => lpwgts'[p] = lpwgts[p]
  <2>1. where = [p \in PE |-> where[p]] /\ lpwgts \in [PE -> [Label -> Int]]
    BY DEF DInv, IInv, Typed, Numbers
  <2> HIDE DEF new
  <2> QED BY <1>1, <2>1
<1>5. \A v \in Own(a) : new[v] = where[a][v]
  <2>1. where[a] \in [Own(a) \union Ghosts(a) -> Int]
    BY DEF DInv, IInv, Typed
  <2> QED BY <2>1, OwnIs, GhostsAre DEF Exchanged
<1> HIDE DEF new
<1>6. \A u \in Vertex : cur(u)' = cur(u)
  BY <1>4, <1>5, OwnerIn DEF cur
<1>7. separators = Seps(a) /\ Seps(a)' = Seps(a)
  BY <1>4, <1>5 DEF Seps
\* The copies are right now.
<1>8. ASSUME NEW v \in Seps(a) PROVE new[v] = cur(v) /\ \A u \in Adj[v] : new[u] = cur(u)
  <2>1. v \in Vertex /\ v \in Own(a) /\ Owner[v] = a /\ new[v] = cur(v)
    BY <1>5, OwnIs DEF Seps, cur
  <2>2. ASSUME NEW u \in Adj[v] PROVE new[u] = cur(u)
    <3>1. u \in Vertex
      BY <2>1, EdgesBothWays
    <3>2. CASE Owner[u] = a
      BY <1>5, <3>1, <3>2, OwnerIn DEF cur
    <3>3. CASE Owner[u] # a
      <4>1. u \in Ghosts(a)
        BY <2>1, <3>3, EdgeKnown
      <4>2. where'[a][u] = cur(u)'
        BY <1>2, <1>3, <4>1 DEF IInv, Copies
      <4> QED BY <1>4, <1>6, <3>1, <4>2
    <3> QED BY <3>2, <3>3
  <2> QED BY <2>1, <2>2
<1>9. ASSUME NEW v \in Seps(a)
      PROVE  /\ edegrees'[v] = Degrees(v, new) /\ Degrees(v, new) \in [{0, 1} -> Int]
             /\ \A x \in {0, 1} : edegrees'[v][x] = Weight(OnSide(v, x))
  <2>1. /\ Degrees(v, new) = [x \in {0, 1} |-> Weight(OnSide(v, x))]
        /\ Degrees(v, new) \in [{0, 1} -> Int]
    BY <1>8, DegreesAre DEF DInv
  <2>2. v \in Vertex /\ edegrees'[v] = Degrees(v, new)
    BY <1>1, <1>7, OwnIs DEF Seps
  <2> QED BY <2>1, <2>2
<1>10. \A p \in PE : p # a => \A v \in Seps(p) : edegrees'[v] = edegrees[v]
  <2> SUFFICES ASSUME NEW p \in PE, p # a, NEW v \in Seps(p) PROVE edegrees'[v] = edegrees[v]
    OBVIOUS
  <2>1. v \in Vertex /\ v \notin Seps(a)
    BY OwnIs DEF Seps
  <2> QED BY <1>1, <1>7, <2>1
<1>11. Numbers'
  <2>1. \A v \in Vertex : edegrees'[v] \in [{0, 1} -> Int]
    <3> SUFFICES ASSUME NEW v \in Vertex PROVE edegrees'[v] \in [{0, 1} -> Int]
      OBVIOUS
    <3>1. CASE v \in Seps(a)
      BY <1>9, <3>1
    <3>2. CASE v \notin Seps(a)
      <4>1. edegrees'[v] = edegrees[v]
        BY <1>1, <1>7, <3>2
      <4> QED BY <4>1 DEF DInv, Numbers
    <3> QED BY <3>1, <3>2
  <2>2. edegrees' = [v \in Vertex |-> edegrees'[v]]
    <3>1. edegrees' = [v \in Vertex |-> IF v \in Seps(a) THEN Degrees(v, new) ELSE edegrees[v]]
      BY <1>1, <1>7
    <3> QED BY <3>1
  <2>3. lpwgts' \in [PE -> [Label -> Int]]
    <3>1. WeightsOf(Own(a), new) \in [Label -> Int]
      BY WeightsTyped
    <3> QED BY <1>1, <3>1 DEF DInv, Numbers
  <2> QED BY <1>1, <2>1, <2>2, <2>3 DEF DInv, Numbers
<1>12. InSeparators' = InSeparators
  BY <1>6 DEF InSeparators
<1>13. Weight(InSeparators') <= Weight(InSeparators) /\ InSeparators' \subseteq Vertex
  <2>1. Weight(InSeparators) \in Nat /\ InSeparators \subseteq Vertex
    BY VertexSets DEF InSeparators
  <2> QED BY <1>12, <2>1
<1>14. \A v \in Seps(a)' : \A x \in {0, 1} : edegrees'[v][x] = Weight(OnSide(v, x)')
  <2> SUFFICES ASSUME NEW v \in Seps(a), NEW x \in {0, 1}
               PROVE  edegrees'[v][x] = Weight(OnSide(v, x)')
    BY <1>7
  <2>1. \A u \in Adj[v] : cur(u)' = cur(u)
    BY <1>6, OwnIs, EdgesBothWays DEF Seps
  <2>2. OnSide(v, x)' = OnSide(v, x)
    BY <2>1, SidesStay
  <2> QED BY <1>9, <2>2
<1>15. \A p \in PE : \A v \in Seps(p) : \A u \in Adj[v] : cur(u)' = cur(u)
  BY <1>6, OwnIs, EdgesBothWays DEF Seps
<1>16. lpwgts'[a] = WeightsOf(Own(a), where'[a])
  BY <1>4
<1> QED BY <1>1, <1>2, <1>3, <1>4, <1>10, <1>11, <1>13, <1>14, <1>15, <1>16, ParamStep

\* METIS leaves no heavier separator.
LEMMA RefinedWeights ==
  ASSUME IInv, NEW a \in PE, NEW new \in RefinementsOf(a)
  PROVE  Weight({v \in Own(a) : InSeparator(new[v])}) <= Weight(Seps(a))
<1> DEFINE R == RefinedPairs(a)
           of(g)   == NodeRefinements(where[a], OfPair(a, g), Border(a), g)
           refined == UNION {OfPair(a, g) : g \in R}
           old == [g \in R |-> {v \in OfPair(a, g) : InSeparator(where[a][v])}]
           now == [g \in R |-> {v \in OfPair(a, g) : InSeparator(new[v])}]
           wold == [g \in R |-> Weight(old[g])]
           wnow == [g \in R |-> Weight(now[g])]
           rest == {v \in Own(a) \ refined : InSeparator(where[a][v])}
<1>1. PICK n : /\ \A g \in R : n[g] \in of(g)
               /\ new = [v \in DOMAIN where[a] |->
                           IF v \in refined THEN n[PairOf(where[a][v])][v] ELSE where[a][v]]
  BY DEF RefinementsOf
<1>2. DOMAIN where[a] = Own(a) \union Ghosts(a)
  BY DEF IInv, Typed
<1>3. IsFiniteSet(R)
  <2>1. R \subseteq 0..(nparts - 1)
    BY DEF RefinedPairs, Pairs
  <2>2. IsFiniteSet(0..(nparts - 1))
    BY PartsAssumption, FS_Interval
  <2> QED BY <2>1, <2>2, FS_Subset
<1>4. \A g \in R : /\ g \in Pairs /\ OfPair(a, g) \in SUBSET Own(a)
                   /\ \A v \in OfPair(a, g) : PairOf(where[a][v]) = g /\ v \in refined
  <2> SUFFICES ASSUME NEW g \in R
               PROVE  /\ g \in Pairs /\ OfPair(a, g) \in SUBSET Own(a)
                      /\ \A v \in OfPair(a, g) : PairOf(where[a][v]) = g /\ v \in refined
    OBVIOUS
  <2>1. g \in Pairs /\ OfPair(a, g) \in SUBSET Own(a)
    BY DEF RefinedPairs, OfPair
  <2> QED BY <2>1, OfPairIs DEF IInv
<1>5. \A v \in Own(a) : v \in Vertex
  BY OwnIs
<1>6. \A g \in R : old[g] \in SUBSET Vertex /\ now[g] \in SUBSET Vertex
  BY <1>4, <1>5
\* Each pair.
<1>7. ASSUME NEW g \in R PROVE wnow[g] <= wold[g]
  <2>1. Weight({v \in OfPair(a, g) : InSeparator(n[g][v])})
          <= Weight({v \in OfPair(a, g) : InSeparator(where[a][v])})
    BY <1>1 DEF NodeRefinements
  <2>2. \A v \in OfPair(a, g) : new[v] = n[g][v]
    BY <1>1, <1>2, <1>4
  <2>3. now[g] = {v \in OfPair(a, g) : InSeparator(n[g][v])}
    BY <2>2
  <2> QED BY <2>1, <2>3
<1>8. SumFunctionOnSet(wnow, R) <= SumFunctionOnSet(wold, R)
  <2>1. \A g \in R : wnow[g] \in Int /\ wold[g] \in Int /\ wnow[g] <= wold[g]
    BY <1>6, <1>7, VertexSets
  <2> HIDE DEF wnow, wold, R
  <2> QED BY <1>3, <2>1, SumMonotone
\* All pairs.
<1>9. Weight(UNION {old[g] : g \in R}) = SumFunctionOnSet(wold, R)
  <2>1. \A g \in R : old[g] \in SUBSET Vertex /\ wold[g] = Weight(old[g])
    BY <1>6
  <2>2. \A g, h \in R : g # h => old[g] \intersect old[h] = {}
    BY <1>4
  <2>3. \A x : x \in UNION {old[g] : g \in R} <=> \E g \in R : x \in old[g]
    OBVIOUS
  <2> HIDE DEF wold, old, R
  <2> QED BY <1>3, <2>1, <2>2, <2>3, WeightOfParts
<1>10. Weight(UNION {now[g] : g \in R}) = SumFunctionOnSet(wnow, R)
  <2>1. \A g \in R : now[g] \in SUBSET Vertex /\ wnow[g] = Weight(now[g])
    BY <1>6
  <2>2. \A g, h \in R : g # h => now[g] \intersect now[h] = {}
    BY <1>4
  <2>3. \A x : x \in UNION {now[g] : g \in R} <=> \E g \in R : x \in now[g]
    OBVIOUS
  <2> HIDE DEF wnow, now, R
  <2> QED BY <1>3, <2>1, <2>2, <2>3, WeightOfParts
<1>11. /\ Seps(a) = rest \union UNION {old[g] : g \in R}
       /\ {v \in Own(a) : InSeparator(new[v])} = rest \union UNION {now[g] : g \in R}
  <2>1. \A v \in Own(a) : v \notin refined => new[v] = where[a][v]
    BY <1>1, <1>2
  <2>2. UNION {old[g] : g \in R} = {v \in refined : InSeparator(where[a][v])}
    OBVIOUS
  <2>3. UNION {now[g] : g \in R} = {v \in refined : InSeparator(new[v])}
    OBVIOUS
  <2>4. refined \subseteq Own(a)
    BY <1>4
  <2> HIDE DEF refined, old, now, R
  <2> QED BY <2>1, <2>2, <2>3, <2>4 DEF Seps
<1>12. /\ rest \in SUBSET Vertex
       /\ UNION {old[g] : g \in R} \in SUBSET Vertex /\ UNION {now[g] : g \in R} \in SUBSET Vertex
       /\ rest \intersect UNION {old[g] : g \in R} = {} /\ rest \intersect UNION {now[g] : g \in R} = {}
  BY <1>4, <1>5
<1> DEFINE allold == UNION {old[g] : g \in R}
           allnow == UNION {now[g] : g \in R}
<1>13. Weight(rest \union allold) = Weight(rest) + Weight(allold)
       /\ Weight(rest \union allnow) = Weight(rest) + Weight(allnow)
  <2>1. /\ rest \in SUBSET Vertex /\ allold \in SUBSET Vertex /\ allnow \in SUBSET Vertex
        /\ rest \intersect allold = {} /\ rest \intersect allnow = {}
    BY <1>12
  <2> HIDE DEF rest, allold, allnow
  <2> QED BY <2>1, WeightOfTwo
<1>14. Weight(allnow) <= Weight(allold)
  BY <1>8, <1>9, <1>10
<1>15. Weight(rest) \in Nat /\ Weight(allold) \in Nat /\ Weight(allnow) \in Nat
  BY <1>12, VertexSets
<1>16. Seps(a) = rest \union allold /\ {v \in Own(a) : InSeparator(new[v])} = rest \union allnow
  BY <1>11
<1>17. Weight(Seps(a)) = Weight(rest) + Weight(allold)
  BY <1>13, <1>16
<1>18. Weight({v \in Own(a) : InSeparator(new[v])}) = Weight(rest) + Weight(allnow)
  BY <1>13, <1>16
<1> HIDE DEF rest, allold, allnow
<1> QED BY <1>14, <1>15, <1>17, <1>18

LEMMA RefineInteriorDegrees == ASSUME DInv, NEW a \in PE, RefineInterior(a) PROVE DInv'
<1>1. PICK new \in RefinementsOf(a) : where' = [where EXCEPT ![a] = new]
  BY DEF RefineInterior
<1>2. /\ pc[a] = "interior" /\ pc' = [pc EXCEPT ![a] = "params"]
      /\ UNCHANGED <<edegrees, lpwgts, mincut, update, supdate>>
  BY DEF RefineInterior
<1>3. IInv'
  BY RefineInteriorKeeps DEF DInv
<1>4. /\ pc'[a] = "params" /\ \A p \in PE : p # a => pc'[p] = pc[p]
      /\ \A p \in PE : pc[p] \in ParamPhases /\ pc'[p] \in ParamPhases
  <2>1. pc[a] \in ParamPhases /\ "params" \in ParamPhases
    BY <1>2 DEF ParamPhases
  <2>2. /\ pc'[a] = "params" /\ \A p \in PE : p # a => pc'[p] = pc[p]
        /\ \A p \in PE : pc[p] \in ParamPhases
    BY <1>2, <2>1, StaysTogether DEF DInv, IInv
  <2> QED BY <2>1, <2>2
<1>5. Separated(Current, Vertex)
  BY <1>4 DEF DInv, IInv, Parted, ParamPhases, SidePhases
<1>6. \A v \in Border(a) : new[v] = where[a][v]
  BY <1>5, RefinedLabels DEF DInv, IInv
<1>7. /\ where'[a] = new /\ \A p \in PE : p # a => where'[p] = where[p]
  <2>1. where = [p \in PE |-> where[p]]
    BY DEF DInv, IInv, Typed
  <2> QED BY <1>1, <2>1
<1>8. ASSUME NEW p \in PE, p # a, NEW v \in Seps(p), NEW u \in Adj[v] PROVE cur(u)' = cur(u)
  <2>1. v \in Vertex /\ v \in Own(p) /\ Owner[v] = p /\ u \in Vertex /\ v \in Adj[u]
    BY OwnIs, EdgesBothWays DEF Seps
  <2>2. CASE Owner[u] = a
    <3>1. u \in Border(a)
      BY <1>8, <2>1, <2>2, SendIs, OwnerIn DEF Border
    <3> QED BY <1>6, <1>7, <2>2, <3>1 DEF cur
  <2>3. CASE Owner[u] # a
    BY <1>7, <2>1, <2>3, OwnerIn DEF cur
  <2> QED BY <2>2, <2>3
<1> DEFINE rest == {v \in Vertex : Owner[v] # a /\ InSeparator(cur(v))}
           now == {v \in Own(a) : InSeparator(new[v])}
<1>9. /\ InSeparators = rest \union Seps(a) /\ InSeparators' = rest \union now
      /\ rest \in SUBSET Vertex /\ Seps(a) \in SUBSET Vertex /\ now \in SUBSET Vertex
      /\ rest \intersect Seps(a) = {} /\ rest \intersect now = {}
  <2>1. \A v \in Vertex : IF Owner[v] = a THEN cur(v) = where[a][v] /\ cur(v)' = new[v] /\ v \in Own(a)
                                          ELSE cur(v)' = cur(v) /\ v \notin Own(a)
    BY <1>7, OwnIs, OwnerIn DEF cur
  <2>2. \A v \in Own(a) : v \in Vertex /\ Owner[v] = a
    BY OwnIs
  <2>3. InSeparators' = {v \in Vertex : InSeparator(cur(v)')}
    BY DEF InSeparators, InSeparator
  <2> QED BY <2>1, <2>2, <2>3 DEF InSeparators, Seps
<1>10. Weight(InSeparators') <= Weight(InSeparators) /\ InSeparators' \subseteq Vertex
  <2>1. Weight(now) <= Weight(Seps(a))
    BY RefinedWeights DEF DInv
  <2>2. /\ Weight(rest \union Seps(a)) = Weight(rest) + Weight(Seps(a))
        /\ Weight(rest \union now) = Weight(rest) + Weight(now)
    <3> HIDE DEF rest, now
    <3> QED BY <1>9, WeightOfTwo
  <2>3. Weight(rest) \in Nat /\ Weight(Seps(a)) \in Nat /\ Weight(now) \in Nat
    BY <1>9, VertexSets
  <2> HIDE DEF rest, now
  <2> QED BY <1>9, <2>1, <2>2, <2>3
<1>11. Numbers'
  BY <1>2 DEF DInv, Numbers
<1> QED BY <1>2, <1>3, <1>4, <1>7, <1>8, <1>10, <1>11, ParamStep

-----------------------------------------------------------------------------
(* The reductions.                                                         *)

\* What the PEs have counted of the separators is all of them.
LEMMA SeparatorsCounted ==
  ASSUME DInv, \A p \in PE : pc[p] \in {"paramsum", "greedy", "sum"}
  PROVE  SumWeights[Total] = Weight(InSeparators) /\ Weight(InSeparators) \in Nat
<1> DEFINE part == [p \in PE |-> Seps(p)]
           sum  == [p \in PE |-> lpwgts[p][Total]]
<1>1. Total \in Label /\ InSeparator(Total)
  BY PartsAssumption DEF Total, Label, InSeparator
<1>2. IsFiniteSet(PE)
  BY NpesAssumption, FS_Interval DEF PE
<1>3. ASSUME NEW p \in PE PROVE part[p] \in SUBSET Vertex /\ sum[p] = Weight(part[p])
  <2>1. Seps(p) \in SUBSET Vertex
    BY OwnIs DEF Seps
  <2>2. lpwgts[p] = WeightsOf(Own(p), where[p])
    BY DEF DInv, Weighed
  <2>3. WeightsOf(Own(p), where[p])[Total]
          = Weight({v \in Own(p) : where[p][v] = Total \/ (Total = Total /\ InSeparator(where[p][v]))})
    BY <1>1 DEF WeightsOf
  <2>4. {v \in Own(p) : where[p][v] = Total \/ (Total = Total /\ InSeparator(where[p][v]))} = Seps(p)
    BY <1>1 DEF Seps
  <2> QED BY <2>1, <2>2, <2>3, <2>4
<1>4. \A p, q \in PE : p # q => part[p] \intersect part[q] = {}
  BY OwnIs DEF Seps
<1>5. \A v : v \in InSeparators <=> \E p \in PE : v \in part[p]
  BY OwnIs, OwnerIn DEF Seps, InSeparators, cur
<1>6. SumWeights[Total] = SumFunctionOnSet(sum, PE)
  BY <1>1 DEF SumWeights, SumFunction
<1>7. Weight(InSeparators) = SumFunctionOnSet(sum, PE)
  <2> HIDE DEF part, sum
  <2> QED BY <1>2, <1>3, <1>4, <1>5, WeightOfParts
<1>8. Weight(InSeparators) \in Nat
  BY VertexSets DEF InSeparators
<1> QED BY <1>6, <1>7, <1>8

\* All PEs leave a reduction together, with the labels and degrees they came with.
LEMMA BarrierStep ==
  ASSUME DInv, IInv', NEW x \in {"greedy", "done", "interior", "move"}, pc' = [p \in PE |-> x],
         \A p \in PE : pc[p] \in {"paramsum", "greedy", "sum"},
         UNCHANGED <<where, edegrees, lpwgts, update, supdate>>,
         mincut' \in Int, Weight(InSeparators) <= mincut'
  PROVE  DInv'
<1>1. \A p \in PE : pc'[p] = x
  OBVIOUS
<1>2. \A p \in PE : update[p] = {} /\ supdate[p] = {} /\ update'[p] = {} /\ supdate'[p] = {}
  BY DEF DInv, Fresh
<1>3. c' \in {0, 1} /\ cc' \in {0, 1} /\ c' # cc'
  <2>1. c' = 0 \/ c' = 1
    BY DEF IInv, Typed
  <2>2. CASE c' = 0
    BY <2>2 DEF cc
  <2>3. CASE c' = 1
    BY <2>3 DEF cc
  <2> QED BY <2>1, <2>2, <2>3
<1>4. Numbers'
  BY DEF DInv, Numbers
<1>5. Weighed'
  <2>1. \A p \in PE : lpwgts[p] = WeightsOf(Own(p), where[p])
    BY DEF DInv, Weighed
  <2> QED BY <2>1 DEF Weighed, WeightsOf, InSeparator
<1>6. Fresh'
  BY <1>2 DEF Fresh
<1>7. \A p \in PE : Seps(p)' = Seps(p)
  BY DEF Seps
<1>8. \A u : cur(u)' = cur(u)
  BY DEF cur
\* The degrees are at least those of the labels.
<1>9. ASSUME NEW p \in PE, NEW v \in Seps(p), NEW y \in {0, 1}
      PROVE  edegrees'[v][y] >= Weight(OnSide(v, y))
  BY DEF DInv, Bounded
<1>10. Bounded'
  <2> SUFFICES ASSUME NEW p \in PE, x = "greedy", NEW v \in Seps(p), NEW y \in {0, 1}
               PROVE  edegrees'[v][y] >= Weight(OnSide(v, y)')
    BY <1>1, <1>7 DEF Bounded
  <2>1. OnSide(v, y)' = OnSide(v, y)
    BY <1>8, SidesStay
  <2> QED BY <1>9, <2>1
<1>11. Remaining'
  BY <1>1 DEF Remaining
<1>12. Gained'
  <2> SUFFICES ASSUME NEW p \in PE, NEW v \in Seps(p)
               PROVE  edegrees'[v][c'] >= Weight(OnSide(v, c)')
    BY <1>1, <1>7 DEF Gained
  <2>1. OnSide(v, c)' = OnSide(v, c')
    BY <1>8 DEF OnSide
  <2> QED BY <1>3, <1>9, <2>1
<1>13. Promised'
  <2> SUFFICES ASSUME NEW p \in PE, NEW v \in Seps(p)
               PROVE  edegrees'[v][cc'] >= Weight({u \in Adj[v] \ (update[p] \union supdate[p]) :
                                                     where[p][u] = Other(p, v)'})
    BY <1>1, <1>7 DEF Promised
  <2> DEFINE S == {u \in Adj[v] \ (update[p] \union supdate[p]) : where[p][u] = Other(p, v)'}
  <2>1. /\ v \in Vertex /\ Owner[v] = p /\ where[p][v] % nparts = PairOf(cur(v))
    BY OtherPart DEF DInv
  <2>2. Other(p, v)' = PairOf(cur(v)) + cc'
    BY <2>1 DEF Other
  <2>3. ASSUME NEW u \in S PROVE u \in OnSide(v, cc')
    <3>1. u \in Adj[v] /\ where[p][u] = PairOf(cur(v)) + cc'
      BY <2>2
    <3>2. where[p][u] = cur(u)
      <4>1. CASE Owner[u] = p
        BY <4>1 DEF cur
      <4>2. CASE Owner[u] # p
        <5>1. u \in Ghosts(p)
          BY <2>1, <3>1, <4>2, EdgeKnown
        <5> QED BY <5>1 DEF DInv, IInv, Copies
      <4> QED BY <4>1, <4>2
    <3> QED BY <1>3, <3>1, <3>2, SideLabel DEF DInv
  <2>4. OnSide(v, cc') \in SUBSET Vertex /\ S \in SUBSET OnSide(v, cc')
    BY <2>1, <2>3, Neighbours
  <2> HIDE DEF S
  <2>5. Weight(S) <= Weight(OnSide(v, cc'))
    BY <2>4, WeightMonotone
  <2>6. S \in SUBSET Vertex
    BY <2>4
  <2>7. /\ edegrees'[v][cc'] >= Weight(OnSide(v, cc')) /\ edegrees'[v][cc'] \in Int
        /\ Weight(OnSide(v, cc')) \in Nat /\ Weight(S) \in Nat
    BY <1>3, <1>4, <1>9, <2>1, <2>4, <2>6, VertexSets DEF Numbers
  <2>8. edegrees'[v][cc'] >= Weight(S)
    BY <2>5, <2>7
  <2> QED BY <2>8 DEF S
<1>14. NotHeavier'
  <2>1. InSeparators' = InSeparators
    BY <1>8 DEF InSeparators, InSeparator
  <2>2. ToClose' = {}
    <3> SUFFICES ASSUME NEW v \in Vertex, NEW q \in PE, Marked(q, v)' PROVE FALSE
      BY DEF ToClose
    <3> QED BY <1>1, <1>2 DEF Marked, UpdatesOut
  <2>3. Weight(InSeparators' \union ToClose') = Weight(InSeparators)
    <3>1. InSeparators' \union ToClose' = InSeparators
      BY <2>1, <2>2
    <3> QED BY <3>1
  <2> QED BY <2>3 DEF NotHeavier
<1> QED BY <1>4, <1>5, <1>6, <1>10, <1>11, <1>12, <1>13, <1>14 DEF DInv

LEMMA ReduceParamsDegrees == ASSUME DInv, ReduceParams PROVE DInv'
<1>1. /\ \A p \in PE : pc[p] = "paramsum"
      /\ mincut' = SumWeights[Total]
      /\ UNCHANGED <<where, edegrees, lpwgts, update, supdate>>
  BY DEF ReduceParams
<1>2. PICK x \in {"done", "greedy"} : pc' = [p \in PE |-> x]
  <2>1. ReduceParams => \/ pc' = [p \in PE |-> "done"] \/ pc' = [p \in PE |-> "greedy"]
    BY Zenon DEF ReduceParams
  <2> QED BY <2>1
<1>3. mincut' = Weight(InSeparators) /\ mincut' \in Nat
  BY <1>1, SeparatorsCounted
<1>4. Weight(InSeparators) <= mincut' /\ mincut' \in Int
  BY <1>3
<1>5. IInv'
  BY ReduceParamsKeeps DEF DInv
<1> QED BY <1>1, <1>2, <1>4, <1>5, BarrierStep

LEMMA StartGreedyDegrees == ASSUME DInv, StartGreedy PROVE DInv'
<1>1. /\ \A p \in PE : pc[p] = "greedy"
      /\ pc' = [p \in PE |-> "move"]
      /\ UNCHANGED <<where, edegrees, lpwgts, update, supdate, mincut>>
  BY DEF StartGreedy
<1>2. Weight(InSeparators) <= mincut' /\ mincut' \in Int
  <2>1. ToClose = {}
    BY <1>1, NothingMarked
  <2>2. InSeparators \union ToClose = InSeparators
    BY <2>1
  <2> QED BY <1>1, <2>2 DEF DInv, NotHeavier, Numbers
<1>3. IInv'
  BY StartGreedyKeeps DEF DInv
<1> QED BY <1>1, <1>2, <1>3, BarrierStep

LEMMA EndSideDegrees == ASSUME DInv, EndSide PROVE DInv'
<1>1. /\ \A p \in PE : pc[p] = "sum"
      /\ mincut' = SumWeights[Total]
      /\ UNCHANGED <<where, edegrees, lpwgts, update, supdate>>
  BY DEF EndSide
<1>2. PICK x \in {"done", "interior", "move"} : pc' = [p \in PE |-> x]
  <2>1. pc' = [p \in PE |-> AfterGreedy] \/ pc' = [p \in PE |-> "move"]
    BY DEF EndSide
  <2>2. AfterGreedy \in {"done", "interior"}
    BY DEF AfterGreedy
  <2> QED BY <2>1, <2>2
<1>3. mincut' = Weight(InSeparators) /\ mincut' \in Nat
  BY <1>1, SeparatorsCounted
<1>4. Weight(InSeparators) <= mincut' /\ mincut' \in Int
  BY <1>3
<1>5. IInv'
  BY EndSideKeeps DEF DInv
<1> QED BY <1>1, <1>2, <1>4, <1>5, BarrierStep

-----------------------------------------------------------------------------
(* The moves.                                                              *)

\* Nothing that the degrees have to do with changes.
LEMMA SameDegrees ==
  ASSUME DInv, IInv',
         UNCHANGED <<pc, c, where, edegrees, lpwgts, update, supdate, mincut, chan>>
  PROVE  DInv'
<1>1. /\ \A v, x : OnSide(v, x)' = OnSide(v, x)
      /\ \A v : OnSide(v, cc)' = OnSide(v, cc) /\ OnSide(v, c)' = OnSide(v, c)
      /\ cc' = cc
      /\ \A q, u : Marked(q, u)' <=> Marked(q, u)
      /\ \A p : Seps(p)' = Seps(p)
      /\ \A p, v : Other(p, v)' = Other(p, v)
  BY DEF OnSide, cc, cur, Marked, UpdatesOut, UpdatesDue, Seps, InSeparator, Other
<1>2. Numbers' /\ Fresh'
  BY DEF DInv, Numbers, Fresh
<1>3. Weighed'
  BY DEF DInv, Weighed, WeightsOf, InSeparator
<1>4. Promised'
  BY <1>1 DEF DInv, Promised
<1>5. Remaining'
  <2> SUFFICES ASSUME NEW p \in PE, pc[p] \in {"pull", "labels"}, NEW v \in Seps(p)
               PROVE  \/ v \in update[p]
                      \/ edegrees'[v][cc'] >= Weight({u \in OnSide(v, cc)' : ~Marked(p, u)'})
    BY <1>1 DEF Remaining
  <2>1. {u \in OnSide(v, cc)' : ~Marked(p, u)'} = {u \in OnSide(v, cc) : ~Marked(p, u)}
    BY <1>1
  <2> QED BY <1>1, <2>1 DEF DInv, Remaining
<1>6. Gained' /\ Bounded'
  BY <1>1 DEF DInv, Gained, Bounded
<1>7. NotHeavier'
  <2>1. InSeparators' = InSeparators /\ ToClose' = ToClose
    BY <1>1 DEF InSeparators, ToClose, cur, InSeparator
  <2> QED BY <2>1 DEF DInv, NotHeavier
<1> QED BY <1>2, <1>3, <1>4, <1>5, <1>6, <1>7 DEF DInv

\* What a PE that moves vertices sees of the neighbours on the side the separator moves away from.
LEMMA OtherSideSeen ==
  ASSUME IInv, NEW p \in PE, pc[p] = "move", NEW v \in Seps(p), NEW u \in OnSide(v, cc)
  PROVE  where[p][u] = Other(p, v) /\ u \in Adj[v] /\ u \in Vertex
<1>1. v \in Vertex /\ Owner[v] = p /\ Other(p, v) = PairOf(cur(v)) + cc
  BY OtherPart
<1>2. u \in Adj[v] /\ cur(u) % 2 = cc
  BY DEF OnSide
<1>3. cc \in {0, 1} /\ c # cc
  BY Sides DEF IInv
<1>4. u \in Vertex /\ cur(u) = PairOf(cur(v)) + cc
  BY <1>2, <1>3, SideLabel
<1>5. where[p][u] = cur(u)
  <2>1. CASE Owner[u] = p
    BY <2>1 DEF cur
  <2>2. CASE Owner[u] # p
    <3>1. u \in Ghosts(p) /\ Owner[u] \in Nbrs(p) /\ Owner[u] \in PE
      BY <1>1, <1>2, <1>4, <2>2, EdgeKnown, OwnerIn
    <3>2. ~LabelsOut(Owner[u]) /\ pc[Owner[u]] \in {"move", "pull"}
      <4>1. pc[Owner[u]] \in {"move", "pull", "labels", "sum"}
        BY <3>1, AllInSide DEF IInv, SidePhases
      <4> QED BY <3>1, <4>1 DEF IInv, NotAhead, LabelsOut
    <3>3. u \notin changed[Owner[u]]
      BY <1>2, <1>3, <3>1, <3>2 DEF IInv, Changed
    <3> QED BY <3>1, <3>2, <3>3 DEF IInv, Copies
  <2> QED BY <2>1, <2>2
<1> QED BY <1>1, <1>2, <1>4, <1>5

\* And of the separator vertices of its neighbours.
LEMMA SeparatorSeen ==
  ASSUME IInv, NEW a \in PE, pc[a] = "move", NEW p \in PE, NEW x \in Seps(p),
         NEW v \in Own(a), v \in Adj[x]
  PROVE  /\ x \in Adj[v] /\ where[a][x] = cur(x) /\ where[a][x] >= nparts
         /\ p # a => a \in Nbrs(p) /\ p \in Nbrs(a) /\ x \notin Own(a)
<1>1. x \in Vertex /\ Owner[x] = p /\ cur(x) >= nparts /\ v \in Vertex /\ Owner[v] = a
  BY OwnIs DEF Seps, cur, InSeparator
<1>2. x \in Adj[v]
  BY <1>1, EdgesBothWays
<1>3. CASE p = a
  BY <1>1, <1>2, <1>3 DEF cur
<1>4. CASE p # a
  <2>1. x \in Ghosts(a) /\ p \in Nbrs(a) /\ a \in Nbrs(p) /\ x \notin Own(a)
    BY <1>1, <1>2, <1>4, EdgeKnown, OwnIs
  <2>2. ~LabelsOut(p) /\ pc[p] \in {"move", "pull"}
    <3>1. pc[p] \in {"move", "pull", "labels", "sum"}
      BY AllInSide DEF IInv, SidePhases
    <3> QED BY <2>1, <3>1 DEF IInv, NotAhead, LabelsOut
  <2>3. x \notin changed[p]
    <3>1. cur(x) \in Int /\ nparts \in Int
      BY <1>1, Parity, PartsAssumption DEF IInv, Paired
    <3> QED BY <1>1, <2>2, <3>1 DEF IInv, Changed
  <2> QED BY <1>1, <1>2, <2>1, <2>2, <2>3 DEF IInv, Copies
<1> QED BY <1>3, <1>4

\* A vertex that fits leaves the separator.
Leaves(a, v) ==
  /\ pc[a] = "move" /\ v \in queue[a] /\ Fits(a, v)
  /\ where' = [where EXCEPT ![a][v] = To(a, v)]
  /\ lpwgts' = [lpwgts EXCEPT ![a][where[a][v]] = @ - VWgt[v], ![a][Total] = @ - VWgt[v],
                              ![a][To(a, v)] = @ + VWgt[v]]
  /\ edegrees' = Relieved(a, v)
  /\ update' = [update EXCEPT ![a] = @ \union (Near(a, v) \intersect Own(a))]
  /\ supdate' = [supdate EXCEPT ![a] = @ \union (Near(a, v) \ Own(a))]
  /\ changed' = [changed EXCEPT ![a] = @ \union {v}]
  /\ queue' = [queue EXCEPT ![a] = @ \ {v}]
  /\ UNCHANGED <<pc, c, sepind, mincut, chan>>

\* What the move changes, and what it does not.
LEMMA LeaveFacts ==
  ASSUME DInv, NEW a \in PE, NEW v, Leaves(a, v)
  PROVE  /\ v \in Seps(a) /\ v \in Own(a) /\ v \in Vertex /\ Owner[v] = a
         /\ cc' = cc /\ c' = c /\ \A p \in PE : pc'[p] = pc[p]
         /\ To(a, v) \in Label /\ To(a, v) < nparts /\ To(a, v) % 2 = c
         /\ where'[a][v] = To(a, v)
         /\ \A x \in Own(a) \union Ghosts(a) : x # v => where'[a][x] = where[a][x]
         /\ \A p \in PE : p # a => where'[p] = where[p]
         /\ cur(v)' = To(a, v) /\ \A x \in Vertex : x # v => cur(x)' = cur(x)
         /\ \A p \in PE : p # a => Seps(p)' = Seps(p)
         /\ Seps(a)' = Seps(a) \ {v}
<1>1. v \in Seps(a)
  BY DEF Leaves, DInv, IInv, Lists
<1>2. /\ v \in Vertex /\ v \in Own(a) /\ Owner[v] = a /\ PairOf(cur(v)) \in Pairs
      /\ To(a, v) = PairOf(cur(v)) + c
  BY <1>1, OtherPart DEF DInv
<1>3. To(a, v) \in Label /\ To(a, v) < nparts /\ To(a, v) % 2 = c /\ To(a, v) \in Int
  BY <1>2, PartLabel, Parity DEF DInv, IInv, Typed
<1>4. cc' = cc /\ c' = c /\ \A p \in PE : pc'[p] = pc[p]
  BY DEF Leaves, cc
<1>5. /\ where'[a] = [where[a] EXCEPT ![v] = To(a, v)]
      /\ \A p \in PE : p # a => where'[p] = where[p]
  <2>1. where = [p \in PE |-> where[p]]
    BY DEF DInv, IInv, Typed
  <2>2. where' = [where EXCEPT ![a] = [where[a] EXCEPT ![v] = To(a, v)]]
    BY DEF Leaves
  <2> QED BY <2>1, <2>2
<1>6. /\ where'[a][v] = To(a, v)
      /\ \A x \in Own(a) \union Ghosts(a) : x # v => where'[a][x] = where[a][x]
  <2>1. where[a] \in [Own(a) \union Ghosts(a) -> Int]
    BY DEF DInv, IInv, Typed
  <2> QED BY <1>2, <1>5, <2>1
<1>7. cur(v)' = To(a, v) /\ \A x \in Vertex : x # v => cur(x)' = cur(x)
  <2>1. cur(v)' = To(a, v)
    BY <1>2, <1>6 DEF cur
  <2>2. ASSUME NEW x \in Vertex, x # v PROVE cur(x)' = cur(x)
    BY <1>5, <1>6, <2>2, OwnerIn DEF cur
  <2> QED BY <2>1, <2>2
<1>8. \A p \in PE : p # a => Seps(p)' = Seps(p)
  BY <1>5 DEF Seps
<1>9. Seps(a)' = Seps(a) \ {v}
  <2>1. ~InSeparator(To(a, v))
    BY <1>3, PartsAssumption DEF InSeparator
  <2>2. Seps(a)' = {x \in Own(a) : InSeparator(where'[a][x])}
    BY DEF Seps, InSeparator
  <2>3. \A x \in Own(a) : InSeparator(where'[a][x]) <=> InSeparator(where[a][x]) /\ x # v
    BY <1>6, <2>1
  <2> QED BY <2>2, <2>3 DEF Seps
<1> QED BY <1>1, <1>2, <1>3, <1>4, <1>5, <1>6, <1>7, <1>8, <1>9

\* The marks only grow, and nobody leaves or joins the side the separator moves towards.
LEMMA LeaveMarks ==
  ASSUME DInv, NEW a \in PE, NEW v, Leaves(a, v)
  PROVE  /\ \A p \in PE :
              /\ update'[p] = IF p = a THEN update[p] \union (Near(a, v) \intersect Own(a)) ELSE update[p]
              /\ supdate'[p] = IF p = a THEN supdate[p] \union (Near(a, v) \ Own(a)) ELSE supdate[p]
         /\ \A q \in PE : \A u \in Vertex : Marked(q, u) => Marked(q, u)'
         /\ \A q \in PE : \A u \in Vertex : q # a /\ Marked(q, u)' => Marked(q, u)
         /\ \A u \in Vertex : Marked(a, u)' => Marked(a, u) \/ u \in Near(a, v)
         /\ \A x \in Vertex : OnSide(x, cc)' = OnSide(x, cc)
<1>1. \A p \in PE :
        /\ update'[p] = IF p = a THEN update[p] \union (Near(a, v) \intersect Own(a)) ELSE update[p]
        /\ supdate'[p] = IF p = a THEN supdate[p] \union (Near(a, v) \ Own(a)) ELSE supdate[p]
  BY DEF Leaves, DInv, IInv, Typed
<1>2. pc' = pc /\ chan' = chan
  BY DEF Leaves
<1>3. \A q \in PE : UpdatesOut(q)' = UpdatesOut(q) /\ UpdatesDue(q)' = UpdatesDue(q)
  BY <1>2 DEF UpdatesOut, UpdatesDue
<1>4. \A u \in Vertex : Owner[u] \in PE
  BY OwnerIn
<1>5. \A q \in PE : \A u \in Vertex : Marked(q, u) => Marked(q, u)'
  BY <1>1, <1>2, <1>3, <1>4 DEF Marked
<1>6. \A q \in PE : \A u \in Vertex : q # a /\ Marked(q, u)' => Marked(q, u)
  BY <1>1, <1>2, <1>3, <1>4 DEF Marked
<1>7. \A u \in Vertex : Marked(a, u)' => Marked(a, u) \/ u \in Near(a, v)
  BY <1>1, <1>2, <1>3, <1>4 DEF Marked
<1>8. ASSUME NEW x \in Vertex PROVE OnSide(x, cc)' = OnSide(x, cc)
  <2>1. \A u \in Adj[x] : u \in Vertex
    BY EdgesBothWays
  <2>2. cc' = cc /\ cc # c /\ To(a, v) % 2 = c
    BY LeaveFacts, Sides DEF DInv, IInv
  <2>3. cur(v) >= nparts /\ cur(v) \in Int /\ nparts \in Int
    <3>1. cur(v) \in Label
      BY LeaveFacts DEF DInv, IInv, Paired
    <3> QED BY <3>1, LeaveFacts, Parity, PartsAssumption DEF Seps, InSeparator, cur
  <2>4. \A u \in Adj[x] : (cur(u)' < nparts /\ cur(u)' % 2 = cc) <=> (cur(u) < nparts /\ cur(u) % 2 = cc)
    BY <2>1, <2>2, <2>3, LeaveFacts
  <2> QED BY <2>2, <2>4 DEF OnSide
<1> QED BY <1>1, <1>5, <1>6, <1>7, <1>8

\* The weights of the labels.
LEMMA LeaveWeights ==
  ASSUME DInv, NEW a \in PE, NEW v, Leaves(a, v)
  PROVE  /\ lpwgts'[a] = WeightsOf(Own(a), where'[a])
         /\ \A p \in PE : p # a => lpwgts'[p] = lpwgts[p]
         /\ lpwgts' \in [PE -> [Label -> Int]]
<1> DEFINE from == where[a][v]
           to   == To(a, v)
           of(b)  == {x \in Own(a) : where[a][x] = b \/ (b = Total /\ InSeparator(where[a][x]))}
           now(b) == {x \in Own(a) : where'[a][x] = b \/ (b = Total /\ InSeparator(where'[a][x]))}
<1>1. /\ v \in Own(a) /\ v \in Vertex /\ InSeparator(from) /\ to \in Label /\ to < nparts
      /\ where'[a][v] = to /\ \A x \in Own(a) : x # v => where'[a][x] = where[a][x]
  BY LeaveFacts DEF Seps
<1>2. from \in Label /\ from # Total /\ to # Total /\ from # to /\ Total \in Label
  <2>1. v \in Seps(a)
    BY LeaveFacts
  <2>2. from = nparts + PairOf(cur(v)) /\ PairOf(cur(v)) \in Pairs /\ to \in Label /\ to < nparts
    BY <1>1, <2>1, OtherPart DEF DInv
  <2> HIDE DEF from, to
  <2> QED BY <2>2, PartsAssumption DEF Pairs, Label, Total
<1>3. lpwgts[a] = WeightsOf(Own(a), where[a]) /\ lpwgts \in [PE -> [Label -> Int]]
  BY DEF Leaves, DInv, Weighed, Numbers
<1>4. VWgt[v] \in Int
  BY <1>1, WeightAssumption
<1> HIDE DEF from, to
<1> DEFINE one == [lpwgts EXCEPT ![a][from] = @ - VWgt[v]]
           two == [one EXCEPT ![a][Total] = lpwgts[a][Total] - VWgt[v]]
<1>5. lpwgts' = [two EXCEPT ![a][to] = lpwgts[a][to] + VWgt[v]]
  BY DEF Leaves, from, to
<1>6. /\ lpwgts'[a] \in [Label -> Int]
      /\ \A b \in Label : lpwgts'[a][b] = IF b = from \/ b = Total THEN lpwgts[a][b] - VWgt[v]
                                          ELSE IF b = to THEN lpwgts[a][b] + VWgt[v] ELSE lpwgts[a][b]
      /\ \A p \in PE : p # a => lpwgts'[p] = lpwgts[p]
      /\ lpwgts' \in [PE -> [Label -> Int]]
  <2>1. /\ one \in [PE -> [Label -> Int]] /\ \A p \in PE : p # a => one[p] = lpwgts[p]
        /\ \A b \in Label : one[a][b] = IF b = from THEN lpwgts[a][b] - VWgt[v] ELSE lpwgts[a][b]
    BY <1>2, <1>3, <1>4
  <2> HIDE DEF one
  <2>2. /\ two \in [PE -> [Label -> Int]] /\ \A p \in PE : p # a => two[p] = lpwgts[p]
        /\ \A b \in Label : two[a][b] = IF b = Total THEN lpwgts[a][b] - VWgt[v] ELSE one[a][b]
    BY <1>2, <1>3, <1>4, <2>1
  <2> HIDE DEF two
  <2>3. /\ lpwgts' \in [PE -> [Label -> Int]] /\ \A p \in PE : p # a => lpwgts'[p] = lpwgts[p]
        /\ \A b \in Label : lpwgts'[a][b] = IF b = to THEN lpwgts[a][b] + VWgt[v] ELSE two[a][b]
    BY <1>1, <1>3, <1>4, <1>5, <2>2
  <2> QED BY <1>2, <2>1, <2>2, <2>3
<1>7. \A b \in Label : of(b) \in SUBSET Vertex /\ lpwgts[a][b] = Weight(of(b))
  BY <1>3, OwnIs DEF WeightsOf
<1>8. Weight({v}) = VWgt[v]
  BY <1>1, WeightOfVertex
<1>9. ~InSeparator(to)
  BY <1>1, PartsAssumption DEF InSeparator, Label
<1>10. ASSUME NEW b \in Label
       PROVE  Weight(now(b)) = IF b = from \/ b = Total THEN Weight(of(b)) - VWgt[v]
                               ELSE IF b = to THEN Weight(of(b)) + VWgt[v] ELSE Weight(of(b))
  <2>1. CASE b = from \/ b = Total
    <3>1. now(b) = of(b) \ {v} /\ {v} \in SUBSET of(b)
      BY <1>1, <1>2, <1>9, <2>1 DEF from
    <3> HIDE DEF now, of
    <3> QED BY <1>7, <1>8, <2>1, <3>1, WeightWithout
  <2>2. CASE b = to
    <3>1. now(b) = of(b) \union {v} /\ {v} \in SUBSET Vertex /\ of(b) \intersect {v} = {}
      BY <1>1, <1>2, <2>2 DEF from
    <3> HIDE DEF now, of
    <3> QED BY <1>2, <1>7, <1>8, <2>2, <3>1, WeightOfTwo
  <2>3. CASE b # to /\ b # from /\ b # Total
    <3>1. now(b) = of(b)
      BY <1>1, <1>2, <2>3 DEF from
    <3> HIDE DEF now, of
    <3> QED BY <2>3, <3>1
  <2> QED BY <2>1, <2>2, <2>3
<1>11. WeightsOf(Own(a), where'[a]) = [b \in Label |-> Weight(now(b))]
  BY DEF WeightsOf
<1> HIDE DEF now, of
<1> QED BY <1>6, <1>7, <1>10, <1>11

\* The degrees the move changes: queued vertices no longer count what it pulls in.
LEMMA LeaveRelieves ==
  ASSUME DInv, NEW a \in PE, NEW v, Leaves(a, v)
  PROVE  /\ Numbers'
         /\ \A x \in Vertex : edegrees'[x][c] = edegrees[x][c]
         /\ \A x \in Vertex : x \notin queue[a] \ {v} => edegrees'[x] = edegrees[x]
         /\ \A x \in Vertex : x \in queue[a] \ {v} =>
              edegrees'[x][cc] = edegrees[x][cc] - Weight(Pulled(a, v) \intersect Adj[x])
         /\ queue[a] \subseteq Seps(a)
<1>1. edegrees' = [x \in Vertex |-> IF x \in queue[a] \ {v}
        THEN [edegrees[x] EXCEPT ![cc] = @ - Weight(Pulled(a, v) \intersect Adj[x])] ELSE edegrees[x]]
  BY DEF Leaves, Relieved
<1>2. edegrees \in [Vertex -> [{0, 1} -> Int]] /\ mincut' \in Int
  BY DEF Leaves, DInv, Numbers
<1>3. cc \in {0, 1} /\ c # cc
  BY Sides DEF DInv, IInv
<1>4. ASSUME NEW x \in Vertex PROVE Weight(Pulled(a, v) \intersect Adj[x]) \in Int
  <2>1. Pulled(a, v) \intersect Adj[x] \in SUBSET Vertex
    BY EdgesBothWays
  <2> QED BY <2>1, VertexSets
<1>5. ASSUME NEW x \in Vertex
      PROVE  /\ edegrees'[x] \in [{0, 1} -> Int] /\ edegrees'[x][c] = edegrees[x][c]
             /\ x \notin queue[a] \ {v} => edegrees'[x] = edegrees[x]
             /\ x \in queue[a] \ {v} =>
                  edegrees'[x][cc] = edegrees[x][cc] - Weight(Pulled(a, v) \intersect Adj[x])
  BY <1>1, <1>2, <1>3, <1>4
<1>6. edegrees' = [x \in Vertex |-> edegrees'[x]]
  BY <1>1
<1>7. edegrees' \in [Vertex -> [{0, 1} -> Int]]
  BY <1>5, <1>6
<1>8. lpwgts' \in [PE -> [Label -> Int]]
  BY LeaveWeights
<1>9. queue[a] \subseteq Seps(a)
  BY DEF Leaves, DInv, IInv, Lists
<1> QED BY <1>2, <1>5, <1>7, <1>8, <1>9 DEF Numbers

LEMMA LeavePromised ==
  ASSUME DInv, NEW a \in PE, NEW v, Leaves(a, v)
  PROVE  Promised'
<1> SUFFICES ASSUME NEW p \in PE, pc[p] = "move", NEW x \in Seps(p)'
             PROVE  edegrees'[x][cc] >= Weight({u \in Adj[x] \ (update'[p] \union supdate'[p]) :
                                                  where'[p][u] = Other(p, x)'})
  BY LeaveFacts DEF Promised
<1> DEFINE old == {u \in Adj[x] \ (update[p] \union supdate[p]) : where[p][u] = Other(p, x)}
           now == {u \in Adj[x] \ (update'[p] \union supdate'[p]) : where'[p][u] = Other(p, x)'}
           gone == Pulled(a, v) \intersect Adj[x]
<1>1. /\ x \in Seps(p) /\ x \in Vertex /\ x \in Own(p) /\ where'[p][x] = where[p][x]
      /\ p = a => x # v
  <2>1. x \in Seps(p) /\ (p = a => x # v)
    BY LeaveFacts
  <2>2. x \in Vertex /\ x \in Own(p)
    BY <2>1, OwnIs DEF Seps
  <2> QED BY <2>1, <2>2, LeaveFacts
<1>2. Other(p, x)' = Other(p, x)
  BY <1>1, LeaveFacts DEF Other
<1>3. old \in SUBSET Vertex /\ now \in SUBSET Vertex /\ edegrees[x][cc] >= Weight(old)
  BY <1>1, EdgesBothWays DEF DInv, Promised
<1>4. edegrees[x][cc] \in Int /\ Weight(old) \in Nat /\ Weight(now) \in Nat
  BY <1>1, <1>3, VertexSets, Sides DEF DInv, IInv, Numbers
<1>5. CASE p # a
  <2>1. now = old
    <3>1. where'[p] = where[p]
      BY <1>5, LeaveFacts
    <3>2. update'[p] = update[p] /\ supdate'[p] = supdate[p]
      BY <1>5, LeaveMarks
    <3> QED BY <1>2, <3>1, <3>2
  <2>2. x \notin queue[a]
    BY <1>1, <1>5, LeaveRelieves, OwnIs DEF Seps
  <2>3. edegrees'[x] = edegrees[x]
    BY <1>1, <2>2, LeaveRelieves
  <2> HIDE DEF old, now
  <2>4. edegrees'[x][cc] >= Weight(now)
    BY <1>3, <2>1, <2>3
  <2> QED BY <2>4 DEF now
<1>6. CASE p = a
  <2>1. /\ Other(a, x) = PairOf(cur(x)) + cc /\ Other(a, v) = PairOf(cur(v)) + cc
        /\ To(a, v) = PairOf(cur(v)) + c /\ To(a, x) = PairOf(cur(x)) + c
        /\ PairOf(cur(x)) \in Int /\ PairOf(cur(v)) \in Int
        /\ To(a, x) \in Int /\ To(a, x) % 2 = c /\ Other(a, x) \in Int /\ Other(a, x) % 2 = cc
    <3>1. x \in Seps(a) /\ v \in Seps(a)
      BY <1>1, <1>6, LeaveFacts
    <3>2. /\ Other(a, x) = PairOf(cur(x)) + cc /\ Other(a, v) = PairOf(cur(v)) + cc
          /\ To(a, v) = PairOf(cur(v)) + c /\ To(a, x) = PairOf(cur(x)) + c
          /\ PairOf(cur(x)) \in Pairs /\ PairOf(cur(v)) \in Pairs
      BY <3>1, OtherPart DEF DInv
    <3>3. c \in {0, 1} /\ cc \in {0, 1}
      BY Sides DEF DInv, IInv, Typed
    <3> QED BY <3>2, <3>3, PartLabel, Parity DEF Pairs
  <2>2. To(a, v) # Other(a, x) /\ To(a, v) # Other(a, v)
    <3>1. c # cc /\ c \in {0, 1} /\ cc \in {0, 1} /\ To(a, v) % 2 = c
      BY Sides, LeaveFacts DEF DInv, IInv, Typed
    <3> QED BY <2>1, <3>1
  <2>3. Pulled(a, v) \subseteq Near(a, v)
    BY <2>2 DEF Pulled, Near
  <2>4. now \subseteq old \ gone
    <3> SUFFICES ASSUME NEW u \in now PROVE u \in old /\ u \notin gone
      OBVIOUS
    <3>1. /\ u \in Adj[x] /\ u \notin update'[a] /\ u \notin supdate'[a] /\ where'[a][u] = Other(a, x)
      BY <1>2, <1>6
    <3>2. u \in Own(a) \union Ghosts(a)
      <4>1. Owner[x] = a /\ u \in Vertex
        BY <1>1, <1>6, <3>1, OwnIs, EdgesBothWays
      <4> QED BY <1>1, <3>1, <4>1, EdgeKnown, OwnIs
    <3>3. u # v
      BY <2>2, <3>1, LeaveFacts
    <3>4. where[a][u] = Other(a, x)
      BY <3>1, <3>2, <3>3, LeaveFacts
    <3>5. u \notin update[a] /\ u \notin supdate[a] /\ u \notin Near(a, v)
      <4>1. /\ update'[a] = update[a] \union (Near(a, v) \intersect Own(a))
            /\ supdate'[a] = supdate[a] \union (Near(a, v) \ Own(a))
        BY LeaveMarks
      <4> QED BY <3>1, <4>1
    <3> QED BY <1>6, <2>3, <3>1, <3>4, <3>5
  <2>5. CASE x \in queue[a]
    <3>1. gone \subseteq old
      <4> SUFFICES ASSUME NEW u \in gone PROVE u \in old
        OBVIOUS
      <4>1. u \in Adj[v] /\ u \in Adj[x] /\ u \notin update[a] \union supdate[a] /\ where[a][u] = Other(a, v)
        BY DEF Pulled
      <4>2. PairOf(cur(u)) = PairOf(cur(v)) /\ PairOf(cur(u)) = PairOf(cur(x))
        BY <1>1, <4>1, LeaveFacts DEF DInv, IInv, Paired
      <4> QED BY <1>6, <2>1, <4>1, <4>2
    <3>2. edegrees'[x][cc] = edegrees[x][cc] - Weight(gone)
      BY <1>1, <1>6, <2>5, LeaveRelieves
    <3> HIDE DEF old, now, gone
    <3>3. Weight(old \ gone) = Weight(old) - Weight(gone) /\ Weight(gone) \in Nat
      BY <1>3, <3>1, WeightWithout, VertexSets
    <3>4. Weight(now) <= Weight(old \ gone)
      BY <1>3, <2>4, WeightMonotone
    <3>5. edegrees'[x][cc] >= Weight(now)
      BY <1>3, <1>4, <3>2, <3>3, <3>4
    <3> QED BY <1>6, <3>5 DEF now
  <2>6. CASE x \notin queue[a]
    <3>1. edegrees'[x] = edegrees[x]
      BY <1>1, <2>6, LeaveRelieves
    <3> HIDE DEF old, now, gone
    <3>2. Weight(now) <= Weight(old)
      <4>1. now \in SUBSET old
        BY <2>4
      <4> QED BY <1>3, <4>1, WeightMonotone
    <3>3. edegrees'[x][cc] >= Weight(now)
      BY <1>3, <1>4, <3>1, <3>2
    <3> QED BY <1>6, <3>3 DEF now
  <2> QED BY <2>5, <2>6
<1> QED BY <1>5, <1>6

LEMMA LeaveGained ==
  ASSUME DInv, NEW a \in PE, NEW v, Leaves(a, v)
  PROVE  Gained'
<1> SUFFICES ASSUME NEW p \in PE, pc[p] \in {"move", "pull", "labels"}, NEW x \in Seps(p)'
             PROVE  \/ x \in update'[p]
                    \/ \E q \in Nbrs(p) : Marked(q, x)'
                    \/ edegrees'[x][c] >= Weight(OnSide(x, c)')
  BY LeaveFacts DEF Gained
<1>1. x \in Seps(p) /\ x \in Vertex /\ x \in Own(p) /\ Owner[x] = p /\ (p = a => x # v)
  <2>1. x \in Seps(p) /\ (p = a => x # v)
    BY LeaveFacts
  <2> QED BY <2>1, OwnIs DEF Seps
<1>2. \A q \in Nbrs(p) : q \in PE
  BY NbrsIn
<1>3. CASE v \in Adj[x]
  <2>1. /\ x \in Adj[v] /\ where[a][x] >= nparts /\ where[a][x] = cur(x) /\ v \in Own(a)
        /\ p # a => a \in Nbrs(p) /\ x \notin Own(a)
    <3>1. v \in Own(a) /\ pc[a] = "move"
      BY LeaveFacts DEF Leaves
    <3> QED BY <1>1, <1>3, <3>1, SeparatorSeen DEF DInv
  <2>2. x \in Near(a, v)
    <3>1. To(a, v) < nparts /\ To(a, v) \in Int /\ nparts \in Int /\ cur(x) \in Int
      BY <1>1, LeaveFacts, Parity, PartsAssumption DEF DInv, IInv, Paired
    <3>2. where[a][x] # To(a, v)
      BY <2>1, <3>1
    <3> QED BY <2>1, <3>2 DEF Near
  <2>3. CASE p = a
    <3>1. update'[a] = update[a] \union (Near(a, v) \intersect Own(a))
      BY LeaveMarks
    <3> QED BY <1>1, <2>2, <2>3, <3>1
  <2>4. CASE p # a
    <3>1. supdate'[a] = supdate[a] \union (Near(a, v) \ Own(a)) /\ pc'[a] = "move"
      <4>1. pc'[a] = "move"
        BY DEF Leaves
      <4> QED BY <4>1, LeaveMarks
    <3>2. Marked(a, x)'
      BY <1>1, <2>1, <2>2, <2>4, <3>1 DEF Marked
    <3> QED BY <2>1, <2>4, <3>2
  <2> QED BY <2>3, <2>4
<1>4. CASE v \notin Adj[x]
  <2>1. OnSide(x, c)' = OnSide(x, c)
    <3>1. \A u \in Adj[x] : cur(u)' = cur(u)
      BY <1>1, <1>4, EdgesBothWays, LeaveFacts
    <3> QED BY <3>1, LeaveFacts DEF OnSide
  <2>2. edegrees'[x][c] = edegrees[x][c]
    BY <1>1, LeaveRelieves
  <2>3. update[p] \subseteq update'[p]
    BY LeaveMarks
  <2>4. \A q \in Nbrs(p) : Marked(q, x) => Marked(q, x)'
    BY <1>1, <1>2, LeaveMarks
  <2>5. \/ x \in update[p]
        \/ \E q \in Nbrs(p) : Marked(q, x)
        \/ edegrees[x][c] >= Weight(OnSide(x, c))
    BY <1>1 DEF DInv, Gained
  <2> QED BY <2>1, <2>2, <2>3, <2>4, <2>5
<1> QED BY <1>3, <1>4

\* The PEs that move no vertices see no change.
LEMMA LeaveOthers ==
  ASSUME DInv, NEW a \in PE, NEW v, Leaves(a, v)
  PROVE  Remaining' /\ Bounded'
<1>1. ASSUME NEW p \in PE, p # a, NEW x \in Seps(p)'
      PROVE  x \in Seps(p) /\ x \in Vertex /\ edegrees'[x] = edegrees[x]
  <2>1. x \in Seps(p)
    BY <1>1, LeaveFacts
  <2>2. x \in Vertex /\ x \notin queue[a]
    BY <1>1, <2>1, LeaveRelieves, OwnIs DEF Seps
  <2> QED BY <2>1, <2>2, LeaveRelieves
<1>2. Remaining'
  <2> SUFFICES ASSUME NEW p \in PE, pc[p] \in {"pull", "labels"}, NEW x \in Seps(p)'
               PROVE  \/ x \in update'[p]
                      \/ edegrees'[x][cc] >= Weight({u \in OnSide(x, cc)' : ~Marked(p, u)'})
    BY LeaveFacts DEF Remaining
  <2>1. p # a /\ update'[p] = update[p]
    <3>1. p # a
      BY DEF Leaves
    <3> QED BY <3>1, LeaveMarks
  <2>2. x \in Seps(p) /\ x \in Vertex /\ edegrees'[x] = edegrees[x]
    BY <1>1, <2>1
  <2>3. \A u \in Vertex : Marked(p, u)' <=> Marked(p, u)
    BY <2>1, LeaveMarks
  <2>4. OnSide(x, cc)' = OnSide(x, cc) /\ OnSide(x, cc) \in SUBSET Vertex
    BY <2>2, LeaveMarks, Neighbours
  <2>5. {u \in OnSide(x, cc)' : ~Marked(p, u)'} = {u \in OnSide(x, cc) : ~Marked(p, u)}
    BY <2>3, <2>4
  <2> QED BY <2>1, <2>2, <2>5 DEF DInv, Remaining
<1>3. Bounded'
  <2> SUFFICES ASSUME NEW p \in PE, pc[p] \in {"paramsum", "greedy", "sum"}, NEW x \in Seps(p)',
                      NEW y \in {0, 1}
               PROVE  /\ edegrees'[x][y] >= Weight(OnSide(x, y)')
                      /\ pc[p] = "paramsum" => edegrees'[x][y] = Weight(OnSide(x, y)')
    BY LeaveFacts DEF Bounded
  <2>1. p # a /\ pc[p] = "sum" /\ pc[a] = "move"
    BY AllInSide DEF Leaves, DInv, IInv, SidePhases
  <2>2. x \in Seps(p) /\ x \in Vertex /\ edegrees'[x] = edegrees[x]
    BY <1>1, <2>1
  <2>3. v \notin Adj[x]
    <3> SUFFICES ASSUME v \in Adj[x] PROVE FALSE
      OBVIOUS
    <3>1. v \in Own(a)
      BY LeaveFacts
    <3>2. p \in Nbrs(a)
      BY <2>1, <2>2, <3>1, SeparatorSeen DEF DInv
    <3> QED BY <2>1, <3>2 DEF DInv, IInv, NotAhead
  <2>4. \A u \in Adj[x] : cur(u)' = cur(u)
    BY <2>2, <2>3, EdgesBothWays, LeaveFacts
  <2>5. OnSide(x, y)' = OnSide(x, y)
    BY <2>4, SidesStay
  <2> QED BY <2>1, <2>2, <2>5 DEF DInv, Bounded
<1> QED BY <1>2, <1>3

\* The vertex is at least as heavy as what it pulls in.
LEMMA LeaveNotHeavier ==
  ASSUME DInv, NEW a \in PE, NEW v, Leaves(a, v)
  PROVE  NotHeavier'
<1> DEFINE all == InSeparators \union ToClose
           more == {u \in Adj[v] \ (update[a] \union supdate[a]) : where[a][u] = Other(a, v)}
<1>1. /\ v \in Seps(a) /\ v \in Vertex /\ v \in Own(a) /\ pc[a] = "move" /\ c # cc /\ cc' = cc
      /\ cur(v) \in Int /\ nparts \in Int /\ cur(v) >= nparts
  <2>1. v \in Seps(a) /\ v \in Vertex /\ v \in Own(a) /\ pc[a] = "move" /\ c # cc /\ cc' = cc
    BY LeaveFacts, Sides DEF Leaves, DInv, IInv
  <2>2. cur(v) = where[a][v] /\ cur(v) \in Int
    BY <2>1, OwnIs, Parity DEF cur, DInv, IInv, Paired
  <2> QED BY <2>1, <2>2, PartsAssumption DEF Seps, InSeparator
<1>2. \A p \in PE : pc[p] # "done"
  BY <1>1, AllInSide DEF DInv, IInv, SidePhases
<1>3. Weight(more) <= VWgt[v] /\ more \in SUBSET Vertex
  <2>1. more \in SUBSET Vertex
    BY <1>1, EdgesBothWays
  <2>2. edegrees[v][cc] >= Weight(more)
    BY <1>1 DEF DInv, Promised
  <2>3. VWgt[v] - edegrees[v][cc] >= 0
    BY DEF Leaves, Fits, gain
  <2>4. edegrees[v][cc] \in Int /\ VWgt[v] \in Int /\ Weight(more) \in Nat
    BY <1>1, <2>1, VertexSets, Sides DEF DInv, IInv, Numbers
  <2> HIDE DEF more
  <2> QED BY <2>1, <2>2, <2>3, <2>4
<1>4. InSeparators' = InSeparators \ {v} /\ v \in InSeparators
  <2>1. ~InSeparator(To(a, v)) /\ InSeparator(cur(v))
    BY <1>1, LeaveFacts, PartsAssumption DEF InSeparator, Label
  <2>2. InSeparators' = {x \in Vertex : InSeparator(cur(x)')}
    BY DEF InSeparators, InSeparator
  <2>3. \A x \in Vertex : InSeparator(cur(x)') <=> InSeparator(cur(x)) /\ x # v
    BY <2>1, LeaveFacts
  <2> QED BY <1>1, <2>1, <2>2, <2>3 DEF InSeparators
<1>5. ASSUME NEW u \in ToClose' PROVE u # v /\ (u \in ToClose \/ u \in more)
  <2>1. PICK q \in PE : Marked(q, u)'
    BY DEF ToClose
  <2>2. u \in Vertex /\ cur(u)' < nparts /\ cur(u)' % 2 = cc
    BY <1>1 DEF ToClose
  <2>3. u # v
    BY <1>1, <2>2, LeaveFacts
  <2>4. cur(u) < nparts /\ cur(u) % 2 = cc
    BY <2>2, <2>3, LeaveFacts
  <2>5. CASE Marked(q, u)
    BY <2>2, <2>3, <2>4, <2>5 DEF ToClose
  <2>6. CASE ~Marked(q, u)
    <3>1. q = a /\ u \in Near(a, v)
      BY <2>1, <2>2, <2>6, LeaveMarks
    <3>2. u \in OnSide(v, cc)
      BY <2>4, <3>1 DEF OnSide, Near
    <3>3. where[a][u] = Other(a, v) /\ u \in Adj[v]
      BY <1>1, <3>2, OtherSideSeen DEF DInv
    <3>4. u \notin update[a]
      BY <1>1, <2>6, <3>1, OwnIs DEF Marked, DInv, IInv, Typed
    <3>5. u \notin supdate[a]
      <4>1. u \in supdate[a] => u \notin Own(a)
        BY DEF DInv, Fresh
      <4> QED BY <1>1, <2>2, <2>6, <3>1, <4>1, OwnIs DEF Marked
    <3> QED BY <2>3, <3>3, <3>4, <3>5
  <2> QED BY <2>5, <2>6
<1>6. /\ InSeparators' \union ToClose' \in SUBSET ((all \ {v}) \union more)
      /\ all \in SUBSET Vertex /\ {v} \in SUBSET all
  BY <1>1, <1>4, <1>5 DEF InSeparators, ToClose
<1> DEFINE next == InSeparators' \union ToClose'
<1>7. Weight(all) <= mincut
  BY <1>2 DEF DInv, NotHeavier
<1>8. mincut' = mincut /\ mincut \in Int
  BY DEF Leaves, DInv, Numbers
<1> HIDE DEF all, more
<1>9. Weight(next) <= mincut
  <2> HIDE DEF next
  <2>1. (all \ {v}) \union more \in SUBSET Vertex /\ all \ {v} \in SUBSET Vertex
    BY <1>3, <1>6
  <2>2. Weight(next) <= Weight((all \ {v}) \union more)
    BY <1>6, <2>1, WeightMonotone DEF next
  <2>3. Weight((all \ {v}) \union more) <= Weight(all \ {v}) + Weight(more)
    BY <1>3, <2>1, WeightOfUnion
  <2>4. Weight(all \ {v}) = Weight(all) - VWgt[v]
    BY <1>1, <1>6, WeightWithout, WeightOfVertex
  <2>5. next \in SUBSET Vertex
    BY <1>6, <2>1 DEF next
  <2>6. /\ Weight(next) \in Nat /\ Weight((all \ {v}) \union more) \in Nat
        /\ Weight(all) \in Nat /\ Weight(more) \in Nat /\ VWgt[v] \in Nat
        /\ Weight(all \ {v}) \in Nat
    BY <1>1, <1>3, <1>6, <2>1, <2>5, VertexSets
  <2> QED BY <1>3, <1>7, <1>8, <2>2, <2>3, <2>4, <2>6
<1> QED BY <1>8, <1>9 DEF NotHeavier

LEMMA LeaveDegrees ==
  ASSUME DInv, IInv', NEW a \in PE, NEW v, Leaves(a, v)
  PROVE  DInv'
<1>1. Weighed'
  <2>1. \A p \in PE : pc'[p] = pc[p] /\ (p # a => where'[p] = where[p])
    BY LeaveFacts
  <2>2. \A p \in PE : p # a => lpwgts'[p] = lpwgts[p]
    BY LeaveWeights
  <2>3. lpwgts'[a] = WeightsOf(Own(a), where'[a])
    BY LeaveWeights
  <2> SUFFICES ASSUME NEW p \in PE,
                      pc[p] \in {"paramsum", "greedy", "move", "pull", "labels", "sum"}
               PROVE  lpwgts'[p] = WeightsOf(Own(p), where'[p])
    BY <2>1 DEF Weighed, WeightsOf, InSeparator
  <2>4. lpwgts[p] = WeightsOf(Own(p), where[p])
    BY DEF DInv, Weighed
  <2> QED BY <2>1, <2>2, <2>3, <2>4
<1>2. Fresh'
  <2>1. \A p \in PE :
          /\ update'[p] = IF p = a THEN update[p] \union (Near(a, v) \intersect Own(a)) ELSE update[p]
          /\ supdate'[p] = IF p = a THEN supdate[p] \union (Near(a, v) \ Own(a)) ELSE supdate[p]
    BY LeaveMarks
  <2>2. pc' = pc /\ pc[a] = "move"
    BY DEF Leaves
  <2> QED BY <2>1, <2>2 DEF DInv, Fresh
<1> QED BY <1>1, <1>2, LeaveRelieves, LeavePromised, LeaveGained, LeaveOthers, LeaveNotHeavier DEF DInv

LEMMA MoveVertexDegrees == ASSUME DInv, NEW a \in PE, MoveVertex(a) PROVE DInv'
<1>1. IInv'
  BY MoveVertexKeeps DEF DInv
<1>2. PICK v \in Top(a) :
        \/ UNCHANGED <<where, edegrees, lpwgts, gpwgts, update, supdate, changed>>
        \/ Leaves(a, v)
  BY DEF MoveVertex, greedy, Leaves, Top
<1>3. CASE UNCHANGED <<where, edegrees, lpwgts, gpwgts, update, supdate, changed>>
  BY <1>1, <1>3, SameDegrees DEF MoveVertex, greedy
<1>4. CASE Leaves(a, v)
  BY <1>1, <1>4, LeaveDegrees
<1> QED BY <1>2, <1>3, <1>4

-----------------------------------------------------------------------------
(* The exchanges of a side.                                                *)

\* What SendUpdates does to the marks: those of neighbours' vertices become messages.
LEMMA SentMarks ==
  ASSUME DInv, NEW a \in PE, SendUpdates(a)
  PROVE  /\ pc[a] = "move" /\ pc'[a] = "pull" /\ \A p \in PE : p # a => pc'[p] = pc[p]
         /\ supdate'[a] = {} /\ \A p \in PE : p # a => supdate'[p] = supdate[p]
         /\ UNCHANGED <<c, where, update, edegrees, lpwgts, mincut>>
         /\ \A q \in PE, u \in Vertex : q # a => (Marked(q, u)' <=> Marked(q, u))
         /\ \A u \in Vertex : Marked(a, u)' => Marked(a, u)
         /\ \A u \in Vertex : Marked(a, u)' <=> \/ u \in update[a]
                                                \/ u \in supdate[a] /\ Owner[u] \in Nbrs(a)
<1> DEFINE msgs == [q \in Nbrs(a) |-> supdate[a] \intersect Own(q)]
<1>1. /\ pc[a] = "move" /\ pc' = [pc EXCEPT ![a] = "pull"]
      /\ chan' = Post(chan, a, msgs) /\ supdate' = [supdate EXCEPT ![a] = {}]
      /\ UNCHANGED <<c, where, update, edegrees, lpwgts, mincut>>
  BY DEF SendUpdates, greedy
<1>2. pc'[a] = "pull" /\ \A p \in PE : p # a => pc'[p] = pc[p]
  BY <1>1 DEF DInv, IInv, Together
<1>3. \A q, r \in PE : chan'[q][r] =
           IF q = a /\ r \in DOMAIN msgs THEN Append(chan[q][r], msgs[r]) ELSE chan[q][r]
  <2>1. chan = [q \in PE |-> [p \in PE |-> chan[q][p]]]
    BY DEF DInv, IInv, Typed
  <2> HIDE DEF msgs
  <2> QED BY <1>1, <2>1, Posted
<1>4. supdate'[a] = {} /\ \A p \in PE : p # a => supdate'[p] = supdate[p]
  BY <1>1 DEF DInv, IInv, Typed
<1>5. \A u \in Vertex : Owner[u] \in PE
  BY OwnerIn
<1>6. \A p \in PE : UpdatesDue(p)' <=> UpdatesDue(p)
  BY <1>1, <1>2 DEF UpdatesDue
<1>7. \A q \in PE, u \in Vertex : q # a => (Marked(q, u)' <=> Marked(q, u))
  <2> SUFFICES ASSUME NEW q \in PE, NEW u \in Vertex, q # a PROVE Marked(q, u)' <=> Marked(q, u)
    OBVIOUS
  <2>1. /\ pc'[q] = pc[q] /\ update'[q] = update[q] /\ supdate'[q] = supdate[q]
        /\ chan'[q][Owner[u]] = chan[q][Owner[u]]
        /\ UpdatesOut(q)' <=> UpdatesOut(q)
        /\ UpdatesDue(Owner[u])' <=> UpdatesDue(Owner[u])
    BY <1>1, <1>2, <1>3, <1>4, <1>5, <1>6 DEF UpdatesOut
  <2> QED BY <2>1 DEF Marked
<1>8. ASSUME NEW u \in Vertex
      PROVE  Marked(a, u)' <=> \/ u \in update[a]
                               \/ u \in supdate[a] /\ Owner[u] \in Nbrs(a)
  <2>1. u \in update[a] => Owner[u] = a
    BY OwnIs DEF DInv, IInv, Typed
  <2>2. u \in supdate[a] => Owner[u] # a
    BY OwnIs DEF DInv, Fresh
  <2>3. CASE Owner[u] = a
    BY <1>1, <1>2, <2>2, <2>3 DEF Marked
  <2>4. CASE Owner[u] # a /\ Owner[u] \notin Nbrs(a)
    BY <1>2, <2>1, <2>4 DEF Marked
  <2>5. CASE Owner[u] # a /\ Owner[u] \in Nbrs(a)
    <3>1. pc[Owner[u]] \in {"move", "pull"} /\ Box(a, Owner[u])
      <4>1. ~LabelsOut(Owner[u])
        BY <1>1, <2>5 DEF DInv, IInv, NotAhead
      <4>2. pc[Owner[u]] \in {"move", "pull", "labels", "sum"}
        BY <1>1, <1>5, AllInSide DEF DInv, IInv, SidePhases
      <4>3. a \in Nbrs(Owner[u])
        BY <1>5, <2>5, NbrsBothWays
      <4> QED BY <1>5, <4>1, <4>2, <4>3 DEF LabelsOut, DInv, IInv, Boxes
    <3>2. chan[a][Owner[u]] = <<>>
      BY <1>1, <3>1 DEF Box, LabelsOut, UpdatesOut, WhereOut
    <3>3. PICK m : m = supdate[a] \intersect Own(Owner[u])
      OBVIOUS
    <3>4. chan'[a][Owner[u]] = <<m>>
      <4>1. Owner[u] \in DOMAIN msgs /\ msgs[Owner[u]] = m
        BY <2>5, <3>3
      <4> HIDE DEF msgs
      <4>2. chan'[a][Owner[u]] = Append(<<>>, m)
        BY <1>3, <1>5, <3>2, <4>1
      <4> QED BY <4>2, Queues
    <3>5. Head(chan'[a][Owner[u]]) = m
      BY <3>4, Queues
    <3>6. UpdatesOut(a)' /\ UpdatesDue(Owner[u])'
      BY <1>2, <1>5, <1>6, <3>1 DEF UpdatesOut, UpdatesDue
    <3>7. u \in m <=> u \in supdate[a]
      BY <1>5, <3>3, OwnIs
    <3> QED BY <1>2, <2>1, <2>5, <3>5, <3>6, <3>7 DEF Marked
  <2> QED BY <2>3, <2>4, <2>5
<1>9. ASSUME NEW u \in Vertex, Marked(a, u)' PROVE Marked(a, u)
  <2>1. u \in update[a] => Owner[u] = a
    BY OwnIs DEF DInv, IInv, Typed
  <2>2. u \in supdate[a] => Owner[u] # a
    BY OwnIs DEF DInv, Fresh
  <2> QED BY <1>1, <1>8, <1>9, <2>1, <2>2 DEF Marked
<1> QED BY <1>1, <1>2, <1>4, <1>7, <1>8, <1>9

LEMMA SendUpdatesDegrees == ASSUME DInv, NEW a \in PE, SendUpdates(a) PROVE DInv'
<1>1. IInv'
  BY SendUpdatesKeeps DEF DInv
<1>2. /\ pc[a] = "move" /\ pc'[a] = "pull" /\ \A p \in PE : p # a => pc'[p] = pc[p]
      /\ supdate'[a] = {} /\ \A p \in PE : p # a => supdate'[p] = supdate[p]
      /\ UNCHANGED <<c, where, update, edegrees, lpwgts, mincut>>
  BY SentMarks
<1>3. /\ \A v, x : OnSide(v, x)' = OnSide(v, x)
      /\ \A v : OnSide(v, cc)' = OnSide(v, cc) /\ OnSide(v, c)' = OnSide(v, c)
      /\ cc' = cc
      /\ \A p : Seps(p)' = Seps(p)
      /\ \A p, v : Other(p, v)' = Other(p, v)
      /\ InSeparators' = InSeparators
  BY <1>2 DEF OnSide, cc, cur, Seps, InSeparator, Other, InSeparators
<1>4. Numbers' /\ Fresh'
  BY <1>2 DEF DInv, Numbers, Fresh
<1>5. Weighed'
  <2> SUFFICES ASSUME NEW p \in PE,
                      pc'[p] \in {"paramsum", "greedy", "move", "pull", "labels", "sum"}
               PROVE  lpwgts[p] = WeightsOf(Own(p), where[p])
    BY <1>2 DEF Weighed, WeightsOf, InSeparator
  <2> QED BY <1>2 DEF DInv, Weighed
<1>6. Promised'
  BY <1>2, <1>3 DEF DInv, Promised
<1>7. Remaining'
  <2> SUFFICES ASSUME NEW p \in PE, pc'[p] \in {"pull", "labels"}, NEW v \in Seps(p)
               PROVE  \/ v \in update[p]
                      \/ edegrees[v][cc] >= Weight({u \in OnSide(v, cc) : ~Marked(p, u)'})
    BY <1>2, <1>3 DEF Remaining
  <2>1. v \in Vertex /\ Owner[v] = p /\ OnSide(v, cc) \in SUBSET Vertex
    BY OwnIs, Neighbours DEF Seps
  <2>2. CASE p # a
    <3>1. {u \in OnSide(v, cc) : ~Marked(p, u)'} = {u \in OnSide(v, cc) : ~Marked(p, u)}
      BY <2>1, <2>2, SentMarks
    <3> QED BY <1>2, <2>2, <3>1 DEF DInv, Remaining
  <2>3. CASE p = a
    <3> DEFINE old == {u \in Adj[v] \ (update[a] \union supdate[a]) : where[a][u] = Other(a, v)}
               now == {u \in OnSide(v, cc) : ~Marked(a, u)'}
    <3>1. edegrees[v][cc] >= Weight(old)
      BY <1>2, <2>3 DEF DInv, Promised
    <3>2. ASSUME NEW u \in now PROVE u \in old
      <4>1. where[a][u] = Other(a, v) /\ u \in Adj[v] /\ u \in Vertex
        BY <1>2, <2>3, OtherSideSeen DEF DInv
      <4>2. u \notin update[a] /\ (u \in supdate[a] => Owner[u] \notin Nbrs(a))
        BY <4>1, SentMarks
      <4>3. u \in supdate[a] => Owner[u] # a
        BY OwnIs, <4>1 DEF DInv, Fresh
      <4>4. Owner[u] # a => Owner[u] \in Nbrs(a)
        BY <2>1, <2>3, <4>1, EdgeKnown
      <4> QED BY <4>1, <4>2, <4>3, <4>4
    <3>3. old \in SUBSET Vertex /\ now \in SUBSET old
      BY <2>1, <3>2, EdgesBothWays
    <3>4. edegrees[v][cc] \in Int
      BY <2>1, Sides DEF DInv, IInv, Numbers
    <3> HIDE DEF old, now
    <3>5. Weight(now) <= Weight(old) /\ Weight(now) \in Nat /\ Weight(old) \in Nat
      <4>1. now \in SUBSET Vertex
        BY <3>3
      <4> QED BY <3>3, <4>1, WeightMonotone, VertexSets
    <3>6. edegrees[v][cc] >= Weight(now)
      BY <3>1, <3>4, <3>5
    <3> QED BY <2>3, <3>6 DEF now
  <2> QED BY <2>2, <2>3
<1>8. Gained'
  <2> SUFFICES ASSUME NEW p \in PE, pc'[p] \in {"move", "pull", "labels"}, NEW v \in Seps(p)
               PROVE  \/ v \in update[p]
                      \/ \E q \in Nbrs(p) : Marked(q, v)'
                      \/ edegrees[v][c] >= Weight(OnSide(v, c))
    BY <1>2, <1>3 DEF Gained
  <2>1. v \in Vertex /\ Owner[v] = p /\ pc[p] \in {"move", "pull", "labels"}
    BY <1>2, OwnIs DEF Seps
  <2>2. ASSUME NEW q \in Nbrs(p), Marked(q, v) PROVE Marked(q, v)'
    <3>1. q \in PE /\ p \in Nbrs(q) /\ q # p
      BY NbrsIn, NbrsBothWays, NbrsAre, SendIs
    <3>2. CASE q # a
      BY <2>1, <2>2, <3>1, <3>2, SentMarks
    <3>3. CASE q = a
      <4>1. v \in supdate[a]
        BY <1>2, <2>1, <2>2, <3>1, <3>3 DEF Marked, UpdatesOut
      <4> QED BY <2>1, <3>1, <3>3, <4>1, SentMarks
    <3> QED BY <3>2, <3>3
  <2> QED BY <2>1, <2>2 DEF DInv, Gained
<1>9. Bounded'
  BY <1>2, <1>3 DEF DInv, Bounded
<1>10. NotHeavier'
  <2>1. ToClose' \in SUBSET ToClose
    <3> SUFFICES ASSUME NEW u \in ToClose' PROVE u \in ToClose
      OBVIOUS
    <3>1. u \in Vertex /\ cur(u) < nparts /\ cur(u) % 2 = cc /\ \E q \in PE : Marked(q, u)'
      BY <1>2, <1>3 DEF ToClose, cur
    <3> QED BY <3>1, SentMarks DEF ToClose
  <2>2. /\ InSeparators \union ToClose \in SUBSET Vertex
        /\ InSeparators \union ToClose' \in SUBSET (InSeparators \union ToClose)
        /\ InSeparators \union ToClose' \in SUBSET Vertex
    BY <2>1 DEF InSeparators, ToClose
  <2>3. Weight(InSeparators \union ToClose') <= Weight(InSeparators \union ToClose)
    BY <2>2, WeightMonotone
  <2>4. \A p \in PE : pc[p] # "done"
    BY <1>2, AllInSide DEF DInv, IInv, SidePhases
  <2>5. Weight(InSeparators \union ToClose) <= mincut /\ mincut \in Int
    BY <2>4 DEF DInv, NotHeavier, Numbers
  <2>6. Weight(InSeparators \union ToClose) \in Nat /\ Weight(InSeparators \union ToClose') \in Nat
    BY <2>2, VertexSets
  <2>7. Weight(InSeparators \union ToClose') <= mincut
    BY <2>3, <2>5, <2>6
  <2> QED BY <1>2, <1>3, <2>7 DEF NotHeavier
<1> QED BY <1>1, <1>4, <1>5, <1>6, <1>7, <1>8, <1>9, <1>10 DEF DInv

\* The labels after PullVertices.
LEMMA PullLabels ==
  ASSUME DInv, NEW a \in PE, PullVertices(a)
  PROVE  /\ pc[a] = "pull" /\ pc'[a] = "labels" /\ \A p \in PE : p # a => pc'[p] = pc[p]
         /\ UNCHANGED <<c, edegrees, supdate, mincut>> /\ cc' = cc
         /\ \A p \in PE : p # a => where'[p] = where[p]
         /\ \A p \in PE : update'[p] = IF p = a THEN Touched(a) ELSE update[p]
         /\ \A v \in ToPull(a) : /\ v \in Own(a) /\ v \in Vertex /\ Owner[v] = a /\ v \in Touched(a)
                                 /\ cur(v) = where[a][v] /\ cur(v) < nparts /\ cur(v) % 2 = cc
                                 /\ cur(v)' >= nparts /\ where'[a][v] >= nparts
                                 /\ where'[a][v] \in Label /\ where'[a][v] = SeparatorOf(where[a][v])
         /\ \A v \in Vertex : v \notin ToPull(a) => cur(v)' = cur(v)
         /\ \A v \in Own(a) : v \notin ToPull(a) => where'[a][v] = where[a][v]
<1> DEFINE pulled == ToPull(a)
           new == [v \in DOMAIN where[a] |->
                     IF v \in pulled THEN SeparatorOf(where[a][v]) ELSE where[a][v]]
<1>1. /\ pc[a] = "pull" /\ ArrivedFrom(chan, a, Nbrs(a)) /\ pc' = [pc EXCEPT ![a] = "labels"]
      /\ where' = [where EXCEPT ![a] = new] /\ update' = [update EXCEPT ![a] = Touched(a)]
      /\ UNCHANGED <<c, edegrees, supdate, mincut>>
  BY DEF PullVertices, greedy
<1>2. pc'[a] = "labels" /\ (\A p \in PE : p # a => pc'[p] = pc[p]) /\ cc' = cc
  BY <1>1 DEF DInv, IInv, Together, cc
<1>3. /\ Touched(a) \subseteq Own(a)
      /\ \A v \in pulled : v \in Own(a) /\ where[a][v] < nparts /\ where[a][v] % 2 = cc
  BY <1>1, AllPulled DEF DInv
<1>4. /\ DOMAIN where[a] = Own(a) \union Ghosts(a)
      /\ \A v \in Own(a) \union Ghosts(a) :
           new[v] = IF v \in pulled THEN SeparatorOf(where[a][v]) ELSE where[a][v]
  BY DEF DInv, IInv, Typed
<1> HIDE DEF pulled, new
<1>5. where'[a] = new /\ \A p \in PE : p # a => where'[p] = where[p]
  <2>1. where = [p \in PE |-> where[p]]
    BY DEF DInv, IInv, Typed
  <2> QED BY <1>1, <2>1
<1>6. \A p \in PE : update'[p] = IF p = a THEN Touched(a) ELSE update[p]
  BY <1>1 DEF DInv, IInv, Typed
<1>7. ASSUME NEW v \in pulled
      PROVE  /\ v \in Own(a) /\ v \in Vertex /\ Owner[v] = a /\ v \in Touched(a)
             /\ cur(v) = where[a][v] /\ cur(v) < nparts /\ cur(v) % 2 = cc
             /\ cur(v)' >= nparts /\ where'[a][v] >= nparts
             /\ where'[a][v] \in Label /\ where'[a][v] = SeparatorOf(where[a][v])
  <2>1. v \in Own(a) /\ v \in Vertex /\ Owner[v] = a /\ cur(v) = where[a][v] /\ cur(v)' = where'[a][v]
    BY <1>3, OwnIs DEF cur
  <2>2. where'[a][v] = SeparatorOf(cur(v)) /\ cur(v) < nparts
    BY <1>3, <1>4, <1>5, <2>1
  <2>3. cur(v) \in Label /\ PairOf(cur(v)) \in Pairs
    BY <2>1 DEF DInv, IInv, Paired
  <2>4. where'[a][v] \in Label /\ InSeparator(where'[a][v])
    BY <2>2, <2>3, SeparatorOfPart
  <2>5. v \in Touched(a)
    BY DEF pulled, ToPull
  <2> QED BY <1>3, <2>1, <2>2, <2>4, <2>5 DEF InSeparator
<1>8. \A v \in Own(a) : v \notin pulled => where'[a][v] = where[a][v]
  BY <1>4, <1>5
<1>9. \A v \in Vertex : v \notin pulled => cur(v)' = cur(v)
  <2> SUFFICES ASSUME NEW v \in Vertex, v \notin pulled PROVE cur(v)' = cur(v)
    OBVIOUS
  <2>1. CASE Owner[v] = a
    BY <1>8, <2>1, OwnerIn DEF cur
  <2>2. CASE Owner[v] # a
    BY <1>5, <2>2, OwnerIn DEF cur
  <2> QED BY <2>1, <2>2
<1> QED BY <1>1, <1>2, <1>5, <1>6, <1>7, <1>8, <1>9 DEF pulled

\* The sets that the degrees are about.
LEMMA PullSets ==
  ASSUME DInv, NEW a \in PE, PullVertices(a)
  PROVE  /\ \A p \in PE : p # a => Seps(p)' = Seps(p)
         /\ Seps(a)' = Seps(a) \union ToPull(a)
         /\ InSeparators' = InSeparators \union ToPull(a)
         /\ \A x \in Vertex : OnSide(x, c)' = OnSide(x, c)
         /\ \A x \in Vertex : OnSide(x, cc)' = OnSide(x, cc) \ ToPull(a)
         /\ \A x \in Vertex : \A y \in {0, 1} : OnSide(x, y)' \in SUBSET OnSide(x, y)
<1>1. /\ \A p \in PE : p # a => where'[p] = where[p]
      /\ \A v \in ToPull(a) : /\ v \in Own(a) /\ v \in Vertex /\ cur(v)' >= nparts
                              /\ where'[a][v] >= nparts /\ cur(v) < nparts /\ cur(v) % 2 = cc
      /\ \A v \in Vertex : v \notin ToPull(a) => cur(v)' = cur(v)
      /\ \A v \in Own(a) : v \notin ToPull(a) => where'[a][v] = where[a][v]
      /\ c' = c /\ cc' = cc
  BY PullLabels
<1>2. c # cc /\ nparts \in Int /\ \A v \in Vertex : cur(v) \in Int /\ cur(v)' \in Int
  <2>1. IInv'
    BY PullVerticesKeeps DEF DInv
  <2>2. \A v \in Vertex : cur(v)' \in Label
    BY <2>1 DEF IInv, Paired
  <2> QED BY <2>2, Sides, Parity, PartsAssumption DEF DInv, IInv, Paired
<1>3. \A p \in PE : p # a => Seps(p)' = Seps(p)
  BY <1>1 DEF Seps
<1>4. Seps(a)' = Seps(a) \union ToPull(a)
  <2>1. Seps(a)' = {x \in Own(a) : InSeparator(where'[a][x])}
    BY DEF Seps, InSeparator
  <2>2. \A x \in Own(a) : InSeparator(where'[a][x]) <=> InSeparator(where[a][x]) \/ x \in ToPull(a)
    BY <1>1 DEF InSeparator
  <2> QED BY <1>1, <2>1, <2>2 DEF Seps
<1>5. InSeparators' = InSeparators \union ToPull(a)
  <2>1. InSeparators' = {x \in Vertex : InSeparator(cur(x)')}
    BY DEF InSeparators, InSeparator
  <2>2. \A x \in Vertex : InSeparator(cur(x)') <=> InSeparator(cur(x)) \/ x \in ToPull(a)
    BY <1>1 DEF InSeparator
  <2> QED BY <1>1, <2>1, <2>2 DEF InSeparators
<1>6. ASSUME NEW x \in Vertex
      PROVE  /\ OnSide(x, c)' = OnSide(x, c)
             /\ OnSide(x, cc)' = OnSide(x, cc) \ ToPull(a)
             /\ \A y \in {0, 1} : OnSide(x, y)' \in SUBSET OnSide(x, y)
  <2>1. \A u \in Adj[x] : u \in Vertex
    BY EdgesBothWays
  <2>2. \A y : \A u \in Adj[x] : (cur(u)' < nparts /\ cur(u)' % 2 = y)
                                   <=> (cur(u) < nparts /\ cur(u) % 2 = y /\ u \notin ToPull(a))
    BY <1>1, <1>2, <2>1
  <2>3. \A y : OnSide(x, y)' = OnSide(x, y) \ ToPull(a)
    BY <2>2 DEF OnSide
  <2>4. OnSide(x, c)' = OnSide(x, c) \ ToPull(a) /\ OnSide(x, cc)' = OnSide(x, cc) \ ToPull(a)
    BY <1>1, <2>2 DEF OnSide
  <2>5. OnSide(x, c) \intersect ToPull(a) = {}
    BY <1>1, <1>2 DEF OnSide
  <2> QED BY <2>3, <2>4, <2>5
<1> QED BY <1>3, <1>4, <1>5, <1>6

\* The marks of a's vertices have been seen to, the others stay.
LEMMA PullMarks ==
  ASSUME DInv, NEW a \in PE, PullVertices(a)
  PROVE  /\ \A q \in PE, u \in Vertex : Owner[u] # a => (Marked(q, u)' <=> Marked(q, u))
         /\ \A q \in PE, u \in Vertex : Marked(q, u)' => Marked(q, u)
         /\ \A q \in Nbrs(a) \union {a}, u \in Own(a) : Marked(q, u) => u \in Touched(a)
         /\ \A u \in Touched(a) : \E q \in PE : Marked(q, u)
<1> DEFINE pulled == ToPull(a)
           new == [v \in DOMAIN where[a] |->
                     IF v \in pulled THEN SeparatorOf(where[a][v]) ELSE where[a][v]]
           all == changed[a] \union pulled
           msgs == [q \in Nbrs(a) |-> [v \in Send(a, q) \intersect all |-> new[v]]]
           taken == Take(chan, a, Nbrs(a))
<1>1. /\ pc[a] = "pull" /\ ArrivedFrom(chan, a, Nbrs(a)) /\ chan' = Post(taken, a, msgs)
      /\ UNCHANGED supdate
  BY DEF PullVertices, greedy
<1>2. /\ pc'[a] = "labels" /\ \A p \in PE : p # a => pc'[p] = pc[p]
      /\ \A p \in PE : p # a => update'[p] = update[p]
  BY PullLabels
<1>3. /\ taken = [q \in PE |-> [p \in PE |-> taken[q][p]]]
      /\ \A q, r \in PE : taken[q][r] =
           IF q \in Nbrs(a) /\ r = a THEN Tail(chan[q][r]) ELSE chan[q][r]
  <2>1. chan = [q \in PE |-> [p \in PE |-> chan[q][p]]]
    BY DEF DInv, IInv, Typed
  <2> QED BY <2>1, Taken
<1> HIDE DEF taken, new, all, pulled
<1>4. \A q, r \in PE : chan'[q][r] =
        IF q = a /\ r \in DOMAIN msgs THEN Append(taken[q][r], msgs[r]) ELSE taken[q][r]
  <2> HIDE DEF msgs
  <2> QED BY <1>1, <1>3, Posted
<1>5. \A u \in Vertex : Owner[u] \in PE
  BY OwnerIn
<1>6. /\ \A p \in PE : p # a => (UpdatesDue(p)' <=> UpdatesDue(p))
      /\ \A p \in PE : UpdatesOut(p)' <=> UpdatesOut(p)
      /\ ~UpdatesDue(a)' /\ UpdatesDue(a) /\ UpdatesOut(a)
  BY <1>1, <1>2 DEF UpdatesDue, UpdatesOut
\* The messages of a are still the first ones in their queues.
<1>7. ASSUME NEW r \in Nbrs(a), UpdatesDue(r) PROVE Head(chan'[a][r]) = Head(chan[a][r])
  <2>1. r \in PE /\ Box(a, r) /\ r # a
    BY NbrsIn, NbrsBothWays, NbrsAre, SendIs DEF DInv, IInv, Boxes
  <2>2. PICK m : chan[a][r] = <<m>>
    BY <1>1, <1>6, <1>7, <2>1 DEF Box, LabelsOut
  <2>3. PICK n : n = msgs[r]
    OBVIOUS
  <2>4. r \in DOMAIN msgs
    OBVIOUS
  <2> HIDE DEF msgs
  <2>5. taken[a][r] = <<m>>
    BY <1>3, <2>1, <2>2
  <2>6. chan'[a][r] = Append(<<m>>, n)
    BY <1>4, <2>1, <2>3, <2>4, <2>5
  <2>7. chan'[a][r] = <<m, n>>
    BY <2>6, Queues
  <2> QED BY <2>2, <2>7, Queues
<1>8. ASSUME NEW q \in PE, NEW u \in Vertex, Owner[u] # a PROVE Marked(q, u)' <=> Marked(q, u)
  <2>1. CASE q = a
    BY <1>1, <1>2, <1>5, <1>6, <1>7, <1>8, <2>1 DEF Marked
  <2>2. CASE q # a
    <3>1. chan'[q][Owner[u]] = chan[q][Owner[u]]
      <4> HIDE DEF msgs
      <4> QED BY <1>3, <1>4, <1>5, <1>8, <2>2
    <3>2. /\ pc'[q] = pc[q] /\ update'[q] = update[q] /\ supdate'[q] = supdate[q]
          /\ UpdatesOut(q)' <=> UpdatesOut(q)
          /\ UpdatesDue(Owner[u])' <=> UpdatesDue(Owner[u])
      BY <1>1, <1>2, <1>5, <1>6, <1>8, <2>2
    <3> QED BY <3>1, <3>2 DEF Marked
  <2> QED BY <2>1, <2>2
<1>9. ASSUME NEW q \in PE, NEW u \in Vertex, Marked(q, u)' PROVE Marked(q, u)
  <2>1. CASE Owner[u] # a
    BY <1>8, <1>9, <2>1
  <2>2. CASE Owner[u] = a
    BY <1>1, <1>2, <1>6, <1>9, <2>2 DEF Marked
  <2> QED BY <2>1, <2>2
<1>10. ASSUME NEW q \in Nbrs(a) \union {a}, NEW u \in Own(a), Marked(q, u) PROVE u \in Touched(a)
  <2>1. Owner[u] = a
    BY OwnIs
  <2>2. CASE q = a
    BY <1>10, <2>1, <2>2 DEF Marked, Touched
  <2>3. CASE q # a
    <3>1. pc[q] \in {"pull", "labels"}
      BY <1>1, <2>3, UpdatesArrived DEF DInv
    <3>2. u \in Head(chan[q][a])
      BY <1>10, <2>1, <2>3, <3>1 DEF Marked
    <3> QED BY <2>3, <3>2 DEF Touched
  <2> QED BY <2>2, <2>3
<1>11. ASSUME NEW u \in Touched(a) PROVE \E q \in PE : Marked(q, u)
  <2>1. Touched(a) \subseteq Own(a)
    BY <1>1, AllPulled DEF DInv
  <2>2. Owner[u] = a
    BY <2>1, OwnIs
  <2>3. CASE u \in update[a]
    BY <1>1, <2>2, <2>3 DEF Marked
  <2>4. CASE u \notin update[a]
    <3>1. PICK q \in Nbrs(a) : u \in Head(chan[q][a])
      BY <2>4 DEF Touched
    <3>2. q \in PE /\ q # a /\ UpdatesOut(q) /\ a \in Nbrs(q)
      BY <1>1, UpdatesArrived, NbrsBothWays DEF DInv
    <3> QED BY <1>6, <2>2, <3>1, <3>2 DEF Marked
  <2> QED BY <2>3, <2>4
<1> QED BY <1>8, <1>9, <1>10, <1>11

\* The weights of the labels.
LEMMA PullWeights ==
  ASSUME DInv, NEW a \in PE, PullVertices(a)
  PROVE  Weighed' /\ Numbers'
<1> DEFINE new == [v \in DOMAIN where[a] |->
                     IF v \in ToPull(a) THEN SeparatorOf(where[a][v]) ELSE where[a][v]]
           was(b) == {x \in Own(a) : where[a][x] = b \/ (b = Total /\ InSeparator(where[a][x]))}
           now(b) == {x \in Own(a) : new[x] = b \/ (b = Total /\ InSeparator(new[x]))}
           in(b)  == {v \in ToPull(a) : new[v] = b \/ b = Total}
           out(b) == {v \in ToPull(a) : where[a][v] = b}
<1>1. /\ lpwgts' = [lpwgts EXCEPT ![a] = [b \in Label |-> @[b] + Weight(in(b)) - Weight(out(b))]]
      /\ where' = [where EXCEPT ![a] = new]
      /\ UNCHANGED <<edegrees, mincut>>
  BY DEF PullVertices
<1>2. where'[a] = new
  <2>1. where = [p \in PE |-> where[p]]
    BY DEF DInv, IInv, Typed
  <2> HIDE DEF new
  <2> QED BY <1>1, <2>1
<1> HIDE DEF new
<1>3. /\ pc[a] = "pull" /\ pc'[a] = "labels"
      /\ \A p \in PE : p # a => pc'[p] = pc[p] /\ where'[p] = where[p]
      /\ \A v \in ToPull(a) : /\ v \in Own(a) /\ v \in Vertex /\ ~InSeparator(where[a][v])
                              /\ InSeparator(new[v])
      /\ \A v \in Own(a) : v \notin ToPull(a) => new[v] = where[a][v]
  <2>1. \A v \in ToPull(a) : /\ v \in Own(a) /\ v \in Vertex /\ where[a][v] = cur(v)
                             /\ cur(v) < nparts /\ new[v] >= nparts
    BY <1>2, PullLabels
  <2>2. \A v \in ToPull(a) : where[a][v] \in Int /\ nparts \in Int
    BY <2>1, Parity, PartsAssumption DEF DInv, IInv, Paired
  <2>3. \A v \in ToPull(a) : ~InSeparator(where[a][v]) /\ InSeparator(new[v])
    BY <2>1, <2>2 DEF InSeparator
  <2> QED BY <1>2, <2>1, <2>3, PullLabels
<1>4. lpwgts \in [PE -> [Label -> Int]] /\ lpwgts[a] = WeightsOf(Own(a), where[a])
  BY <1>3 DEF DInv, Numbers, Weighed
<1>5. Total \in Label /\ InSeparator(Total)
  BY PartsAssumption DEF Total, Label, InSeparator
<1>6. ASSUME NEW b \in Label
      PROVE  /\ Weight(now(b)) = lpwgts[a][b] + Weight(in(b)) - Weight(out(b))
             /\ Weight(now(b)) \in Nat
  <2>1. lpwgts[a][b] = Weight(was(b))
    BY <1>4 DEF WeightsOf
  <2>2. was(b) \in SUBSET Vertex /\ out(b) \in SUBSET Vertex /\ in(b) \in SUBSET Vertex
        /\ now(b) \in SUBSET Vertex
    BY <1>3, OwnIs
  <2>3. out(b) \in SUBSET was(b)
    BY <1>3
  <2>4. now(b) = (was(b) \ out(b)) \union in(b) /\ (was(b) \ out(b)) \intersect in(b) = {}
    <3>1. CASE b = Total
      BY <1>3, <1>5, <3>1
    <3>2. CASE b # Total
      BY <1>3, <3>2
    <3> QED BY <3>1, <3>2
  <2> HIDE DEF was, now, in, out
  <2>5. Weight(was(b) \ out(b)) = Weight(was(b)) - Weight(out(b))
    BY <2>2, <2>3, WeightWithout
  <2>6. was(b) \ out(b) \in SUBSET Vertex
    BY <2>2
  <2>7. Weight(now(b)) = Weight(was(b) \ out(b)) + Weight(in(b))
    BY <2>2, <2>4, <2>6, WeightOfTwo
  <2>8. /\ Weight(was(b)) \in Nat /\ Weight(out(b)) \in Nat /\ Weight(in(b)) \in Nat
        /\ Weight(now(b)) \in Nat
    BY <2>2, VertexSets
  <2> QED BY <2>1, <2>5, <2>7, <2>8
<1>7. WeightsOf(Own(a), new) = [b \in Label |-> Weight(now(b))]
  BY DEF WeightsOf
<1>8. lpwgts'[a] = [b \in Label |-> lpwgts[a][b] + Weight(in(b)) - Weight(out(b))]
  <2> HIDE DEF in, out
  <2> QED BY <1>1, <1>4
<1> HIDE DEF now, in, out
<1>9. lpwgts'[a] = WeightsOf(Own(a), new) /\ WeightsOf(Own(a), new) \in [Label -> Int]
  BY <1>6, <1>7, <1>8, WeightsTyped
<1>10. /\ lpwgts' = [p \in PE |-> lpwgts'[p]]
       /\ \A p \in PE : p # a => lpwgts'[p] = lpwgts[p]
  BY <1>1, <1>4
<1>11. Numbers'
  <2>1. \A p \in PE : lpwgts'[p] \in [Label -> Int]
    BY <1>4, <1>9, <1>10
  <2>2. lpwgts' \in [PE -> [Label -> Int]]
    BY <1>10, <2>1
  <2> QED BY <1>1, <2>2 DEF DInv, Numbers
<1>12. Weighed'
  <2> SUFFICES ASSUME NEW p \in PE,
                      pc'[p] \in {"paramsum", "greedy", "move", "pull", "labels", "sum"}
               PROVE  lpwgts'[p] = WeightsOf(Own(p), where'[p])
    BY DEF Weighed, WeightsOf, InSeparator
  <2>1. CASE p = a
    BY <1>2, <1>9, <2>1
  <2>2. CASE p # a
    BY <1>3, <1>10, <2>2 DEF DInv, Weighed
  <2> QED BY <2>1, <2>2
<1> QED BY <1>11, <1>12

LEMMA PullVerticesDegrees == ASSUME DInv, NEW a \in PE, PullVertices(a) PROVE DInv'
<1>1. IInv'
  BY PullVerticesKeeps DEF DInv
<1>2. /\ pc[a] = "pull" /\ pc'[a] = "labels" /\ \A p \in PE : p # a => pc'[p] = pc[p]
      /\ UNCHANGED <<c, edegrees, supdate, mincut>> /\ cc' = cc
      /\ \A p \in PE : p # a => where'[p] = where[p]
      /\ update'[a] = Touched(a) /\ \A p \in PE : p # a => update'[p] = update[p]
  BY PullLabels
<1>3. /\ \A p \in PE : p # a => Seps(p)' = Seps(p)
      /\ Seps(a)' = Seps(a) \union ToPull(a)
      /\ InSeparators' = InSeparators \union ToPull(a)
      /\ \A x \in Vertex : OnSide(x, c)' = OnSide(x, c)
      /\ \A x \in Vertex : OnSide(x, cc)' = OnSide(x, cc) \ ToPull(a)
      /\ \A x \in Vertex : \A y \in {0, 1} : OnSide(x, y)' \in SUBSET OnSide(x, y)
  BY PullSets
<1>4. update[a] \subseteq Touched(a) /\ ToPull(a) \subseteq Touched(a)
  BY DEF Touched, ToPull
<1>5. /\ c \in {0, 1} /\ cc \in {0, 1}
      /\ \A p \in PE : pc[p] \in {"move", "pull", "labels", "sum"}
  BY <1>2, Sides, AllInSide DEF DInv, IInv, Typed, SidePhases
<1>6. \A p \in PE : \A v \in Seps(p) : v \in Vertex /\ v \in Own(p) /\ Owner[v] = p
  BY OwnIs DEF Seps
<1>7. Fresh'
  BY <1>2 DEF DInv, Fresh
<1>8. Promised'
  <2> SUFFICES ASSUME NEW p \in PE, pc'[p] = "move", NEW v \in Seps(p)'
               PROVE  edegrees'[v][cc'] >= Weight({u \in Adj[v] \ (update'[p] \union supdate'[p]) :
                                                     where'[p][u] = Other(p, v)'})
    BY DEF Promised
  <2>1. p # a
    BY <1>2
  <2>2. /\ pc[p] = "move" /\ v \in Seps(p) /\ where'[p] = where[p] /\ update'[p] = update[p]
        /\ supdate'[p] = supdate[p]
    BY <1>2, <1>3, <2>1
  <2>3. Other(p, v)' = Other(p, v)
    BY <1>2, <2>2 DEF Other
  <2> QED BY <1>2, <2>2, <2>3 DEF DInv, Promised
\* A mark of p on a vertex that is left on its side is one of somebody else's vertex.
<1>9. ASSUME NEW p \in PE, pc'[p] \in {"pull", "labels"}, NEW x \in Vertex,
             NEW u \in OnSide(x, cc), Marked(p, u), u \notin ToPull(a)
      PROVE  Marked(p, u)'
  <2>1. u \in Vertex /\ cur(u) < nparts /\ cur(u) % 2 = cc
    BY EdgesBothWays DEF OnSide
  <2>2. CASE Owner[u] # a
    BY <1>9, <2>1, <2>2, PullMarks
  <2>3. CASE Owner[u] = a
    <3>1. p \in Nbrs(a) \union {a}
      <4>1. p # a => a \in Nbrs(p)
        BY <1>2, <1>9, <2>3 DEF Marked
      <4> QED BY <4>1, NbrsBothWays
    <3>2. u \in Touched(a)
      BY <1>9, <2>1, <2>3, <3>1, PullMarks, OwnIs
    <3>3. u \in ToPull(a)
      BY <2>1, <2>3, <3>2 DEF ToPull, cur
    <3> QED BY <1>9, <3>3
  <2> QED BY <2>2, <2>3
<1>10. Remaining'
  <2> SUFFICES ASSUME NEW p \in PE, pc'[p] \in {"pull", "labels"}, NEW v \in Seps(p)',
                      v \notin update'[p]
               PROVE  edegrees[v][cc] >= Weight({u \in OnSide(v, cc)' : ~Marked(p, u)'})
    BY <1>2 DEF Remaining
  <2> DEFINE old == {u \in OnSide(v, cc) : ~Marked(p, u)}
             now == {u \in OnSide(v, cc)' : ~Marked(p, u)'}
  <2>1. v \in Seps(p) /\ v \notin update[p]
    BY <1>2, <1>3, <1>4
  <2>2. v \in Vertex /\ OnSide(v, cc) \in SUBSET Vertex /\ OnSide(v, cc)' = OnSide(v, cc) \ ToPull(a)
    BY <1>3, <1>6, <2>1, Neighbours
  <2>3. now \in SUBSET old /\ old \in SUBSET Vertex
    BY <1>9, <2>2
  <2>4. pc[p] \in {"pull", "labels"}
    BY <1>2
  <2>5. edegrees[v][cc] >= Weight(old)
    BY <2>1, <2>4 DEF DInv, Remaining
  <2>6. edegrees[v][cc] \in Int
    BY <1>5, <2>2 DEF DInv, Numbers
  <2> HIDE DEF old, now
  <2>7. Weight(now) <= Weight(old) /\ Weight(now) \in Nat /\ Weight(old) \in Nat
    <3>1. now \in SUBSET Vertex
      BY <2>3
    <3> QED BY <2>3, <3>1, WeightMonotone, VertexSets
  <2>8. edegrees[v][cc] >= Weight(now)
    BY <2>5, <2>6, <2>7
  <2> QED BY <2>8 DEF now
<1>11. Gained'
  <2> SUFFICES ASSUME NEW p \in PE, pc'[p] \in {"move", "pull", "labels"}, NEW v \in Seps(p)',
                      v \notin update'[p]
               PROVE  \/ \E q \in Nbrs(p) : Marked(q, v)'
                      \/ edegrees[v][c] >= Weight(OnSide(v, c)')
    BY <1>2 DEF Gained
  <2>1. v \in Seps(p) /\ v \notin update[p] /\ pc[p] \in {"move", "pull", "labels"}
    BY <1>2, <1>3, <1>4
  <2>2. v \in Vertex /\ Owner[v] = p /\ v \in Own(p) /\ OnSide(v, c)' = OnSide(v, c)
    BY <1>3, <1>6, <2>1
  <2>3. ASSUME NEW q \in Nbrs(p), Marked(q, v) PROVE Marked(q, v)'
    <3>1. q \in PE
      BY NbrsIn
    <3>2. CASE p # a
      BY <2>2, <2>3, <3>1, <3>2, PullMarks
    <3>3. CASE p = a
      <4>1. v \in Touched(a)
        BY <2>2, <2>3, <3>3, PullMarks
      <4> QED BY <1>2, <3>3, <4>1
    <3> QED BY <3>2, <3>3
  <2> QED BY <2>1, <2>2, <2>3 DEF DInv, Gained
<1>12. Bounded'
  <2> SUFFICES ASSUME NEW p \in PE, pc'[p] \in {"paramsum", "greedy", "sum"}, NEW v \in Seps(p)',
                      NEW y \in {0, 1}
               PROVE  /\ edegrees[v][y] >= Weight(OnSide(v, y)')
                      /\ pc'[p] # "paramsum"
    BY <1>2 DEF Bounded
  <2>1. p # a /\ pc[p] = "sum" /\ pc'[p] = "sum" /\ v \in Seps(p)
    BY <1>2, <1>3, <1>5
  <2>2. v \in Vertex /\ OnSide(v, y) \in SUBSET Vertex /\ OnSide(v, y)' \in SUBSET OnSide(v, y)
    BY <1>3, <1>6, <2>1, Neighbours
  <2>3. Weight(OnSide(v, y)') <= Weight(OnSide(v, y)) /\ Weight(OnSide(v, y)') \in Nat
        /\ Weight(OnSide(v, y)) \in Nat
    <3>1. OnSide(v, y)' \in SUBSET Vertex
      BY <2>2
    <3> QED BY <2>2, <3>1, WeightMonotone, VertexSets
  <2>4. edegrees[v][y] >= Weight(OnSide(v, y)) /\ edegrees[v][y] \in Int
    BY <2>1, <2>2 DEF DInv, Bounded, Numbers
  <2>5. edegrees[v][y] >= Weight(OnSide(v, y)')
    BY <2>3, <2>4
  <2> QED BY <2>1, <2>5
<1>13. NotHeavier'
  <2>1. ToPull(a) \subseteq ToClose
    <3> SUFFICES ASSUME NEW u \in ToPull(a) PROVE u \in ToClose
      OBVIOUS
    <3>1. u \in Vertex /\ cur(u) < nparts /\ cur(u) % 2 = cc /\ u \in Touched(a)
      BY PullLabels
    <3> QED BY <3>1, PullMarks DEF ToClose
  <2>2. ToClose' \subseteq ToClose
    <3> SUFFICES ASSUME NEW u \in ToClose' PROVE u \in ToClose
      OBVIOUS
    <3>1. u \in Vertex /\ cur(u)' < nparts /\ cur(u)' % 2 = cc /\ \E q \in PE : Marked(q, u)'
      BY <1>2 DEF ToClose
    <3>2. cur(u)' = cur(u)
      <4>1. cur(u)' \in Int /\ nparts \in Int
        BY <1>1, <3>1, Parity, PartsAssumption DEF IInv, Paired
      <4>2. ~(cur(u)' >= nparts)
        BY <3>1, <4>1
      <4> QED BY <3>1, <4>2, PullLabels
    <3> QED BY <3>1, <3>2, PullMarks DEF ToClose
  <2> DEFINE was == InSeparators \union ToClose
             now == InSeparators' \union ToClose'
  <2>3. now \in SUBSET was /\ was \in SUBSET Vertex
    BY <1>3, <2>1, <2>2 DEF InSeparators, ToClose
  <2>4. Weight(was) <= mincut /\ mincut \in Int
    BY <1>5 DEF DInv, NotHeavier, Numbers
  <2>5. Weight(now) <= mincut
    <3> HIDE DEF was, now
    <3>1. now \in SUBSET Vertex
      BY <2>3
    <3>2. Weight(now) <= Weight(was) /\ Weight(now) \in Nat /\ Weight(was) \in Nat
      BY <2>3, <3>1, WeightMonotone, VertexSets
    <3> QED BY <2>4, <3>2
  <2> QED BY <1>2, <2>5 DEF NotHeavier
<1> QED BY <1>1, <1>7, <1>8, <1>10, <1>11, <1>12, <1>13, PullWeights DEF DInv

\* Weights depend on the labels of the vertices that are weighed.
LEMMA SameWeights ==
  ASSUME NEW S, NEW w, NEW n, \A v \in S : n[v] = w[v]
  PROVE  WeightsOf(S, n) = WeightsOf(S, w)
<1>1. \A a \in Label : {v \in S : n[v] = a \/ (a = Total /\ InSeparator(n[v]))}
                         = {v \in S : w[v] = a \/ (a = Total /\ InSeparator(w[v]))}
  OBVIOUS
<1> QED BY <1>1 DEF WeightsOf

LEMMA UpdateDegreesDegrees == ASSUME DInv, NEW a \in PE, UpdateDegrees(a) PROVE DInv'
<1> DEFINE new == Exchanged(chan, a, where[a])
<1>1. IInv'
  BY UpdateDegreesKeeps DEF DInv
<1>2. /\ pc[a] = "labels" /\ ArrivedFrom(chan, a, Nbrs(a)) /\ pc' = [pc EXCEPT ![a] = "sum"]
      /\ where' = [where EXCEPT ![a] = new]
      /\ edegrees' = [v \in Vertex |-> IF v \in update[a] /\ InSeparator(new[v])
                                       THEN Degrees(v, new) ELSE edegrees[v]]
      /\ update' = [update EXCEPT ![a] = {}] /\ chan' = Take(chan, a, Nbrs(a))
      /\ UNCHANGED <<c, lpwgts, supdate, mincut>>
  BY DEF UpdateDegrees, greedy
<1>3. \A v \in Own(a) : new[v] = where[a][v]
  <2>1. where[a] \in [Own(a) \union Ghosts(a) -> Int]
    BY DEF DInv, IInv, Typed
  <2> QED BY <2>1, OwnIs, GhostsAre DEF Exchanged
<1> HIDE DEF new
<1>4. /\ pc'[a] = "sum" /\ \A p \in PE : p # a => pc'[p] = pc[p]
      /\ update'[a] = {} /\ \A p \in PE : p # a => update'[p] = update[p]
      /\ where'[a] = new /\ \A p \in PE : p # a => where'[p] = where[p]
      /\ cc' = cc
  <2>1. where = [p \in PE |-> where[p]]
    BY DEF DInv, IInv, Typed
  <2> QED BY <1>2, <2>1 DEF DInv, IInv, Together, Typed, cc
<1>5. \A p \in PE : pc[p] \in {"move", "pull", "labels", "sum"}
  BY <1>2, AllInSide DEF DInv, IInv, SidePhases
<1>6. \A v \in Vertex : cur(v)' = cur(v)
  BY <1>3, <1>4, OwnerIn DEF cur
<1>7. /\ \A p \in PE : Seps(p)' = Seps(p)
      /\ \A v \in Vertex : \A y : OnSide(v, y)' = OnSide(v, y)
      /\ \A v \in Vertex : OnSide(v, c)' = OnSide(v, c) /\ OnSide(v, cc)' = OnSide(v, cc)
      /\ InSeparators' = InSeparators
  <2>1. \A p \in PE : Seps(p)' = Seps(p)
    BY <1>3, <1>4 DEF Seps, InSeparator
  <2>2. \A v \in Vertex : \A u \in Adj[v] : cur(u)' = cur(u)
    BY <1>6, EdgesBothWays
  <2>3. \A v \in Vertex : \A y : OnSide(v, y)' = OnSide(v, y)
    BY <2>2 DEF OnSide
  <2>4. \A v \in Vertex : OnSide(v, c)' = OnSide(v, c) /\ OnSide(v, cc)' = OnSide(v, cc)
    BY <1>2, <1>4, <2>2 DEF OnSide
  <2> QED BY <1>6, <2>1, <2>3, <2>4 DEF InSeparators, InSeparator
<1>8. \A p \in PE : \A v \in Seps(p) : v \in Vertex /\ v \in Own(p) /\ Owner[v] = p
  BY OwnIs DEF Seps
<1>9. /\ \A q \in Nbrs(a) : q \in PE /\ q # a /\ LabelsOut(q) /\ ~UpdatesDue(q) /\ pc[q] # "move"
      /\ ~UpdatesDue(a) /\ ~UpdatesDue(a)'
      /\ \A p \in PE : (UpdatesDue(p)' <=> UpdatesDue(p)) /\ (UpdatesOut(p)' <=> UpdatesOut(p))
  <2>1. \A q \in Nbrs(a) : q \in PE /\ q # a /\ LabelsOut(q)
    BY <1>2, LabelsArrived DEF DInv
  <2> QED BY <1>2, <1>4, <2>1 DEF LabelsOut, UpdatesDue, UpdatesOut
\* The degrees of the vertices in update[] are those of the labels.
<1>10. ASSUME NEW v \in Seps(a), v \in update[a], NEW y \in {0, 1}
       PROVE  edegrees'[v] \in [{0, 1} -> Int] /\ edegrees'[v][y] = Weight(OnSide(v, y))
  <2>1. v \in Vertex /\ v \in Own(a) /\ Owner[v] = a /\ InSeparator(new[v]) /\ new[v] = cur(v)
    BY <1>3, <1>8 DEF Seps, cur
  <2>2. ASSUME NEW u \in Adj[v] PROVE new[u] = cur(u)
    <3>1. u \in Vertex
      BY <2>1, EdgesBothWays
    <3>2. CASE Owner[u] = a
      BY <1>3, <3>1, <3>2, OwnerIn DEF cur
    <3>3. CASE Owner[u] # a
      <4>1. u \in Ghosts(a)
        BY <2>1, <3>3, EdgeKnown
      <4>2. where'[a][u] = cur(u)'
        BY <1>1, <1>4, <4>1 DEF IInv, Copies
      <4> QED BY <1>4, <1>6, <3>1, <4>2
    <3> QED BY <3>2, <3>3
  <2>3. Degrees(v, new) = [x \in {0, 1} |-> Weight(OnSide(v, x))] /\ Degrees(v, new) \in [{0, 1} -> Int]
    BY <2>1, <2>2, DegreesAre DEF DInv
  <2>4. edegrees'[v] = Degrees(v, new)
    BY <1>2, <1>10, <2>1
  <2> QED BY <2>3, <2>4
<1>11. \A v \in Vertex : v \notin Seps(a) \/ v \notin update[a] => edegrees'[v] = edegrees[v]
  <2>1. \A v \in update[a] : v \in Own(a) /\ new[v] = where[a][v]
    BY <1>3 DEF DInv, IInv, Typed
  <2> QED BY <1>2, <2>1 DEF Seps
<1>12. ASSUME NEW p \in PE, p # a, NEW v \in Seps(p) PROVE edegrees'[v] = edegrees[v]
  BY <1>8, <1>11, <1>12
<1>13. Numbers'
  <2>1. edegrees' = [v \in Vertex |-> edegrees'[v]]
    BY <1>2
  <2>2. \A v \in Vertex : edegrees'[v] \in [{0, 1} -> Int]
    BY <1>10, <1>11 DEF DInv, Numbers
  <2> QED BY <1>2, <2>1, <2>2 DEF DInv, Numbers
<1>14. \A q \in PE, u \in Vertex : Marked(q, u)' <=> Marked(q, u)
  <2>1. \A q, r \in PE : r # a => chan'[q][r] = chan[q][r]
    <3>1. chan = [q \in PE |-> [p \in PE |-> chan[q][p]]]
      BY DEF DInv, IInv, Typed
    <3>2. \A q, r \in PE : Take(chan, a, Nbrs(a))[q][r] =
             IF q \in Nbrs(a) /\ r = a THEN Tail(chan[q][r]) ELSE chan[q][r]
      BY <3>1, Taken
    <3> QED BY <1>2, <3>2
  <2> SUFFICES ASSUME NEW q \in PE, NEW u \in Vertex PROVE Marked(q, u)' <=> Marked(q, u)
    OBVIOUS
  <2>2. Owner[u] \in PE
    BY OwnerIn
  <2>3. CASE Owner[u] = a
    BY <1>2, <1>4, <1>9, <2>3 DEF Marked
  <2>4. CASE Owner[u] # a
    <3>1. /\ chan'[q][Owner[u]] = chan[q][Owner[u]]
          /\ UpdatesDue(Owner[u])' <=> UpdatesDue(Owner[u])
          /\ UpdatesOut(q)' <=> UpdatesOut(q)
      BY <1>9, <2>1, <2>2, <2>4
    <3> QED BY <1>2, <1>4, <2>4, <3>1 DEF Marked
  <2> QED BY <2>3, <2>4
<1>15. Weighed'
  <2> SUFFICES ASSUME NEW p \in PE,
                      pc'[p] \in {"paramsum", "greedy", "move", "pull", "labels", "sum"}
               PROVE  lpwgts[p] = WeightsOf(Own(p), where'[p])
    BY <1>2 DEF Weighed, WeightsOf, InSeparator
  <2>1. lpwgts[p] = WeightsOf(Own(p), where[p])
    BY <1>5 DEF DInv, Weighed
  <2>2. \A v \in Own(p) : where'[p][v] = where[p][v]
    BY <1>3, <1>4
  <2>3. WeightsOf(Own(p), where'[p]) = WeightsOf(Own(p), where[p])
    BY <2>2, SameWeights
  <2> QED BY <2>1, <2>3
<1>16. Fresh'
  BY <1>2, <1>4 DEF DInv, Fresh
<1>17. Promised'
  <2> SUFFICES ASSUME NEW p \in PE, pc'[p] = "move", NEW v \in Seps(p)
               PROVE  edegrees'[v][cc] >= Weight({u \in Adj[v] \ (update'[p] \union supdate[p]) :
                                                    where'[p][u] = Other(p, v)'})
    BY <1>2, <1>4, <1>7 DEF Promised
  <2>1. p # a /\ pc[p] = "move" /\ where'[p] = where[p] /\ update'[p] = update[p] /\ edegrees'[v] = edegrees[v]
    BY <1>4, <1>12
  <2>2. Other(p, v)' = Other(p, v)
    BY <1>4, <2>1 DEF Other
  <2> QED BY <2>1, <2>2 DEF DInv, Promised
<1>18. Remaining'
  <2> SUFFICES ASSUME NEW p \in PE, pc'[p] \in {"pull", "labels"}, NEW v \in Seps(p)
               PROVE  \/ v \in update'[p]
                      \/ edegrees'[v][cc] >= Weight({u \in OnSide(v, cc)' : ~Marked(p, u)'})
    BY <1>4, <1>7 DEF Remaining
  <2>1. p # a /\ pc[p] = pc'[p] /\ update'[p] = update[p] /\ edegrees'[v] = edegrees[v]
    BY <1>4, <1>12
  <2>2. OnSide(v, cc)' = OnSide(v, cc) /\ \A u \in OnSide(v, cc) : u \in Vertex
    BY <1>7, <1>8, Neighbours
  <2>3. {u \in OnSide(v, cc)' : ~Marked(p, u)'} = {u \in OnSide(v, cc) : ~Marked(p, u)}
    BY <1>14, <2>2
  <2> QED BY <2>1, <2>3 DEF DInv, Remaining
<1>19. Gained'
  <2> SUFFICES ASSUME NEW p \in PE, pc'[p] \in {"move", "pull", "labels"}, NEW v \in Seps(p)
               PROVE  \/ v \in update'[p]
                      \/ \E q \in Nbrs(p) : Marked(q, v)'
                      \/ edegrees'[v][c] >= Weight(OnSide(v, c))
    BY <1>2, <1>7, <1>8 DEF Gained
  <2>1. p # a /\ pc[p] = pc'[p] /\ update'[p] = update[p] /\ edegrees'[v] = edegrees[v] /\ v \in Vertex
    BY <1>4, <1>8, <1>12
  <2>2. \A q \in Nbrs(p) : Marked(q, v)' <=> Marked(q, v)
    BY <1>14, <2>1, NbrsIn
  <2> QED BY <2>1, <2>2 DEF DInv, Gained
<1>20. Bounded'
  <2> SUFFICES ASSUME NEW p \in PE, pc'[p] \in {"paramsum", "greedy", "sum"}, NEW v \in Seps(p),
                      NEW y \in {0, 1}
               PROVE  /\ edegrees'[v][y] >= Weight(OnSide(v, y))
                      /\ pc'[p] # "paramsum"
    <3>1. \A p \in PE : \A v \in Seps(p) : \A y : OnSide(v, y)' = OnSide(v, y)
      BY <1>7, <1>8
    <3> QED BY <1>7, <3>1 DEF Bounded
  <2>1. pc'[p] = "sum" /\ v \in Vertex /\ Owner[v] = p
    BY <1>4, <1>5, <1>8
  <2>2. CASE p # a
    <3>1. pc[p] = "sum" /\ edegrees'[v] = edegrees[v]
      BY <1>4, <1>12, <2>1, <2>2
    <3> QED BY <2>1, <3>1 DEF DInv, Bounded
  <2>3. CASE p = a /\ v \in update[a]
    <3>1. edegrees'[v] \in [{0, 1} -> Int] /\ edegrees'[v][y] = Weight(OnSide(v, y))
      BY <1>10, <2>3
    <3> QED BY <2>1, <3>1
  <2>4. CASE p = a /\ v \notin update[a]
    <3>1. edegrees'[v] = edegrees[v]
      BY <1>11, <2>1, <2>4
    <3>2. edegrees[v][cc] >= Weight(OnSide(v, cc))
      <4>1. \A u \in OnSide(v, cc) : ~Marked(a, u)
        BY <1>2, <1>9 DEF Marked
      <4>2. {u \in OnSide(v, cc) : ~Marked(a, u)} = OnSide(v, cc)
        BY <4>1
      <4> QED BY <1>2, <2>4, <4>2 DEF DInv, Remaining
    <3>3. edegrees[v][c] >= Weight(OnSide(v, c))
      <4>1. ASSUME NEW q \in Nbrs(a) PROVE ~Marked(q, v)
        BY <1>9, <2>1, <2>4 DEF Marked
      <4> QED BY <1>2, <2>4, <4>1 DEF DInv, Gained
    <3>4. y = c \/ y = cc
      BY Sides DEF DInv, IInv, Typed
    <3> QED BY <2>1, <3>1, <3>2, <3>3, <3>4
  <2> QED BY <2>2, <2>3, <2>4
<1>21. NotHeavier'
  <2>1. ToClose' = ToClose
    <3>1. ToClose' = {v \in Vertex : cur(v)' < nparts /\ cur(v)' % 2 = cc' /\ \E q \in PE : Marked(q, v)'}
      BY DEF ToClose
    <3> QED BY <1>4, <1>6, <1>14, <3>1 DEF ToClose
  <2>2. Weight(InSeparators \union ToClose) <= mincut
    BY <1>5 DEF DInv, NotHeavier
  <2> QED BY <1>2, <1>7, <2>1, <2>2 DEF NotHeavier
<1> QED BY <1>1, <1>13, <1>15, <1>16, <1>17, <1>18, <1>19, <1>20, <1>21 DEF DInv

-----------------------------------------------------------------------------
(* The invariant of the degrees and weights.                               *)

LEMMA InitDegrees == Init => DInv
<1> SUFFICES ASSUME Init PROVE DInv
  OBVIOUS
<1>1. IInv
  BY InitInv
<1>2. PICK w \in Starts :
        /\ where = [p \in PE |-> [v \in Own(p) \union Ghosts(p) |-> IF v \in Own(p) THEN w[v] ELSE -1]]
        /\ mincut = Weight({v \in Vertex : InSeparator(w[v])})
  BY DEF Init
<1>3. /\ pc = [p \in PE |-> "params"]
      /\ edegrees = [v \in Vertex |-> [x \in {0, 1} |-> 0]]
      /\ lpwgts = [p \in PE |-> [a \in Label |-> 0]]
      /\ sepind = [p \in PE |-> {}] /\ update = sepind /\ supdate = sepind
  BY DEF Init
<1>4. \A v \in Vertex : cur(v) = w[v]
  BY <1>2, OwnerIn DEF cur
<1>5. InSeparators = {v \in Vertex : InSeparator(w[v])} /\ InSeparators \in SUBSET Vertex
  BY <1>4 DEF InSeparators
<1>6. mincut = Weight(InSeparators) /\ mincut \in Nat
  BY <1>2, <1>5, VertexSets
<1>7. \A p \in PE : pc[p] = "params" /\ update[p] = {} /\ supdate[p] = {}
  BY <1>3
<1>8. Numbers
  BY <1>3, <1>6 DEF Numbers
<1>9. Weighed /\ Fresh /\ Promised /\ Remaining /\ Gained /\ Bounded
  BY <1>7 DEF Weighed, Fresh, Promised, Remaining, Gained, Bounded
<1>10. NotHeavier
  <2>1. ToClose = {}
    BY <1>7, NothingMarked
  <2>2. InSeparators \union ToClose = InSeparators
    BY <2>1
  <2> QED BY <1>6, <2>2 DEF NotHeavier
<1> QED BY <1>1, <1>8, <1>9, <1>10 DEF DInv

LEMMA NextDegrees == DInv /\ [Next]_vars => DInv'
<1> SUFFICES ASSUME DInv, [Next]_vars PROVE DInv'
  OBVIOUS
<1>1. ASSUME NEW p \in PE, Params(p) PROVE DInv'
  BY <1>1, SendWhereDegrees, ComputeParamsDegrees DEF Params
<1>2. ASSUME NEW p \in PE, Greedy(p) PROVE DInv'
  BY <1>2, MoveVertexDegrees, SendUpdatesDegrees, PullVerticesDegrees, UpdateDegreesDegrees DEF Greedy
<1>3. ASSUME NEW p \in PE, RefineInterior(p) PROVE DInv'
  BY <1>3, RefineInteriorDegrees
<1>4. ASSUME ReduceParams \/ StartGreedy \/ EndSide PROVE DInv'
  BY <1>4, ReduceParamsDegrees, StartGreedyDegrees, EndSideDegrees
<1>5. ASSUME UNCHANGED vars PROVE DInv'
  <2>1. IInv'
    BY <1>5, StutterKeeps DEF DInv
  <2>2. UNCHANGED <<pc, c, where, edegrees, lpwgts, update, supdate, mincut, chan>>
    BY <1>5 DEF vars, greedy
  <2> QED BY <2>1, <2>2, SameDegrees
<1> QED BY <1>1, <1>2, <1>3, <1>4, <1>5 DEF Next

\* The stronger invariant: every neighbour that a degree leaves out is one that a mark will pull
\* into the separator, and the separators weigh, with all that is marked to join them, no more
\* than mincut.
THEOREM DegreesInvariance == Spec => []DInv
<1>1. Init => DInv
  BY InitDegrees
<1>2. DInv /\ [Next]_vars => DInv'
  BY NextDegrees
<1> QED BY <1>1, <1>2, PTL DEF Spec

LEMMA InvExact == DInv => ParamsExact
<1> SUFFICES ASSUME DInv PROVE ParamsExact
  OBVIOUS
<1>1. ASSUME NEW p \in PE, pc[p] \in {"paramsum", "sum"}
      PROVE  /\ \A v \in Ghosts(p) : where[p][v] = Current[v]
             /\ sepind[p] = {v \in Own(p) : InSeparator(Current[v])}
             /\ lpwgts[p] = WeightsOf(Own(p), Current)
             /\ \A v \in sepind[p] :
                  LET exact == Degrees(v, Current) IN
                  /\ \A x \in {0, 1} : edegrees[v][x] >= exact[x]
                  /\ pc[p] = "paramsum" => edegrees[v] = exact
  <2>1. \A v \in Vertex : Current[v] = cur(v)
    BY DEF Current, cur
  <2>2. \A v \in Own(p) : Current[v] = where[p][v]
    BY OwnIs DEF Current
  <2>3. \A v \in Ghosts(p) : where[p][v] = Current[v]
    BY <1>1, <2>1, GhostsAre DEF DInv, IInv, Copies
  <2>4. sepind[p] = Seps(p) /\ Seps(p) = {v \in Own(p) : InSeparator(Current[v])}
    BY <1>1, <2>2 DEF DInv, IInv, Lists, Seps
  <2>5. lpwgts[p] = WeightsOf(Own(p), Current)
    <3>1. lpwgts[p] = WeightsOf(Own(p), where[p])
      BY <1>1 DEF DInv, Weighed
    <3> QED BY <2>2, <3>1, SameWeights
  <2>6. ASSUME NEW v \in Seps(p)
        PROVE  /\ \A x \in {0, 1} : edegrees[v][x] >= Degrees(v, Current)[x]
               /\ pc[p] = "paramsum" => edegrees[v] = Degrees(v, Current)
    <3>1. v \in Vertex /\ \A u \in Adj[v] : u \in Vertex
      BY OwnIs, EdgesBothWays DEF Seps
    <3>2. Degrees(v, Current) = [x \in {0, 1} |-> Weight(OnSide(v, x))]
      BY <2>1, <3>1, DegreesAre DEF DInv
    <3>3. \A x \in {0, 1} : /\ edegrees[v][x] >= Weight(OnSide(v, x))
                            /\ pc[p] = "paramsum" => edegrees[v][x] = Weight(OnSide(v, x))
      BY <1>1 DEF DInv, Bounded
    <3>4. edegrees[v] = [x \in {0, 1} |-> edegrees[v][x]]
      BY <3>1 DEF DInv, Numbers
    <3> QED BY <3>2, <3>3, <3>4
  <2> QED BY <2>3, <2>4, <2>5, <2>6
<1>2. ASSUME NEW p \in PE, pc[p] = "move", NEW v \in queue[p]
      PROVE  edegrees[v][cc] >= Weight({u \in Adj[v] \ (update[p] \cup supdate[p]) :
                                    where[p][u] = Other(p, v)})
  <2>1. v \in Seps(p)
    BY <1>2 DEF DInv, IInv, Lists
  <2> QED BY <1>2, <2>1 DEF DInv, Promised
<1> QED BY <1>1, <1>2 DEF ParamsExact

\* What the PEs keep incrementally is right again after each side, the degrees never miss a
\* neighbour, and during a side the gains never promise too much.
THEOREM ParamsStayExact == Spec => []ParamsExact
<1>1. DInv => ParamsExact
  BY InvExact
<1> QED BY <1>1, DegreesInvariance, PTL

LEMMA MincutFalls == DInv /\ [Next]_vars => mincut' <= mincut
<1> SUFFICES ASSUME DInv, [Next]_vars PROVE mincut' <= mincut
  OBVIOUS
<1>1. mincut \in Int
  BY DEF DInv, Numbers
<1>2. ASSUME \A p \in PE : pc[p] \in {"paramsum", "greedy", "sum"}, mincut' = SumWeights[Total]
      PROVE  mincut' <= mincut
  <2>1. mincut' = Weight(InSeparators) /\ Weight(InSeparators) \in Nat
    BY <1>2, SeparatorsCounted
  <2>2. ToClose = {}
    BY <1>2, NothingMarked
  <2>3. InSeparators \union ToClose = InSeparators
    BY <2>2
  <2>4. Weight(InSeparators) <= mincut
    BY <1>2, <2>3 DEF DInv, NotHeavier
  <2> QED BY <2>1, <2>4
<1>3. CASE ReduceParams
  BY <1>2, <1>3 DEF ReduceParams
<1>4. CASE EndSide
  BY <1>2, <1>4 DEF EndSide
<1>5. CASE ~ReduceParams /\ ~EndSide
  <2>1. mincut' = mincut
    BY <1>5 DEF Next, vars, Params, Greedy, SendWhere, ComputeParams, MoveVertex, SendUpdates,
                PullVertices, UpdateDegrees, RefineInterior, StartGreedy
  <2> QED BY <1>1, <2>1
<1> QED BY <1>3, <1>4, <1>5

\* The separators never get heavier, though every PE counts its own gains only and two PEs may
\* pull in the same vertex.
THEOREM SeparatorShrinks == Spec => SeparatorNeverGrows
<1>1. DInv /\ [Next]_vars => [mincut' <= mincut]_vars
  BY MincutFalls
<1> QED BY <1>1, DegreesInvariance, PTL DEF Spec, SeparatorNeverGrows
=============================================================================
