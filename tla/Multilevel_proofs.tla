------------------------- MODULE Multilevel_proofs -------------------------
(***************************************************************************)
(* Nothing is lost and no file is left behind by the multilevel drivers:   *)
(* NothingLeftBehind of module Multilevel, for graphs of every size, every *)
(* number of levels and every choice of failing writes and reads.  Every   *)
(* vertex of the coarsest graph gets one label: LabelledOnce of module     *)
(* InitPart, for any numbers of PEs, groups and parts and any bisections.  *)
(* Of the partitions found the elections take a balanced one with the      *)
(* least cut: NoElectionLosesBalance.                                      *)
(***************************************************************************)
EXTENDS Multilevel, SequenceTheorems, FiniteSetTheorems, WellFoundedInduction, TLAPS

Size == DOMAIN CoarserSizes
Graph == [n : Size, held : SUBSET Fields, gID : Nat, ondisk : BOOLEAN]
Running == {"descend", "place", "ascend"}

\* There is always the user's graph.
Shape ==
  /\ graphs \in Seq(Graph)
  /\ Len(graphs) > 0
  /\ gID \in Nat \ {0}

\* A number is given out once, and a graph on the disk has one.
Numbered ==
  /\ \A i \in 1..Len(graphs) : /\ graphs[i].gID < gID
                               /\ graphs[i].ondisk => graphs[i].gID > 0
  /\ \A i, j \in 1..Len(graphs) :
       graphs[i].gID > 0 /\ graphs[i].gID = graphs[j].gID => i = j

Stored == {graphs[i].gID : i \in {j \in 1..Len(graphs) : graphs[j].ondisk}}

\* What the refinement needs is only held for the graph that is worked on.
Waiting ==
  \A i \in 1..Len(graphs) : i < Len(graphs) =>
    graphs[i].held \intersect {"where", "params", "pwgts"} = {}

\* The arrays of a graph are in memory or on the disk.
InOnePlace ==
  pc \in Running => \A i \in 1..Len(graphs) :
    "graph" \in graphs[i].held <=> ~graphs[i].ondisk

\* The graph that is worked on: in memory, and without what the next step allocates.
WorkedOn ==
  LET top == graphs[Len(graphs)] IN
  /\ pc \in Running => ~top.ondisk
  /\ pc \in {"descend", "place"} => top.held \intersect {"params", "pwgts"} = {}
  /\ pc = "descend" /\ optype # "ometis" => "where" \notin top.held
  /\ pc = "done" => Len(graphs) = 1 /\ ~top.ondisk /\ "graph" \notin top.held

IInv ==
  /\ Shape
  /\ Numbered
  /\ files = Stored
  /\ pc \in Running \union {"done", "crashed", "aborted"}
  /\ Waiting
  /\ InOnePlace
  /\ WorkedOn
  /\ lost = {}

-----------------------------------------------------------------------------
(* The sequence of the graphs.                                             *)

\* The graphs below the top.
LEMMA FrontIs ==
  ASSUME NEW S, NEW gs \in Seq(S), Len(gs) > 0
  PROVE  /\ Front(gs) \in Seq(S) /\ Len(Front(gs)) = Len(gs) - 1
         /\ \A i \in 1..(Len(gs) - 1) : Front(gs)[i] = gs[i]
<1> DEFINE n == Len(gs) - 1
<1>1. Len(gs) \in Nat /\ \A i \in 1..(Len(gs) - 1) : gs[i] \in S
  BY ElementOfSeq, LenProperties
<1>2. n \in Int /\ n >= 0 /\ 1 \in Int /\ \A i \in 1..n : gs[i] \in S
  BY <1>1
<1> HIDE DEF n
<1>3. /\ SubSeq(gs, 1, n) \in Seq(S)
      /\ Len(SubSeq(gs, 1, n)) = IF 1 <= n THEN n - 1 + 1 ELSE 0
      /\ \A i \in 1..(n - 1 + 1) : SubSeq(gs, 1, n)[i] = gs[1 + i - 1]
  BY <1>2, SubSeqProperties
<1>4. /\ SubSeq(gs, 1, n) \in Seq(S) /\ Len(SubSeq(gs, 1, n)) = n
      /\ \A i \in 1..n : SubSeq(gs, 1, n)[i] = gs[i]
  BY <1>2, <1>3
<1> QED BY <1>4 DEF Front, n

\* Another graph on top.
LEMMA TopReplaced ==
  ASSUME NEW S, NEW gs \in Seq(S), Len(gs) > 0, NEW h \in S
  PROVE  /\ Append(Front(gs), h) \in Seq(S)
         /\ Len(Append(Front(gs), h)) = Len(gs)
         /\ \A i \in 1..Len(gs) :
              Append(Front(gs), h)[i] = IF i = Len(gs) THEN h ELSE gs[i]
<1>1. Len(gs) \in Nat
  BY LenProperties
<1>2. /\ Front(gs) \in Seq(S) /\ Len(Front(gs)) = Len(gs) - 1
      /\ \A i \in 1..(Len(gs) - 1) : Front(gs)[i] = gs[i]
  BY <1>1, FrontIs
<1>3. /\ Append(Front(gs), h) \in Seq(S)
      /\ Len(Append(Front(gs), h)) = Len(Front(gs)) + 1
      /\ \A i \in 1..Len(Front(gs)) : Append(Front(gs), h)[i] = Front(gs)[i]
      /\ Append(Front(gs), h)[Len(Front(gs)) + 1] = h
  BY <1>2, AppendProperties
<1>4. ASSUME NEW i \in 1..Len(gs)
      PROVE  Append(Front(gs), h)[i] = IF i = Len(gs) THEN h ELSE gs[i]
  <2>1. CASE i = Len(gs)
    BY <1>1, <1>2, <1>3, <2>1
  <2>2. CASE i # Len(gs)
    <3>1. i \in 1..(Len(gs) - 1)
      BY <1>1, <2>2
    <3> QED BY <1>1, <1>2, <1>3, <2>2, <3>1
  <2> QED BY <2>1, <2>2
<1>5. Len(Append(Front(gs), h)) = Len(gs)
  BY <1>1, <1>2, <1>3
<1> QED BY <1>3, <1>4, <1>5

\* The graph below it on top.
LEMMA TopDropped ==
  ASSUME NEW S, NEW gs \in Seq(S), Len(gs) > 1, NEW h \in S
  PROVE  /\ Append(Front(Front(gs)), h) \in Seq(S)
         /\ Len(Append(Front(Front(gs)), h)) = Len(gs) - 1
         /\ \A i \in 1..(Len(gs) - 1) :
              Append(Front(Front(gs)), h)[i] = IF i = Len(gs) - 1 THEN h ELSE gs[i]
<1>1. Len(gs) \in Nat
  BY LenProperties
<1>2. /\ Front(gs) \in Seq(S) /\ Len(Front(gs)) = Len(gs) - 1
      /\ \A i \in 1..(Len(gs) - 1) : Front(gs)[i] = gs[i]
  BY <1>1, FrontIs
<1> QED BY <1>1, <1>2, TopReplaced

\* The graph that is worked on and the one below it.
LEMMA TopIs ==
  ASSUME Shape
  PROVE  /\ Len(graphs) \in Nat
         /\ g = graphs[Len(graphs)]
         /\ \A i \in 1..Len(graphs) : graphs[i] \in Graph
         /\ level = Len(graphs) - 1
BY ElementOfSeq, LenProperties DEF Shape, g, Last, level

-----------------------------------------------------------------------------
(* What happens to the graphs.                                             *)

\* The assignments to the fields of a graph.
LEMMA FieldsOf ==
  ASSUME NEW h \in Graph
  PROVE  /\ \A x \in Nat : [h EXCEPT !.gID = x] =
              [n |-> h.n, held |-> h.held, gID |-> x, ondisk |-> h.ondisk]
         /\ \A x \in BOOLEAN : [h EXCEPT !.ondisk = x] =
              [n |-> h.n, held |-> h.held, gID |-> h.gID, ondisk |-> x]
         /\ \A F : Allocated(h, F) =
              [n |-> h.n, held |-> h.held \union F, gID |-> h.gID, ondisk |-> h.ondisk]
         /\ \A F : Freed(h, F) =
              [n |-> h.n, held |-> h.held \ F, gID |-> h.gID, ondisk |-> h.ondisk]
<1>1. h = [n |-> h.n, held |-> h.held, gID |-> h.gID, ondisk |-> h.ondisk]
  BY DEF Graph
<1>2. \A x \in Nat : [h EXCEPT !.gID = x] =
              [n |-> h.n, held |-> h.held, gID |-> x, ondisk |-> h.ondisk]
  BY <1>1
<1>3. \A x \in BOOLEAN : [h EXCEPT !.ondisk = x] =
              [n |-> h.n, held |-> h.held, gID |-> h.gID, ondisk |-> x]
  BY <1>1
<1>4. \A F : Allocated(h, F) =
              [n |-> h.n, held |-> h.held \union F, gID |-> h.gID, ondisk |-> h.ondisk]
  BY <1>1 DEF Allocated
<1>5. \A F : Freed(h, F) =
              [n |-> h.n, held |-> h.held \ F, gID |-> h.gID, ondisk |-> h.ondisk]
  BY <1>1 DEF Freed
<1> QED BY <1>2, <1>3, <1>4, <1>5

LEMMA ReadFields ==
  ASSUME NEW h \in Graph
  PROVE  [h EXCEPT !.gID = 0, !.ondisk = FALSE] =
           [n |-> h.n, held |-> h.held, gID |-> 0, ondisk |-> FALSE]
<1> DEFINE k == [h EXCEPT !.gID = 0]
<1>1. [h EXCEPT !.gID = 0, !.ondisk = FALSE] = [k EXCEPT !.ondisk = FALSE]
  OBVIOUS
<1>2. k = [n |-> h.n, held |-> h.held, gID |-> 0, ondisk |-> h.ondisk]
  BY FieldsOf
<1> HIDE DEF k
<1>3. k \in Graph
  BY <1>2 DEF Graph
<1>4. [k EXCEPT !.ondisk = FALSE] =
        [n |-> k.n, held |-> k.held, gID |-> k.gID, ondisk |-> FALSE]
  BY <1>3, FieldsOf
<1> QED BY <1>1, <1>2, <1>4

\* graph_WriteToDisk: the graph is in memory or on the disk, and has a file only there.
LEMMA WritingIsSafe ==
  ASSUME NEW h \in Graph, gID \in Nat \ {0}, h.gID < gID, ~h.ondisk, "graph" \in h.held,
         h.gID > 0 => h.gID \notin files, NEW w \in Written(h)
  PROVE  /\ w.h \in Graph /\ w.h.held \subseteq h.held
         /\ w.next \in Nat \ {0} /\ w.next >= gID /\ w.h.gID < w.next
         /\ w.h.gID \in {h.gID, gID}
         /\ w.h.ondisk => w.h.gID = gID
         /\ "graph" \in w.h.held <=> ~w.h.ondisk
         /\ w.files = files \union (IF w.h.ondisk THEN {w.h.gID} ELSE {})
<1>1. files \ (IF h.gID > 0 THEN {h.gID} ELSE {}) = files
  OBVIOUS
<1>2. CASE optype \notin OnDisk \/ h.n < SpillSize
  BY <1>2 DEF Written, Graph
<1>3. CASE ~(optype \notin OnDisk \/ h.n < SpillSize)
  <2> DEFINE numbered == [h EXCEPT !.gID = gID]
             freed    == Freed(numbered, {"graph"})
             opened   == [n |-> h.n, held |-> h.held, gID |-> gID, ondisk |-> FALSE]
             stored   == [n |-> h.n, held |-> h.held \ {"graph"}, gID |-> gID, ondisk |-> TRUE]
  <2>1. w \in {[h |-> numbered, next |-> gID + 1, files |-> files],
               [h |-> [numbered EXCEPT !.ondisk = FALSE], next |-> gID + 1, files |-> files],
               [h |-> [freed EXCEPT !.ondisk = TRUE], next |-> gID + 1,
                files |-> files \union {gID}]}
    BY <1>1, <1>3 DEF Written
  <2>2. numbered = opened /\ numbered \in Graph
    BY FieldsOf DEF Graph
  <2> HIDE DEF numbered
  <2>3. [numbered EXCEPT !.ondisk = FALSE] = opened
    BY <2>2, FieldsOf
  <2>4. freed = [n |-> h.n, held |-> h.held \ {"graph"}, gID |-> gID, ondisk |-> FALSE]
    <3>1. freed = [n |-> numbered.n, held |-> numbered.held \ {"graph"}, gID |-> numbered.gID,
                   ondisk |-> numbered.ondisk]
      BY <2>2, FieldsOf, ZenonT(60)
    <3>2. numbered.n = h.n /\ numbered.held = h.held /\ numbered.gID = gID
          /\ numbered.ondisk = FALSE
      BY <2>2
    <3> QED BY <3>1, <3>2
  <2> HIDE DEF freed
  <2>5. freed \in Graph
    BY <2>4 DEF Graph
  <2>6. [freed EXCEPT !.ondisk = TRUE] = stored
    BY <2>4, <2>5, FieldsOf
  <2>7. opened \in Graph /\ stored \in Graph
    BY DEF Graph
  <2>8. w \in {[h |-> opened, next |-> gID + 1, files |-> files],
               [h |-> stored, next |-> gID + 1, files |-> files \union {gID}]}
    BY <2>1, <2>2, <2>3, <2>6
  <2>9. CASE w = [h |-> opened, next |-> gID + 1, files |-> files]
    <3>1. w.h = opened /\ w.next = gID + 1 /\ w.files = files
      BY <2>9
    <3>2. /\ opened.held = h.held /\ opened.gID = gID /\ opened.ondisk = FALSE
      OBVIOUS
    <3> QED BY <2>7, <3>1, <3>2
  <2>10. CASE w = [h |-> stored, next |-> gID + 1, files |-> files \union {gID}]
    <3>1. w.h = stored /\ w.next = gID + 1 /\ w.files = files \union {gID}
      BY <2>10
    <3>2. /\ stored.held = h.held \ {"graph"} /\ stored.gID = gID /\ stored.ondisk = TRUE
      OBVIOUS
    <3> QED BY <2>7, <3>1, <3>2
  <2> QED BY <2>8, <2>9, <2>10
<1> QED BY <1>2, <1>3

\* graph_ReadFromDisk: the file goes when the graph is in memory again.
LEMMA ReadingIsSafe ==
  ASSUME NEW h \in Graph, NEW r \in Read(h), "graph" \in h.held <=> ~h.ondisk
  PROVE  /\ r.h \in Graph /\ r.exit \in BOOLEAN
         /\ r.h.gID \in {0, h.gID}
         /\ r.h.held \subseteq h.held \union {"graph"}
         /\ r.h.ondisk => h.ondisk /\ r.h.gID = h.gID
         /\ ~r.exit => ("graph" \in r.h.held <=> ~r.h.ondisk)
         /\ r.files = IF h.ondisk /\ ~r.h.ondisk THEN files \ {h.gID} ELSE files
<1>1. CASE ~h.ondisk
  <2>1. r = [h |-> h, files |-> files, exit |-> FALSE]
    BY <1>1 DEF Read
  <2>2. r.h = h /\ r.files = files /\ r.exit = FALSE
    BY <2>1
  <2> QED BY <1>1, <2>2
<1>2. CASE h.ondisk
  <2> DEFINE filled == Allocated(h, {"graph"})
             short  == [n |-> h.n, held |-> h.held, gID |-> h.gID, ondisk |-> FALSE]
             back   == [n |-> h.n, held |-> h.held \union {"graph"}, gID |-> 0, ondisk |-> FALSE]
  <2>1. r \in {[h |-> h, files |-> files, exit |-> FALSE],
               [h |-> [h EXCEPT !.ondisk = FALSE], files |-> files \ {h.gID}, exit |-> TRUE],
               [h |-> [filled EXCEPT !.gID = 0, !.ondisk = FALSE], files |-> files \ {h.gID},
                exit |-> FALSE]}
    BY <1>2 DEF Read, FileOf
  <2>2. [h EXCEPT !.ondisk = FALSE] = short
    BY FieldsOf
  <2>3. filled = [n |-> h.n, held |-> h.held \union {"graph"}, gID |-> h.gID, ondisk |-> h.ondisk]
    BY FieldsOf
  <2> HIDE DEF filled
  <2>4. filled \in Graph
    BY <2>3 DEF Graph, Fields
  <2>5. [filled EXCEPT !.gID = 0, !.ondisk = FALSE] = back
    BY <2>3, <2>4, ReadFields
  <2>6. short \in Graph /\ back \in Graph
    BY DEF Graph, Fields
  <2>7. r \in {[h |-> h, files |-> files, exit |-> FALSE],
               [h |-> short, files |-> files \ {h.gID}, exit |-> TRUE],
               [h |-> back, files |-> files \ {h.gID}, exit |-> FALSE]}
    BY <2>1, <2>2, <2>5
  <2>8. CASE r = [h |-> h, files |-> files, exit |-> FALSE]
    BY <1>2, <2>8
  <2>9. CASE r = [h |-> short, files |-> files \ {h.gID}, exit |-> TRUE]
    BY <1>2, <2>6, <2>9
  <2>10. CASE r = [h |-> back, files |-> files \ {h.gID}, exit |-> FALSE]
    BY <1>2, <2>6, <2>10
  <2> QED BY <2>7, <2>8, <2>9, <2>10
<1> QED BY <1>1, <1>2

-----------------------------------------------------------------------------
(* Every step keeps the invariant.                                         *)

\* The graphs stay where they are.
LEMMA SamePlaces ==
  ASSUME Shape, Numbered, files = Stored, graphs' \in Seq(Graph), Len(graphs') = Len(graphs),
         \A i \in 1..Len(graphs) : /\ graphs'[i].gID = graphs[i].gID
                                   /\ graphs'[i].ondisk = graphs[i].ondisk,
         gID' = gID, files' = files
  PROVE  Shape' /\ Numbered' /\ files' = Stored'
<1>1. Shape'
  BY DEF Shape
<1>2. Numbered'
  BY DEF Numbered
<1>3. Stored' = Stored
  BY DEF Stored
<1> QED BY <1>1, <1>2, <1>3

\* The initial states.
LEMMA InitInv == Init => IInv
<1> SUFFICES ASSUME Init PROVE IInv
  OBVIOUS
<1> DEFINE h == InitGraph(size, {"graph"} \union (IF Ordering THEN {"where"} ELSE {}))
<1>1. /\ h \in Graph /\ ~h.ondisk /\ h.gID = 0 /\ "graph" \in h.held
      /\ h.held \intersect {"params", "pwgts"} = {} /\ (optype # "ometis" => "where" \notin h.held)
  BY CoarserAssumption DEF Init, InitGraph, Graph, Fields, Size, Ordering
<1>2. graphs = <<h>> /\ pc = "descend" /\ gID = 1 /\ files = {} /\ lost = {}
  BY DEF Init
<1> HIDE DEF h
<1>3. graphs \in Seq(Graph) /\ Len(graphs) = 1 /\ graphs[1] = h
  BY <1>1, <1>2
<1>4. Stored = {}
  BY <1>1, <1>3 DEF Stored
<1> QED BY <1>1, <1>2, <1>3, <1>4 DEF IInv, Shape, Numbered, Waiting, InOnePlace, WorkedOn, Running

\* Nothing is dropped where nothing is held.
LEMMA NothingOverwritten ==
  ASSUME NEW h, NEW F, h.held \intersect F = {}
  PROVE  Overwritten(h, F) = {}
BY DEF Overwritten

\* The graph that is worked on is edited, and stays in memory.
LEMMA TopKept ==
  ASSUME IInv, pc \in Running, NEW h \in Graph, h.gID = g.gID, h.ondisk = g.ondisk,
         graphs' = Top(h), gID' = gID, files' = files
  PROVE  /\ Shape' /\ Numbered' /\ files' = Stored' /\ Waiting'
         /\ Len(graphs') = Len(graphs) /\ graphs'[Len(graphs)] = h /\ ~h.ondisk
         /\ "graph" \in h.held => InOnePlace'
<1>1. g = graphs[Len(graphs)] /\ Len(graphs) \in Nat /\ Len(graphs) > 0
  BY TopIs DEF IInv, Shape
<1>2. /\ graphs' \in Seq(Graph) /\ Len(graphs') = Len(graphs)
      /\ \A i \in 1..Len(graphs) : graphs'[i] = IF i = Len(graphs) THEN h ELSE graphs[i]
  BY <1>1, TopReplaced DEF IInv, Shape, Top
<1>3. \A i \in 1..Len(graphs) : /\ graphs'[i].gID = graphs[i].gID
                                /\ graphs'[i].ondisk = graphs[i].ondisk
  BY <1>1, <1>2
<1>4. Shape' /\ Numbered' /\ files' = Stored'
  BY <1>2, <1>3, SamePlaces DEF IInv
<1>5. Waiting'
  <2> SUFFICES ASSUME NEW i \in 1..Len(graphs), i < Len(graphs)
               PROVE  graphs'[i].held \intersect {"where", "params", "pwgts"} = {}
    BY <1>2 DEF Waiting
  <2>1. graphs'[i] = graphs[i]
    BY <1>1, <1>2
  <2> QED BY <2>1 DEF IInv, Waiting
<1>6. graphs'[Len(graphs)] = h /\ ~h.ondisk
  BY <1>1, <1>2 DEF IInv, WorkedOn
<1>7. ASSUME "graph" \in h.held PROVE InOnePlace'
  <2> SUFFICES ASSUME NEW i \in 1..Len(graphs)
               PROVE  "graph" \in graphs'[i].held <=> ~graphs'[i].ondisk
    BY <1>2 DEF InOnePlace
  <2>1. CASE i = Len(graphs)
    BY <1>6, <1>7, <2>1
  <2>2. CASE i # Len(graphs)
    <3>1. graphs'[i] = graphs[i]
      BY <1>2, <2>2
    <3> QED BY <3>1 DEF IInv, InOnePlace
  <2> QED BY <2>1, <2>2
<1> QED BY <1>2, <1>4, <1>5, <1>6, <1>7

LEMMA StartKeeps == ASSUME IInv, Start PROVE IInv'
<1> DEFINE old == IF Ordering THEN Freed(g, {"where"}) ELSE g
           h   == Allocated(old, {"setup", "where"})
<1>1. /\ pc = "descend" /\ pc' = "place" /\ graphs' = Top(h)
      /\ lost' = lost \union Overwritten(old, {"where"})
      /\ UNCHANGED <<optype, gID, files>>
  BY DEF Start
<1>2. g \in Graph /\ g = graphs[Len(graphs)] /\ Len(graphs) \in Nat /\ Len(graphs) > 0
  BY TopIs DEF IInv, Shape
<1>3. Freed(g, {"where"}) = [n |-> g.n, held |-> g.held \ {"where"}, gID |-> g.gID,
                             ondisk |-> g.ondisk]
  BY <1>2, FieldsOf
<1>4. Freed(g, {"where"}) \in Graph
  BY <1>2, <1>3 DEF Graph
<1>5. /\ old \in Graph /\ old.gID = g.gID /\ old.ondisk = g.ondisk /\ old.held \subseteq g.held
      /\ "where" \notin old.held /\ ("graph" \in old.held <=> "graph" \in g.held)
  BY <1>1, <1>2, <1>3, <1>4 DEF IInv, WorkedOn, Ordering
<1> HIDE DEF old
<1>6. h = [n |-> old.n, held |-> old.held \union {"setup", "where"}, gID |-> old.gID,
           ondisk |-> old.ondisk]
  BY <1>5, FieldsOf
<1> HIDE DEF h
<1>7. /\ h.held = old.held \union {"setup", "where"} /\ h.gID = g.gID /\ h.ondisk = g.ondisk
      /\ h \in Graph
  BY <1>5, <1>6 DEF Graph, Fields
<1>8. ~g.ondisk /\ "graph" \in g.held /\ g.held \intersect {"params", "pwgts"} = {}
  BY <1>1, <1>2 DEF IInv, InOnePlace, WorkedOn, Running
<1>9. pc \in Running /\ "graph" \in h.held /\ h.held \intersect {"params", "pwgts"} = {}
  BY <1>1, <1>5, <1>7, <1>8 DEF Running
<1>10. /\ Shape' /\ Numbered' /\ files' = Stored' /\ Waiting' /\ InOnePlace'
       /\ Len(graphs') = Len(graphs) /\ graphs'[Len(graphs)] = h /\ ~h.ondisk
  BY <1>1, <1>7, <1>9, TopKept
<1>11. WorkedOn'
  BY <1>1, <1>9, <1>10 DEF WorkedOn, Running
<1>12. lost' = {}
  BY <1>1, <1>5, NothingOverwritten DEF IInv
<1> QED BY <1>1, <1>10, <1>11, <1>12 DEF IInv, Running

\* The partition of the coarsest graph leaves the graphs alone.
LEMMA PlaceKeeps == ASSUME IInv, UNCHANGED <<pc, optype, graphs, gID, files, lost>> PROVE IInv'
BY DEF IInv, Shape, Numbered, Stored, Waiting, InOnePlace, WorkedOn

\* The params are allocated where none are held.
LEMMA ComputedIs ==
  ASSUME NEW h \in Graph, h.held \intersect {"params", "pwgts"} = {}, NEW keep
  PROVE  /\ Computed(h, keep).lost = keep
         /\ Computed(h, keep).h = [n |-> h.n, held |-> h.held \union {"params", "pwgts"},
                                   gID |-> h.gID, ondisk |-> h.ondisk]
         /\ Computed(h, keep).h \in Graph
<1>1. Computed(h, keep).lost = keep
  BY NothingOverwritten DEF Computed
<1>2. Computed(h, keep).h = Allocated(h, {"params", "pwgts"})
  BY DEF Computed
<1>3. Computed(h, keep).h = [n |-> h.n, held |-> h.held \union {"params", "pwgts"},
                             gID |-> h.gID, ondisk |-> h.ondisk]
  BY <1>2, FieldsOf
<1>4. Computed(h, keep).h \in Graph
  BY <1>3 DEF Graph, Fields
<1> QED BY <1>1, <1>3, <1>4

LEMMA PlacedKeeps == ASSUME IInv, Placed PROVE IInv'
<1> DEFINE shown(progress) ==
             IF progress /\ ~Ordering
             THEN Freed(Computed(g, lost).h, {"params", "pwgts"}) ELSE g
           done(progress) ==
             IF level = 0 THEN Computed(shown(progress), lost)
             ELSE [h |-> shown(progress), lost |-> lost]
<1>1. PICK progress \in BOOLEAN : graphs' = Top(done(progress).h) /\ lost' = done(progress).lost
  BY DEF Placed
<1>2. pc = "place" /\ pc' = "ascend" /\ UNCHANGED <<optype, gID, files>>
  BY DEF Placed
<1>3. g \in Graph /\ g = graphs[Len(graphs)] /\ Len(graphs) \in Nat /\ Len(graphs) > 0
  BY TopIs DEF IInv, Shape
<1>4. "graph" \in g.held /\ g.held \intersect {"params", "pwgts"} = {}
  BY <1>2, <1>3 DEF IInv, InOnePlace, WorkedOn, Running
<1> DEFINE first == Computed(g, lost).h
           freed == Freed(first, {"params", "pwgts"})
<1>5. first = [n |-> g.n, held |-> g.held \union {"params", "pwgts"}, gID |-> g.gID,
               ondisk |-> g.ondisk] /\ first \in Graph
  BY <1>3, <1>4, ComputedIs
<1> HIDE DEF first
<1>6. freed = [n |-> first.n, held |-> first.held \ {"params", "pwgts"}, gID |-> first.gID,
               ondisk |-> first.ondisk]
  BY <1>5, FieldsOf, ZenonT(60)
<1> HIDE DEF freed
<1>7. /\ freed \in Graph /\ freed.held \intersect {"params", "pwgts"} = {}
      /\ "graph" \in freed.held /\ freed.gID = g.gID /\ freed.ondisk = g.ondisk
  BY <1>4, <1>5, <1>6 DEF Graph
<1> DEFINE sh == shown(progress)
<1>8. sh \in {freed, g}
  BY DEF freed, first
<1>9. /\ sh \in Graph /\ sh.held \intersect {"params", "pwgts"} = {}
      /\ "graph" \in sh.held /\ sh.gID = g.gID /\ sh.ondisk = g.ondisk
  BY <1>3, <1>4, <1>7, <1>8
<1> DEFINE h == done(progress).h
<1> HIDE DEF sh
<1>10. /\ Computed(sh, lost).lost = lost
       /\ Computed(sh, lost).h = [n |-> sh.n, held |-> sh.held \union {"params", "pwgts"},
                                  gID |-> sh.gID, ondisk |-> sh.ondisk]
       /\ Computed(sh, lost).h \in Graph
  BY <1>9, ComputedIs
<1>11. done(progress).lost = lost
  BY <1>10 DEF sh
<1>12. h \in {Computed(sh, lost).h, sh}
  BY DEF sh
<1> HIDE DEF h
<1>13. h \in Graph /\ h.gID = g.gID /\ h.ondisk = g.ondisk /\ "graph" \in h.held
  BY <1>9, <1>10, <1>12
<1>14. /\ Shape' /\ Numbered' /\ files' = Stored' /\ Waiting' /\ InOnePlace'
       /\ Len(graphs') = Len(graphs) /\ graphs'[Len(graphs)] = h /\ ~h.ondisk
  <2>1. pc \in Running /\ graphs' = Top(h)
    BY <1>1, <1>2 DEF Running, h
  <2> QED BY <1>2, <1>13, <2>1, TopKept
<1>15. WorkedOn'
  BY <1>2, <1>14 DEF WorkedOn
<1>16. lost' = {}
  BY <1>1, <1>11 DEF IInv
<1> QED BY <1>2, <1>14, <1>15, <1>16 DEF IInv, Running

\* There is one graph, and it is replaced.
LEMMA OnlyGraph ==
  ASSUME IInv, level = 0, NEW h \in Graph, graphs' = <<h>> PROVE graphs' = Top(h) /\ Len(graphs) = 1
<1>1. Len(graphs) = 1
  BY TopIs DEF IInv
<1>2. /\ Top(h) \in Seq(Graph) /\ Len(Top(h)) = 1 /\ Top(h)[1] = h
  <2>1. /\ Append(Front(graphs), h) \in Seq(Graph)
        /\ Len(Append(Front(graphs), h)) = Len(graphs)
        /\ \A i \in 1..Len(graphs) :
             Append(Front(graphs), h)[i] = IF i = Len(graphs) THEN h ELSE graphs[i]
    BY TopReplaced DEF IInv, Shape
  <2> QED BY <1>1, <2>1 DEF Top
<1>3. <<h>> \in Seq(Graph) /\ Len(<<h>>) = 1 /\ <<h>>[1] = h
  OBVIOUS
<1> QED BY <1>1, <1>2, <1>3, SeqEqual

LEMMA AgainKeeps == ASSUME IInv, Again PROVE IInv'
<1> DEFINE clean == Freed(g, {"match", "where", "params", "pwgts"})
           h     == Allocated(clean, {"where"})
<1>1. /\ pc = "ascend" /\ level = 0 /\ optype = "ometis" /\ pc' = "descend" /\ graphs' = <<h>>
      /\ lost' = lost \union Overwritten(clean, {"where"})
      /\ UNCHANGED <<optype, gID, files>>
  BY DEF Again, Ordering
<1>2. g \in Graph /\ g = graphs[Len(graphs)] /\ Len(graphs) \in Nat /\ Len(graphs) > 0
  BY TopIs DEF IInv, Shape
<1>3. "graph" \in g.held
  BY <1>1, <1>2 DEF IInv, InOnePlace, WorkedOn, Running
<1>4. clean = [n |-> g.n, held |-> g.held \ {"match", "where", "params", "pwgts"},
               gID |-> g.gID, ondisk |-> g.ondisk]
  BY <1>2, FieldsOf
<1> HIDE DEF clean
<1>5. /\ clean \in Graph /\ clean.held \intersect {"where", "params", "pwgts"} = {}
      /\ "graph" \in clean.held /\ clean.gID = g.gID /\ clean.ondisk = g.ondisk
  BY <1>2, <1>3, <1>4 DEF Graph
<1>6. h = [n |-> clean.n, held |-> clean.held \union {"where"}, gID |-> clean.gID,
           ondisk |-> clean.ondisk]
  BY <1>5, FieldsOf
<1> HIDE DEF h
<1>7. /\ h \in Graph /\ h.held \intersect {"params", "pwgts"} = {}
      /\ "graph" \in h.held /\ h.gID = g.gID /\ h.ondisk = g.ondisk
  BY <1>5, <1>6 DEF Graph, Fields
<1>8. /\ Shape' /\ Numbered' /\ files' = Stored' /\ Waiting' /\ InOnePlace'
      /\ Len(graphs') = Len(graphs) /\ graphs'[Len(graphs)] = h /\ ~h.ondisk
  <2>1. pc \in Running /\ graphs' = Top(h)
    BY <1>1, <1>7, OnlyGraph DEF Running
  <2> QED BY <1>1, <1>7, <2>1, TopKept
<1>9. WorkedOn'
  BY <1>1, <1>7, <1>8 DEF WorkedOn
<1>10. lost' = {}
  BY <1>1, <1>5, NothingOverwritten DEF IInv
<1> QED BY <1>1, <1>8, <1>9, <1>10 DEF IInv, Running

LEMMA ReturnKeeps == ASSUME IInv, Return PROVE IInv'
<1> DEFINE h == Freed(g, Fields)
<1>1. /\ pc = "ascend" /\ level = 0 /\ pc' = "done" /\ graphs' = <<h>>
      /\ UNCHANGED <<optype, gID, files, lost>>
  BY DEF Return
<1>2. g \in Graph
  BY TopIs DEF IInv, Shape
<1>3. h = [n |-> g.n, held |-> g.held \ Fields, gID |-> g.gID, ondisk |-> g.ondisk]
  BY <1>2, FieldsOf
<1> HIDE DEF h
<1>4. h \in Graph /\ h.gID = g.gID /\ h.ondisk = g.ondisk /\ "graph" \notin h.held
  BY <1>2, <1>3 DEF Graph, Fields
<1>5. Len(graphs) = 1 /\ graphs' = Top(h) /\ pc \in Running
  BY <1>1, <1>4, OnlyGraph DEF Running
<1>6. /\ Shape' /\ Numbered' /\ files' = Stored' /\ Waiting'
      /\ Len(graphs') = Len(graphs) /\ graphs'[Len(graphs)] = h /\ ~h.ondisk
  BY <1>1, <1>4, <1>5, TopKept
<1>7. InOnePlace' /\ WorkedOn'
  BY <1>1, <1>4, <1>5, <1>6 DEF InOnePlace, WorkedOn, Running
<1> QED BY <1>1, <1>6, <1>7 DEF IInv

\* The next coarser graph, and the one that waits for it to disk.
LEMMA CoarsenKeeps == ASSUME IInv, Coarsen PROVE IInv'
<1> DEFINE held == Allocated(g, {"setup", "match"})
           h    == Freed(held, {"where"})
<1>1. PICK n \in CoarserSizes[g.n], w \in Written(h) :
        /\ graphs' = Append(Top(w.h),
                            InitGraph(n, {"graph"} \union (IF Ordering THEN {"where"} ELSE {})))
        /\ gID' = w.next
        /\ files' = w.files
  BY DEF Coarsen
<1> DEFINE k == InitGraph(n, {"graph"} \union (IF Ordering THEN {"where"} ELSE {}))
           L == Len(graphs)
<1>2. pc = "descend" /\ UNCHANGED <<pc, optype, lost>>
  BY DEF Coarsen
<1>3. g \in Graph /\ g = graphs[L] /\ L \in Nat /\ L > 0
  BY TopIs DEF IInv, Shape
<1>4. "graph" \in g.held /\ ~g.ondisk /\ g.held \intersect {"params", "pwgts"} = {} /\ g.gID < gID
  BY <1>2, <1>3 DEF IInv, InOnePlace, WorkedOn, Running, Numbered
<1>5. g.gID > 0 => g.gID \notin files
  BY <1>3, <1>4 DEF IInv, Numbered, Stored
<1>6. held = [n |-> g.n, held |-> g.held \union {"setup", "match"}, gID |-> g.gID,
              ondisk |-> g.ondisk]
  BY <1>3, FieldsOf
<1> HIDE DEF held
<1>7. held \in Graph
  BY <1>3, <1>6 DEF Graph, Fields
<1>8. h = [n |-> held.n, held |-> held.held \ {"where"}, gID |-> held.gID, ondisk |-> held.ondisk]
  BY <1>7, FieldsOf
<1> HIDE DEF h
<1>9. /\ h \in Graph /\ h.gID = g.gID /\ ~h.ondisk /\ "graph" \in h.held
      /\ h.held \intersect {"where", "params", "pwgts"} = {}
  BY <1>4, <1>6, <1>7, <1>8 DEF Graph
<1>10. /\ w.h \in Graph /\ w.h.held \subseteq h.held
       /\ w.next \in Nat \ {0} /\ w.next >= gID /\ w.h.gID < w.next
       /\ w.h.gID \in {h.gID, gID}
       /\ w.h.ondisk => w.h.gID = gID
       /\ "graph" \in w.h.held <=> ~w.h.ondisk
       /\ w.files = files \union (IF w.h.ondisk THEN {w.h.gID} ELSE {})
  <2>1. gID \in Nat \ {0} /\ h.gID < gID /\ (h.gID > 0 => h.gID \notin files)
    BY <1>4, <1>5, <1>9 DEF IInv, Shape
  <2> QED BY <1>9, <2>1, WritingIsSafe
<1>11. /\ k \in Graph /\ k.gID = 0 /\ ~k.ondisk /\ "graph" \in k.held
       /\ k.held \intersect {"params", "pwgts"} = {} /\ (optype # "ometis" => "where" \notin k.held)
  <2>1. n \in Size
    BY <1>3, CoarserAssumption DEF Graph, Size
  <2> QED BY <2>1 DEF InitGraph, Graph, Fields, Ordering
<1> HIDE DEF k
<1>12. /\ Top(w.h) \in Seq(Graph) /\ Len(Top(w.h)) = L
       /\ \A i \in 1..L : Top(w.h)[i] = IF i = L THEN w.h ELSE graphs[i]
  BY <1>3, <1>10, TopReplaced DEF IInv, Shape, Top
<1>13. graphs' = Append(Top(w.h), k)
  BY <1>1 DEF k
<1>14. /\ graphs' \in Seq(Graph) /\ Len(graphs') = L + 1
       /\ \A i \in 1..L : graphs'[i] = Top(w.h)[i]
       /\ graphs'[L + 1] = k
  BY <1>11, <1>12, <1>13, AppendProperties
<1>15. graphs'[L] = w.h /\ \A i \in 1..(L - 1) : graphs'[i] = graphs[i]
  BY <1>3, <1>12, <1>14
<1>16. \A i \in 1..(L + 1) : i \in 1..(L - 1) \/ i = L \/ i = L + 1
  BY <1>3
<1>17. \A i \in 1..(L - 1) : i \in 1..L /\ graphs[i] \in Graph
  BY <1>3, TopIs DEF IInv
<1> HIDE DEF L
<1>18. Shape'
  BY <1>1, <1>3, <1>10, <1>14 DEF Shape
<1>19. Numbered'
  <2>1. gID \in Nat /\ w.next \in Nat /\ w.next >= gID /\ g.gID \in Nat /\ g.gID < gID
        /\ w.h.gID \in {g.gID, gID} /\ w.h.gID < w.next /\ (w.h.ondisk => w.h.gID > 0)
    BY <1>3, <1>4, <1>9, <1>10 DEF IInv, Shape, Graph
  <2>2. \A i \in 1..(L - 1) : /\ graphs[i].gID \in Nat /\ graphs[i].gID < gID
                              /\ graphs[i].ondisk => graphs[i].gID > 0
                              /\ graphs[i].gID > 0 => graphs[i].gID # g.gID
    <3> SUFFICES ASSUME NEW i \in 1..(L - 1)
                 PROVE  /\ graphs[i].gID \in Nat /\ graphs[i].gID < gID
                        /\ graphs[i].ondisk => graphs[i].gID > 0
                        /\ graphs[i].gID > 0 => graphs[i].gID # g.gID
      OBVIOUS
    <3>1. i \in 1..L /\ L \in 1..L /\ i # L
      BY <1>3
    <3> QED BY <1>3, <1>17, <3>1 DEF IInv, Numbered, L, Graph
  <2>3. \A i \in 1..(L + 1) : graphs'[i].gID < w.next /\ (graphs'[i].ondisk => graphs'[i].gID > 0)
    BY <1>11, <1>14, <1>15, <1>16, <2>1, <2>2
  <2>4. ASSUME NEW i \in 1..(L + 1), NEW j \in 1..(L + 1), graphs'[i].gID > 0,
               graphs'[i].gID = graphs'[j].gID
        PROVE  i = j
    <3>1. i # L + 1 /\ j # L + 1
      BY <1>11, <1>14, <2>4
    <3>2. CASE i = L /\ j = L
      BY <3>2
    <3>3. CASE i = L /\ j \in 1..(L - 1)
      BY <1>15, <2>1, <2>2, <2>4, <3>3
    <3>4. CASE i \in 1..(L - 1) /\ j = L
      BY <1>15, <2>1, <2>2, <2>4, <3>4
    <3>5. CASE i \in 1..(L - 1) /\ j \in 1..(L - 1)
      <4>1. i \in 1..L /\ j \in 1..L /\ graphs'[i] = graphs[i] /\ graphs'[j] = graphs[j]
        BY <1>15, <1>17, <3>5
      <4> QED BY <2>4, <4>1 DEF IInv, Numbered, L
    <3> QED BY <1>16, <3>1, <3>2, <3>3, <3>4, <3>5
  <2> QED BY <1>1, <1>14, <2>3, <2>4 DEF Numbered
<1>20. files' = Stored'
  <2>1. Stored' = {graphs'[i].gID : i \in {j \in 1..(L + 1) : graphs'[j].ondisk}}
    BY <1>14 DEF Stored
  <2>2. ASSUME NEW x PROVE x \in Stored' <=> (x \in Stored \/ (w.h.ondisk /\ x = w.h.gID))
    <3>1. ASSUME x \in Stored' PROVE x \in Stored \/ (w.h.ondisk /\ x = w.h.gID)
      <4>1. PICK i \in 1..(L + 1) : graphs'[i].ondisk /\ x = graphs'[i].gID
        BY <2>1, <3>1
      <4>2. i # L + 1
        BY <1>11, <1>14, <4>1
      <4>3. CASE i = L
        BY <1>15, <4>1, <4>3
      <4>4. CASE i \in 1..(L - 1)
        <5>1. i \in 1..Len(graphs) /\ graphs[i].ondisk /\ x = graphs[i].gID
          BY <1>15, <1>17, <4>1, <4>4 DEF L
        <5> QED BY <5>1 DEF Stored
      <4> QED BY <1>16, <4>2, <4>3, <4>4
    <3>2. ASSUME x \in Stored PROVE x \in Stored'
      <4>1. PICK i \in 1..L : graphs[i].ondisk /\ x = graphs[i].gID
        BY <3>2 DEF Stored, L
      <4>2. i # L /\ i \in 1..(L + 1)
        BY <1>3, <1>4, <4>1
      <4>3. i \in 1..(L - 1)
        BY <1>3, <4>1, <4>2
      <4> QED BY <1>15, <2>1, <4>1, <4>2, <4>3
    <3>3. ASSUME w.h.ondisk, x = w.h.gID PROVE x \in Stored'
      <4>1. L \in 1..(L + 1)
        BY <1>3
      <4> QED BY <1>15, <2>1, <3>3, <4>1
    <3> QED BY <3>1, <3>2, <3>3
  <2>3. files' = Stored \union (IF w.h.ondisk THEN {w.h.gID} ELSE {})
    BY <1>1, <1>10 DEF IInv
  <2> QED BY <2>2, <2>3
<1>21. Waiting'
  <2> SUFFICES ASSUME NEW i \in 1..(L + 1), i < L + 1
               PROVE  graphs'[i].held \intersect {"where", "params", "pwgts"} = {}
    BY <1>14 DEF Waiting
  <2>1. CASE i = L
    BY <1>9, <1>10, <1>15, <2>1
  <2>2. CASE i \in 1..(L - 1)
    <3>1. i \in 1..L /\ i < L /\ graphs'[i] = graphs[i]
      BY <1>3, <1>15, <1>17, <2>2
    <3> QED BY <3>1 DEF IInv, Waiting, L
  <2> QED BY <1>3, <1>16, <2>1, <2>2
<1>22. InOnePlace'
  <2> SUFFICES ASSUME NEW i \in 1..(L + 1)
               PROVE  "graph" \in graphs'[i].held <=> ~graphs'[i].ondisk
    BY <1>14 DEF InOnePlace
  <2>1. CASE i = L + 1
    BY <1>11, <1>14, <2>1
  <2>2. CASE i = L
    BY <1>10, <1>15, <2>2
  <2>3. CASE i \in 1..(L - 1)
    <3>1. i \in 1..L /\ graphs'[i] = graphs[i]
      BY <1>15, <1>17, <2>3
    <3> QED BY <1>2, <3>1 DEF IInv, InOnePlace, L, Running
  <2> QED BY <1>16, <2>1, <2>2, <2>3
<1>23. WorkedOn'
  BY <1>2, <1>11, <1>14 DEF WorkedOn
<1> QED BY <1>2, <1>18, <1>19, <1>20, <1>21, <1>22, <1>23 DEF IInv

\* The coarsest graph is freed, and the one below it has been read.
LEMMA TopFreed ==
  ASSUME IInv, pc = "ascend", level > 0, NEW r \in Read(Finer), NEW h \in Graph,
         h.gID = r.h.gID, h.ondisk = r.h.ondisk,
         graphs' = Append(Front(Front(graphs)), h), gID' = gID, files' = r.files
  PROVE  /\ Shape' /\ Numbered' /\ files' = Stored' /\ Waiting'
         /\ Len(graphs') = Len(graphs) - 1 /\ graphs'[Len(graphs')] = h
         /\ ("graph" \in h.held <=> ~h.ondisk) => InOnePlace'
<1> DEFINE L == Len(graphs) - 1
<1>1. /\ Len(graphs) \in Nat /\ L \in Nat /\ L > 0 /\ Finer = graphs[L]
      /\ \A i \in 1..(L + 1) : graphs[i] \in Graph
  BY TopIs DEF IInv, Finer
<1>2. /\ graphs' \in Seq(Graph) /\ Len(graphs') = L
      /\ \A i \in 1..L : graphs'[i] = IF i = L THEN h ELSE graphs[i]
  BY <1>1, TopDropped DEF IInv, Shape
<1>3. /\ \A i \in 1..(L - 1) : i \in 1..L /\ i # L /\ graphs'[i] = graphs[i]
      /\ \A i \in 1..L : i = L \/ i \in 1..(L - 1)
      /\ L \in 1..L /\ graphs'[L] = h
      /\ \A i \in 1..L : i \in 1..(L + 1) /\ i < L + 1
      /\ \A i \in 1..(L + 1) : i = L + 1 \/ i \in 1..L
  BY <1>1, <1>2
<1>4. /\ Len(graphs) = L + 1 /\ \A i \in 1..(L + 1) : /\ graphs[i].gID \in Nat
                                                     /\ graphs[i].ondisk \in BOOLEAN
  BY <1>1 DEF Graph
<1>5. ~graphs[L + 1].ondisk
  BY <1>4 DEF IInv, WorkedOn, Running
<1>6. /\ r.h.gID \in {0, graphs[L].gID} /\ (r.h.ondisk => graphs[L].ondisk /\ r.h.gID = graphs[L].gID)
      /\ r.files = IF graphs[L].ondisk /\ ~r.h.ondisk THEN files \ {graphs[L].gID} ELSE files
  <2>1. L \in 1..Len(graphs)
    BY <1>3, <1>4
  <2>2. Finer \in Graph /\ ("graph" \in Finer.held <=> ~Finer.ondisk)
    BY <1>1, <1>3, <2>1 DEF IInv, InOnePlace, Running
  <2>3. /\ r.h.gID \in {0, Finer.gID} /\ (r.h.ondisk => Finer.ondisk /\ r.h.gID = Finer.gID)
        /\ r.files = IF Finer.ondisk /\ ~r.h.ondisk THEN files \ {Finer.gID} ELSE files
    BY <2>2, ReadingIsSafe
  <2> QED BY <1>1, <2>3
<1> HIDE DEF L
<1>7. Shape'
  BY <1>1, <1>2 DEF Shape, IInv
<1>8. \A i, j \in 1..(L + 1) : graphs[i].gID > 0 /\ graphs[i].gID = graphs[j].gID => i = j
  BY <1>4 DEF IInv, Numbered
<1>9. \A i \in 1..(L + 1) : graphs[i].gID < gID /\ (graphs[i].ondisk => graphs[i].gID > 0)
  BY <1>4 DEF IInv, Numbered
<1>10. Numbered'
  <2>1. ASSUME NEW i \in 1..L
        PROVE  /\ graphs'[i].gID = 0 \/ graphs'[i].gID = graphs[i].gID
               /\ graphs'[i].ondisk => graphs[i].ondisk /\ graphs'[i].gID = graphs[i].gID
    <3>1. CASE i = L
      BY <1>3, <1>6, <3>1
    <3>2. CASE i # L
      <4>1. graphs'[i] = graphs[i]
        BY <1>3, <3>2
      <4> QED BY <4>1
    <3> QED BY <3>1, <3>2
  <2>2. ASSUME NEW i \in 1..L
        PROVE  graphs'[i].gID < gID /\ (graphs'[i].ondisk => graphs'[i].gID > 0)
    <3>1. i \in 1..(L + 1) /\ 0 < gID
      BY <1>3 DEF IInv, Shape
    <3>2. graphs[i].gID < gID /\ (graphs[i].ondisk => graphs[i].gID > 0)
      BY <1>9, <3>1
    <3>3. graphs'[i].gID < gID
      <4>1. CASE graphs'[i].gID = 0
        BY <3>1, <4>1
      <4>2. CASE graphs'[i].gID = graphs[i].gID
        BY <3>2, <4>2
      <4> QED BY <2>1, <4>1, <4>2
    <3>4. ASSUME graphs'[i].ondisk PROVE graphs'[i].gID > 0
      <4>1. graphs[i].ondisk /\ graphs'[i].gID = graphs[i].gID
        BY <2>1, <3>4
      <4> QED BY <3>2, <4>1
    <3> QED BY <3>3, <3>4
  <2>3. ASSUME NEW i \in 1..L, NEW j \in 1..L, graphs'[i].gID > 0,
               graphs'[i].gID = graphs'[j].gID
        PROVE  i = j
    <3>1. ~(0 > 0) /\ i \in 1..(L + 1) /\ j \in 1..(L + 1)
      BY <1>3
    <3>2. graphs'[i].gID = graphs[i].gID /\ graphs'[j].gID = graphs[j].gID
      <4>1. graphs'[i].gID # 0
        BY <2>3, <3>1, Zenon
      <4> QED BY <2>1, <2>3, <4>1
    <3> QED BY <1>8, <2>3, <3>1, <3>2
  <2> QED BY <1>2, <2>2, <2>3 DEF Numbered
<1>11. files' = Stored'
  <2>1. /\ Stored' = {graphs'[i].gID : i \in {j \in 1..L : graphs'[j].ondisk}}
        /\ files = {graphs[i].gID : i \in {j \in 1..(L + 1) : graphs[j].ondisk}}
    BY <1>2, <1>4 DEF Stored, IInv
  <2>2. ASSUME NEW x, x \in Stored' PROVE x \in files'
    <3>1. PICK i \in 1..L : graphs'[i].ondisk /\ x = graphs'[i].gID
      BY <2>1, <2>2
    <3>2. CASE i = L
      <4>1. r.h.ondisk /\ graphs[L].ondisk /\ x = graphs[L].gID
        BY <1>3, <1>6, <3>1, <3>2
      <4>2. files' = files
        BY <1>6, <4>1
      <4> QED BY <1>3, <2>1, <4>1, <4>2
    <3>3. CASE i \in 1..(L - 1)
      <4>1. graphs[i].ondisk /\ x = graphs[i].gID /\ i \in 1..(L + 1)
        BY <1>3, <3>1, <3>3
      <4>2. x \in files
        BY <2>1, <4>1
      <4>3. x # graphs[L].gID
        <5>1. i # L /\ L \in 1..(L + 1)
          BY <1>3, <3>3
        <5> QED BY <1>8, <1>9, <4>1, <5>1
      <4> QED BY <1>6, <4>2, <4>3
    <3> QED BY <1>3, <3>2, <3>3
  <2>3. ASSUME NEW x, x \in files' PROVE x \in Stored'
    <3>1. x \in files /\ (graphs[L].ondisk /\ ~r.h.ondisk => x # graphs[L].gID)
      BY <1>6, <2>3
    <3>2. PICK i \in 1..(L + 1) : graphs[i].ondisk /\ x = graphs[i].gID
      BY <2>1, <3>1
    <3>3. i # L + 1
      BY <1>5, <3>2
    <3>4. CASE i = L
      <4>1. r.h.ondisk /\ graphs'[L].ondisk /\ x = graphs'[L].gID
        BY <1>3, <1>6, <3>1, <3>2, <3>4
      <4> QED BY <1>3, <2>1, <4>1
    <3>5. CASE i \in 1..(L - 1)
      BY <1>3, <2>1, <3>2, <3>5
    <3> QED BY <1>3, <3>3, <3>4, <3>5
  <2> QED BY <2>2, <2>3
<1>12. Waiting'
  <2> SUFFICES ASSUME NEW i \in 1..L, i < L
               PROVE  graphs'[i].held \intersect {"where", "params", "pwgts"} = {}
    BY <1>2 DEF Waiting
  <2>1. i # L
    BY <1>1
  <2>2. i \in 1..(L + 1) /\ i < L + 1 /\ graphs'[i] = graphs[i]
    BY <1>3, <2>1
  <2> QED BY <1>4, <2>2 DEF IInv, Waiting
<1>13. ASSUME "graph" \in h.held <=> ~h.ondisk PROVE InOnePlace'
  <2> SUFFICES ASSUME NEW i \in 1..L
               PROVE  "graph" \in graphs'[i].held <=> ~graphs'[i].ondisk
    BY <1>2 DEF InOnePlace
  <2>1. CASE i = L
    BY <1>3, <1>13, <2>1
  <2>2. CASE i # L
    <3>1. i \in 1..(L + 1) /\ graphs'[i] = graphs[i]
      BY <1>3, <2>2
    <3> QED BY <1>4, <3>1 DEF IInv, InOnePlace, Running
  <2> QED BY <2>1, <2>2
<1> QED BY <1>2, <1>3, <1>4, <1>7, <1>10, <1>11, <1>12, <1>13 DEF L

LEMMA AscendKeeps == ASSUME IInv, Ascend PROVE IInv'
<1>1. PICK r \in Read(Finer) :
        /\ files' = r.files
        /\ IF r.exit
           THEN /\ pc' = "aborted"
                /\ graphs' = Append(Front(Front(graphs)), r.h)
                /\ UNCHANGED lost
           ELSE LET projected == Allocated(r.h, {"where"})
                    refined == Computed(projected, lost \union Overwritten(r.h, {"where"}))
                    kept == IF optype = "kmetis" /\ level > 1
                            THEN Freed(refined.h, {"pwgts"}) ELSE refined.h
                IN IF "graph" \in projected.held
                   THEN /\ graphs' = Append(Front(Front(graphs)), kept)
                        /\ lost' = refined.lost
                        /\ UNCHANGED pc
                   ELSE /\ graphs' = Append(Front(Front(graphs)), projected)
                        /\ pc' = "crashed"
                        /\ UNCHANGED lost
  BY DEF Ascend
<1> DEFINE projected == Allocated(r.h, {"where"})
           refined == Computed(projected, lost \union Overwritten(r.h, {"where"}))
           trimmed == Freed(refined.h, {"pwgts"})
           kept == IF optype = "kmetis" /\ level > 1 THEN trimmed ELSE refined.h
<1>2. pc = "ascend" /\ level > 0 /\ gID' = gID /\ optype' = optype
  BY DEF Ascend
<1>3. /\ Finer \in Graph /\ ("graph" \in Finer.held <=> ~Finer.ondisk)
      /\ Finer.held \intersect {"where", "params", "pwgts"} = {}
  <2>1. Len(graphs) - 1 \in 1..Len(graphs) /\ Len(graphs) - 1 < Len(graphs)
    BY <1>2, TopIs DEF IInv, Running
  <2>2. Finer \in Graph
    BY <2>1, TopIs DEF IInv, Finer
  <2> QED BY <1>2, <2>1, <2>2 DEF IInv, InOnePlace, Waiting, Running, Finer
<1>4. /\ r.h \in Graph /\ r.exit \in BOOLEAN /\ r.h.held \subseteq Finer.held \union {"graph"}
      /\ ~r.exit => ("graph" \in r.h.held <=> ~r.h.ondisk)
  BY <1>3, ReadingIsSafe
<1>5. r.h.held \intersect {"where", "params", "pwgts"} = {}
  BY <1>3, <1>4
<1>6. Overwritten(r.h, {"where"}) = {}
  BY <1>5, NothingOverwritten
<1>7. projected = [n |-> r.h.n, held |-> r.h.held \union {"where"}, gID |-> r.h.gID,
                   ondisk |-> r.h.ondisk]
  BY <1>4, FieldsOf
<1>8. r.exit \/ "graph" \in projected.held \/ "graph" \notin projected.held
  OBVIOUS
<1>9. CASE r.exit
  <2>1. pc' = "aborted" /\ graphs' = Append(Front(Front(graphs)), r.h) /\ lost' = lost /\ files' = r.files
    BY <1>1, <1>9
  <2>2. Shape' /\ Numbered' /\ files' = Stored' /\ Waiting'
    BY <1>2, <1>4, <2>1, TopFreed
  <2>3. InOnePlace' /\ WorkedOn'
    BY <2>1 DEF InOnePlace, WorkedOn, Running
  <2> QED BY <2>1, <2>2, <2>3 DEF IInv, Running
<1>10. CASE ~r.exit /\ "graph" \in projected.held
  <2>1. graphs' = Append(Front(Front(graphs)), kept) /\ lost' = refined.lost /\ pc' = pc
        /\ files' = r.files
    BY <1>1, <1>10
  <2>2. "graph" \in r.h.held /\ ~r.h.ondisk
    BY <1>4, <1>7, <1>10
  <2> HIDE DEF projected
  <2>3. projected \in Graph /\ projected.held \intersect {"params", "pwgts"} = {}
        /\ projected.gID = r.h.gID /\ projected.ondisk = r.h.ondisk /\ "graph" \in projected.held
    BY <1>4, <1>5, <1>7, <2>2 DEF Graph, Fields
  <2>4. /\ refined.lost = lost \union Overwritten(r.h, {"where"})
        /\ refined.h = [n |-> projected.n, held |-> projected.held \union {"params", "pwgts"},
                        gID |-> projected.gID, ondisk |-> projected.ondisk]
        /\ refined.h \in Graph
    BY <2>3, ComputedIs
  <2> HIDE DEF refined
  <2>5. trimmed = [n |-> refined.h.n, held |-> refined.h.held \ {"pwgts"}, gID |-> refined.h.gID,
                   ondisk |-> refined.h.ondisk]
    BY <2>4, FieldsOf
  <2> HIDE DEF trimmed
  <2>6. trimmed \in Graph
    BY <2>4, <2>5 DEF Graph
  <2>7. kept \in {trimmed, refined.h}
    OBVIOUS
  <2> HIDE DEF kept
  <2>8. /\ refined.h.gID = r.h.gID /\ refined.h.ondisk = r.h.ondisk /\ "graph" \in refined.h.held
    BY <2>3, <2>4
  <2>9. /\ trimmed.gID = r.h.gID /\ trimmed.ondisk = r.h.ondisk /\ "graph" \in trimmed.held
    BY <2>5, <2>8
  <2>10. kept \in Graph /\ kept.gID = r.h.gID /\ kept.ondisk = r.h.ondisk /\ "graph" \in kept.held
    BY <2>4, <2>6, <2>7, <2>8, <2>9
  <2>11. /\ Shape' /\ Numbered' /\ files' = Stored' /\ Waiting' /\ InOnePlace'
        /\ graphs'[Len(graphs')] = kept
    BY <1>2, <2>1, <2>2, <2>10, TopFreed
  <2>12. WorkedOn'
    BY <1>2, <2>1, <2>2, <2>10, <2>11 DEF WorkedOn
  <2>13. lost' = {}
    BY <1>6, <2>1, <2>4 DEF IInv, Running
  <2> QED BY <1>2, <2>1, <2>11, <2>12, <2>13 DEF IInv, Running
<1>11. CASE ~r.exit /\ "graph" \notin projected.held
  <2>1. pc' = "crashed" /\ graphs' = Append(Front(Front(graphs)), projected) /\ lost' = lost
        /\ files' = r.files
    BY <1>1, <1>11
  <2> HIDE DEF projected
  <2>2. projected \in Graph /\ projected.gID = r.h.gID /\ projected.ondisk = r.h.ondisk
    BY <1>4, <1>7 DEF Graph, Fields
  <2>3. Shape' /\ Numbered' /\ files' = Stored' /\ Waiting'
    BY <1>2, <2>1, <2>2, TopFreed
  <2>4. InOnePlace' /\ WorkedOn'
    BY <2>1 DEF InOnePlace, WorkedOn, Running
  <2> QED BY <2>1, <2>3, <2>4 DEF IInv, Running
<1> QED BY <1>4, <1>9, <1>10, <1>11

-----------------------------------------------------------------------------
(* Nothing is left behind.                                                 *)

LEMMA NextInv == IInv /\ [Next]_vars => IInv'
<1> SUFFICES ASSUME IInv, [Next]_vars PROVE IInv'
  OBVIOUS
<1>1. CASE Place
  BY <1>1, PlaceKeeps DEF Place
<1>2. CASE UNCHANGED vars
  BY <1>2, PlaceKeeps DEF vars
<1> QED BY <1>1, <1>2, CoarsenKeeps, StartKeeps, PlacedKeeps, AscendKeeps, AgainKeeps, ReturnKeeps
        DEF Next, Ended

THEOREM Invariance == Spec => []IInv
BY InitInv, NextInv, PTL DEF Spec

\* The invariant says that nothing is lost and that no file stays.
LEMMA InvImplies == IInv => NothingLeftBehind
<1> SUFFICES ASSUME IInv PROVE NothingLeftBehind
  OBVIOUS
<1>1. DOMAIN graphs = 1..Len(graphs) /\ Len(graphs) \in Nat /\ Len(graphs) > 0
  BY LenProperties DEF IInv, Shape
<1>2. files = {graphs[i].gID : i \in {j \in DOMAIN graphs : graphs[j].ondisk}}
  BY <1>1 DEF IInv, Stored
<1>3. ASSUME pc = "done" PROVE DOMAIN graphs = {1} /\ ~graphs[1].ondisk /\ "graph" \notin graphs[1].held
  BY <1>1, <1>3 DEF IInv, WorkedOn
<1>4. pc = "done" => files = {}
  BY <1>2, <1>3
<1>5. pc \notin {"crashed", "aborted"} => pc = "done" \/ pc \in Running
  BY DEF IInv, Running
<1> QED BY <1>1, <1>2, <1>3, <1>4, <1>5 DEF IInv, NothingLeftBehind, InOnePlace

\* Whatever graphs the coarsening makes, whichever of them go to disk and whichever of
\* the writes and reads fail, no array is allocated over one that is held, the files on
\* the disk are those of the graphs that are not in memory, and none is left in the end.
THEOREM NothingIsLeft == Spec => []NothingLeftBehind
BY Invariance, InvImplies, PTL

-----------------------------------------------------------------------------
(* The labels that a group of PEs gives to the coarsest graph.             *)

Halves == [group : SUBSET PE, mype : Int, fpart : Nat, fpe : Int, lnparts : Nat \ {0},
           lnpes : Nat \ {0}, label : SUBSET Vertex]

\* Two PEs have gone the same way so far.
Alike(s, t) ==
  /\ s.group = t.group /\ s.fpart = t.fpart /\ s.fpe = t.fpe
  /\ s.lnparts = t.lnparts /\ s.lnpes = t.lnpes /\ s.label = t.label

PartsOf(s) == s.fpart..(s.fpart + s.lnparts - 1)
PEsOf(s)   == s.fpe..(s.fpe + s.lnpes - 1)

\* A PE is one of those it goes on with.
Grouped ==
  /\ sub \in [Scratch -> Halves]
  /\ \A q \in Scratch : /\ sub[q].group = GroupOf(q)
                        /\ sub[q].mype = Rank(q, GroupOf(q))
                        /\ sub[q].mype \in PEsOf(sub[q])
                        /\ sub[q].fpart + sub[q].lnparts <= nparts

\* The PEs it goes on with all are there and have gone the same way.
Manned ==
  \A q \in Scratch : \A m \in PEsOf(sub[q]) :
    \E r \in GroupOf(q) : sub[r].mype = m /\ Alike(sub[r], sub[q])

\* No vertex and no part of a group is left out, and PEs that have gone different ways
\* have no vertex in common.
Covered ==
  \A q \in Scratch :
    /\ \A v \in Vertex : \E r \in GroupOf(q) : v \in sub[r].label
    /\ \A a \in Part : \E r \in GroupOf(q) : a \in PartsOf(sub[r])
Apart ==
  \A q \in Scratch : \A r \in GroupOf(q) :
    Alike(sub[q], sub[r]) \/ sub[q].label \intersect sub[r].label = {}

\* Labels are given when nobody has anything to split.
Labelled ==
  /\ DOMAIN gwhere0 \subseteq Scratch
  /\ \A q \in DOMAIN gwhere0 : gwhere0[q] \in Labels(q)
  /\ DOMAIN gwhere0 # {} => \A q \in Scratch : ~Splitting(q)

VoteInv ==
  /\ pc # "place" => stage = "idle"
  /\ stage # "bisect" => DOMAIN gwhere0 = {}
  /\ stage = "bisect" => Grouped /\ Manned /\ Covered /\ Apart /\ Labelled
  /\ LabelledOnce

\* A group of PEs, and the groups of its PEs.
LEMMA GroupIs ==
  ASSUME NEW q \in Scratch
  PROVE  /\ GroupOf(q) \subseteq Scratch /\ GroupOf(q) \subseteq PE /\ q \in GroupOf(q)
         /\ IsFiniteSet(GroupOf(q)) /\ GroupOf(q) \subseteq Int
         /\ \A r \in GroupOf(q) : GroupOf(r) = GroupOf(q)
<1>1. Scratch \subseteq PE
  BY DEF Scratch
<1>2. PE \subseteq Int /\ IsFiniteSet(PE)
  BY NpesAssumption, FS_Interval DEF PE
<1>3. GroupOf(q) \subseteq Scratch /\ q \in GroupOf(q)
  BY DEF GroupOf
<1>4. ASSUME NEW r \in GroupOf(q) PROVE GroupOf(r) = GroupOf(q)
  BY <1>4 DEF GroupOf
<1>5. GroupOf(q) \in SUBSET PE
  BY <1>1, <1>3
<1>6. IsFiniteSet(GroupOf(q))
  BY <1>2, <1>5, FS_Subset
<1> QED BY <1>1, <1>2, <1>3, <1>4, <1>6

\* The ranks of a group are 0 and so on, each that of one PE.
LEMMA RankIs ==
  ASSUME NEW C, IsFiniteSet(C), C \subseteq Int
  PROVE  /\ Cardinality(C) \in Nat
         /\ \A p \in C : Rank(p, C) \in 0..(Cardinality(C) - 1)
         /\ \A p, q \in C : Rank(p, C) = Rank(q, C) => p = q
         /\ \A m \in 0..(Cardinality(C) - 1) : \E p \in C : Rank(p, C) = m
<1> DEFINE Below(p) == {q \in C : q < p}
           n == Cardinality(C)
           f == [p \in C |-> Rank(p, C)]
<1>1. \A p : Rank(p, C) = Cardinality(Below(p))
  BY DEF Rank
<1>2. n \in Nat
  BY FS_CardinalityType
<1>3. ASSUME NEW p \in C PROVE Rank(p, C) \in 0..(n - 1)
  <2>1. Below(p) \in SUBSET C /\ Below(p) # C
    OBVIOUS
  <2> HIDE DEF Below
  <2>2. /\ IsFiniteSet(Below(p)) /\ Cardinality(Below(p)) <= n /\ Cardinality(Below(p)) # n
        /\ Cardinality(Below(p)) \in Nat
    BY <2>1, FS_Subset, FS_CardinalityType
  <2> QED BY <1>1, <1>2, <2>2
<1>4. ASSUME NEW p \in C, NEW q \in C, p < q PROVE Rank(p, C) # Rank(q, C)
  <2>1. p \in Int /\ q \in Int /\ ~(p < p) /\ \A i \in C : i < p => i < q
    <3>1. p \in Int /\ q \in Int /\ \A i \in C : i \in Int
      OBVIOUS
    <3> QED BY <1>4, <3>1
  <2>2. /\ Below(p) \in SUBSET Below(q) /\ Below(q) \in SUBSET C
        /\ p \in Below(q) /\ p \notin Below(p)
    BY <1>4, <2>1, Zenon
  <2> HIDE DEF Below
  <2>3. IsFiniteSet(Below(q))
    BY <2>2, FS_Subset
  <2>4. Cardinality(Below(q)) # Cardinality(Below(p))
    BY <2>2, <2>3, FS_Subset
  <2>5. Rank(p, C) = Cardinality(Below(p)) /\ Rank(q, C) = Cardinality(Below(q))
    BY <1>1
  <2> QED BY <2>4, <2>5
<1>5. ASSUME NEW p \in C, NEW q \in C, Rank(p, C) = Rank(q, C) PROVE p = q
  <2>1. p \in Int /\ q \in Int /\ ~(p < q) /\ ~(q < p)
    BY <1>4, <1>5
  <2> QED BY <2>1
<1>6. f \in Injection(C, 0..(n - 1))
  BY <1>3, <1>5 DEF Injection, IsInjective
<1> HIDE DEF n, f
<1>7. IsFiniteSet(0..(n - 1)) /\ Cardinality(0..(n - 1)) = n
  BY <1>2, FS_Interval
<1>8. f \in Surjection(C, 0..(n - 1))
  BY <1>6, <1>7, FS_Injection DEF n
<1>9. \A m \in 0..(n - 1) : \E p \in C : f[p] = m
  BY <1>8 DEF Surjection
<1> QED BY <1>2, <1>3, <1>5, <1>9 DEF f, n

\* A sum with one summand that is not 0 (MPI_SUM of the labels): SumFunctionOnSet
\* chooses the order of the summands, and each order gives the same.
LEMMA SumOfOne ==
  ASSUME NEW S, IsFiniteSet(S), NEW f, NEW x \in S, f[x] \in Int,
         \A y \in S : y # x => f[y] = 0
  PROVE  SumFunctionOnSet(f, S) = f[x]
<1> DEFINE next(s) == CHOOSE y \in s : TRUE
           Adds(fold) == fold = [s \in SUBSET S |-> IF s = {} THEN 0 ELSE f[next(s)] + fold[s \ {next(s)}]]
           sum(s) == IF x \in s THEN f[x] ELSE 0
           h == [s \in SUBSET S |-> sum(s)]
           fold == CHOOSE k : Adds(k)
<1>1. SumFunctionOnSet(f, S) = fold[S]
  BY DEF SumFunctionOnSet, FoldFunctionOnSet, MapThenFoldSet
<1>2. \A s \in SUBSET S : s # {} => next(s) \in s /\ next(s) \in S
  OBVIOUS
<1> HIDE DEF next
<1>3. ASSUME NEW s \in SUBSET S
      PROVE  sum(s) = IF s = {} THEN 0 ELSE f[next(s)] + sum(s \ {next(s)})
  <2>1. CASE s = {}
    BY <2>1
  <2>2. CASE s # {} /\ next(s) = x
    BY <1>2, <2>2
  <2>3. CASE s # {} /\ next(s) # x
    <3>1. f[next(s)] = 0 /\ (x \in s <=> x \in s \ {next(s)})
      BY <1>2, <2>3
    <3> QED BY <2>3, <3>1
  <2> QED BY <2>1, <2>2, <2>3
<1>4. Adds(h)
  <2>1. \A s \in SUBSET S : s \ {next(s)} \in SUBSET S
    OBVIOUS
  <2>2. \A s \in SUBSET S : h[s] = sum(s)
    OBVIOUS
  <2>3. \A s \in SUBSET S : sum(s) = IF s = {} THEN 0 ELSE f[next(s)] + h[s \ {next(s)}]
    <3> HIDE DEF sum, h
    <3> QED BY <1>3, <2>1, <2>2
  <2> HIDE DEF sum
  <2> QED BY <2>3
<1>5. Adds(fold)
  <2> HIDE DEF h, Adds
  <2> QED BY <1>4
<1> HIDE DEF fold
<1>6. \A s \in SUBSET S : fold[s] = IF s = {} THEN 0 ELSE f[next(s)] + fold[s \ {next(s)}]
  BY <1>5, Zenon
<1>7. fold[S] = sum(S)
  <2> DEFINE B == {s \in SUBSET S : fold[s] # sum(s)}
  <2> SUFFICES ASSUME B # {} PROVE FALSE
    BY Zenon
  <2>1. B \subseteq SUBSET S
    OBVIOUS
  <2>2. IsWellFoundedOn(StrictSubsetOrdering(S), SUBSET S)
    BY FS_StrictSubsetOrderingWellFounded, FS_FiniteSubsetsOfFinite
  <2> HIDE DEF B
  <2>3. PICK s \in B : \A t \in B : <<t, s>> \notin StrictSubsetOrdering(S)
    BY <2>1, <2>2, WFMin, Zenon
  <2>4. s \in SUBSET S /\ fold[s] # sum(s)
    BY DEF B
  <2> HIDE DEF sum
  <2>5. s # {}
    BY <1>3, <1>6, <2>4
  <2> DEFINE t == s \ {next(s)}
  <2>6. t \in SUBSET S /\ <<t, s>> \in StrictSubsetOrdering(S)
    BY <1>2, <2>4, <2>5 DEF StrictSubsetOrdering
  <2>7. fold[t] = sum(t)
    BY <2>3, <2>6 DEF B
  <2>8. fold[s] = f[next(s)] + fold[t] /\ sum(s) = f[next(s)] + sum(t)
    BY <1>3, <1>6, <2>4, <2>5
  <2> QED BY <2>4, <2>7, <2>8
<1> QED BY <1>1, <1>7

\* The lowest PE of a group.
LEMMA MinIs ==
  ASSUME NEW S, IsFiniteSet(S), S # {}, S \subseteq Int
  PROVE  Min(S) \in S /\ \A k \in S : Min(S) <= k
<1> DEFINE n == Cardinality(S)
<1>1. n \in Nat /\ n # 0
  BY FS_EmptySet, FS_CardinalityType
<1>2. 0 \in 0..(n - 1)
  BY <1>1
<1>3. PICK i \in S : Rank(i, S) = 0
  BY <1>2, RankIs
<1> HIDE DEF n
<1>4. \A k \in S : i <= k
  <2> DEFINE Below == {k \in S : k < i}
  <2>1. Below \in SUBSET S
    OBVIOUS
  <2>2. Cardinality(Below) = 0
    BY <1>3 DEF Rank
  <2> HIDE DEF Below
  <2>3. Below = {}
    BY <2>1, <2>2, FS_Subset, FS_EmptySet
  <2>4. \A k \in S : k \in Int /\ i \in Int /\ ~(k < i)
    BY <2>3 DEF Below
  <2> QED BY <2>4
<1> QED BY <1>4 DEF Min

\* What is alike is equal but for the rank.
LEMMA AlikeIs ==
  ASSUME NEW s \in Halves, NEW t \in Halves
  PROVE  [s EXCEPT !.mype = t.mype] = t <=> Alike(s, t)
<1> DEFINE r == [s EXCEPT !.mype = t.mype]
<1>1. r = [group |-> s.group, mype |-> t.mype, fpart |-> s.fpart, fpe |-> s.fpe,
           lnparts |-> s.lnparts, lnpes |-> s.lnpes, label |-> s.label]
  BY DEF Halves
<1>2. t = [group |-> t.group, mype |-> t.mype, fpart |-> t.fpart, fpe |-> t.fpe,
           lnparts |-> t.lnparts, lnpes |-> t.lnpes, label |-> t.label]
  BY DEF Halves
<1> HIDE DEF r
<1>3. r = t => Alike(s, t)
  BY <1>1 DEF Alike
<1>4. Alike(s, t) => r = t
  BY <1>1, <1>2 DEF Alike
<1> QED BY <1>3, <1>4 DEF r

\* The half a PE goes on with is one of PEs and parts, and the PE is in it.
LEMMA BranchIs ==
  ASSUME NEW s \in Halves, s.lnpes > 1, s.lnparts > 1, s.mype \in PEsOf(s),
         s.fpart + s.lnparts <= nparts, NEW side, side \subseteq s.label
  PROVE  LET L == s.lnpes \div 2
             P == s.lnparts \div 2
             t == Branch(s, side)
         IN  /\ L \in 1..(s.lnpes - 1) /\ P \in 1..(s.lnparts - 1)
             /\ t \in Halves /\ t.group = s.group /\ t.mype = s.mype
             /\ t.mype \in PEsOf(t) /\ t.fpart + t.lnparts <= nparts
             /\ s.mype < s.fpe + L =>
                  t.fpart = s.fpart /\ t.fpe = s.fpe /\ t.lnparts = P /\ t.lnpes = L
                  /\ t.label = side
             /\ ~(s.mype < s.fpe + L) =>
                  t.fpart = s.fpart + P /\ t.fpe = s.fpe + L /\ t.lnparts = s.lnparts - P
                  /\ t.lnpes = s.lnpes - L /\ t.label = s.label \ side
<1> DEFINE L == s.lnpes \div 2
           P == s.lnparts \div 2
           t == Branch(s, side)
           low  == [group |-> s.group, mype |-> s.mype, fpart |-> s.fpart, fpe |-> s.fpe,
                    lnparts |-> P, lnpes |-> L, label |-> side]
           high == [group |-> s.group, mype |-> s.mype, fpart |-> s.fpart + P,
                    fpe |-> s.fpe + L, lnparts |-> s.lnparts - P, lnpes |-> s.lnpes - L,
                    label |-> s.label \ side]
<1>1. /\ s.group \in SUBSET PE /\ s.mype \in Int /\ s.fpart \in Nat /\ s.fpe \in Int
      /\ s.lnparts \in Nat /\ s.lnpes \in Nat /\ s.label \in SUBSET Vertex
      /\ s = [group |-> s.group, mype |-> s.mype, fpart |-> s.fpart, fpe |-> s.fpe,
              lnparts |-> s.lnparts, lnpes |-> s.lnpes, label |-> s.label]
  BY DEF Halves
<1>2. L \in 1..(s.lnpes - 1) /\ P \in 1..(s.lnparts - 1)
  BY <1>1
<1>3. t = IF s.mype < s.fpe + L
          THEN [s EXCEPT !.lnpes = L, !.lnparts = P, !.label = side]
          ELSE [s EXCEPT !.lnpes = s.lnpes - L, !.lnparts = s.lnparts - P,
                         !.label = s.label \ side, !.fpart = s.fpart + P, !.fpe = s.fpe + L]
  BY DEF Branch, Lower
<1>4. s.mype < s.fpe + L => t = low
  BY <1>1, <1>3
<1>5. ~(s.mype < s.fpe + L) => t = high
  BY <1>1, <1>3
<1> HIDE DEF t, L, P
<1>6. s.fpe <= s.mype /\ s.mype <= s.fpe + s.lnpes - 1
  BY <1>1 DEF PEsOf
<1>7. CASE s.mype < s.fpe + L
  <2>1. /\ t.group = s.group /\ t.mype = s.mype /\ t.fpart = s.fpart /\ t.fpe = s.fpe
        /\ t.lnparts = P /\ t.lnpes = L /\ t.label = side
    BY <1>4, <1>7
  <2>2. P \in Nat \ {0} /\ L \in Nat \ {0} /\ side \in SUBSET Vertex
    BY <1>1, <1>2
  <2>3. t \in Halves
    BY <1>1, <1>4, <1>7, <2>2 DEF Halves
  <2>4. t.mype \in PEsOf(t) /\ t.fpart + t.lnparts <= nparts
    BY <1>1, <1>2, <1>6, <1>7, <2>1, NpartsAssumption DEF PEsOf
  <2> QED BY <1>2, <1>7, <2>1, <2>3, <2>4 DEF t, L, P
<1>8. CASE ~(s.mype < s.fpe + L)
  <2>1. /\ t.group = s.group /\ t.mype = s.mype /\ t.fpart = s.fpart + P /\ t.fpe = s.fpe + L
        /\ t.lnparts = s.lnparts - P /\ t.lnpes = s.lnpes - L /\ t.label = s.label \ side
    BY <1>5, <1>8
  <2>2. /\ s.fpart + P \in Nat /\ s.fpe + L \in Int /\ s.lnparts - P \in Nat \ {0}
        /\ s.lnpes - L \in Nat \ {0} /\ s.label \ side \in SUBSET Vertex
    BY <1>1, <1>2
  <2>3. t \in Halves
    BY <1>1, <1>5, <1>8, <2>2 DEF Halves
  <2>4. t.mype \in PEsOf(t) /\ t.fpart + t.lnparts <= nparts
    BY <1>1, <1>2, <1>6, <1>8, <2>1, NpartsAssumption DEF PEsOf
  <2> QED BY <1>2, <1>8, <2>1, <2>3, <2>4 DEF t, L, P
<1> QED BY <1>7, <1>8
\* The groups as they begin: every PE has the whole graph and all parts.
LEMMA WholeVotes ==
  ASSUME sub' = [p \in Scratch |-> Whole(p)], DOMAIN gwhere0 = {},
         UNCHANGED <<way, size, ncon, gwhere0>>
  PROVE  Grouped' /\ Manned' /\ Covered' /\ Apart' /\ Labelled'
<1>1. Scratch' = Scratch /\ Vertex' = Vertex /\ Halves' = Halves
      /\ \A q : GroupOf(q)' = GroupOf(q)
  BY DEF Scratch, OneStrategy, GroupOf, ngroups, Vertex, Halves
<1>2. ASSUME NEW q \in Scratch
      PROVE  /\ sub'[q].group = GroupOf(q) /\ sub'[q].mype = Rank(q, GroupOf(q))
             /\ sub'[q].fpart = 0 /\ sub'[q].fpe = 0 /\ sub'[q].lnparts = nparts
             /\ sub'[q].lnpes = Cardinality(GroupOf(q)) /\ sub'[q].label = Vertex
             /\ sub'[q] \in Halves
             /\ sub'[q].mype \in PEsOf(sub'[q])
             /\ Cardinality(GroupOf(q)) \in Nat
  <2> DEFINE C == GroupOf(q)
             n == Cardinality(C)
  <2>1. /\ q \in C /\ C \in SUBSET PE /\ n \in Nat /\ Rank(q, C) \in 0..(n - 1)
    BY GroupIs, RankIs
  <2>2. sub'[q] = [group |-> C, mype |-> Rank(q, C), fpart |-> 0, fpe |-> 0,
                   lnparts |-> nparts, lnpes |-> n, label |-> Vertex]
    BY DEF Whole
  <2> HIDE DEF C, n
  <2>3. n \in Nat \ {0} /\ Rank(q, C) \in Int /\ nparts \in Nat \ {0}
    BY <2>1, NpartsAssumption
  <2>4. sub'[q] \in Halves
    BY <2>1, <2>2, <2>3 DEF Halves
  <2>5. Rank(q, C) \in 0..(0 + n - 1)
    BY <2>1
  <2> QED BY <2>1, <2>2, <2>4, <2>5 DEF PEsOf, C, n
<1>3. ASSUME NEW q \in Scratch, NEW r \in GroupOf(q)
      PROVE  r \in Scratch /\ GroupOf(r) = GroupOf(q) /\ Alike(sub'[r], sub'[q])
                           /\ Alike(sub'[q], sub'[r])
  <2>1. r \in Scratch /\ GroupOf(r) = GroupOf(q)
    BY GroupIs
  <2> QED BY <1>2, <2>1 DEF Alike
<1>4. Grouped'
  <2>1. sub' \in [Scratch -> Halves]
    BY <1>2
  <2> QED BY <1>1, <1>2, <2>1, NpartsAssumption DEF Grouped
<1>5. Manned'
  <2> SUFFICES ASSUME NEW q \in Scratch, NEW m \in PEsOf(sub'[q])
               PROVE  \E r \in GroupOf(q) : sub'[r].mype = m /\ Alike(sub'[r], sub'[q])
    BY <1>1 DEF Manned
  <2>1. m \in 0..(Cardinality(GroupOf(q)) - 1)
    BY <1>2 DEF PEsOf
  <2>2. PICK r \in GroupOf(q) : Rank(r, GroupOf(q)) = m
    BY <2>1, GroupIs, RankIs
  <2>3. r \in Scratch /\ GroupOf(r) = GroupOf(q) /\ Alike(sub'[r], sub'[q])
    BY <1>3
  <2> QED BY <1>2, <2>2, <2>3
<1>6. Covered'
  <2> SUFFICES ASSUME NEW q \in Scratch
               PROVE  /\ \A v \in Vertex : \E r \in GroupOf(q) : v \in sub'[r].label
                      /\ \A a \in Part : \E r \in GroupOf(q) : a \in PartsOf(sub'[r])
    BY <1>1 DEF Covered
  <2>1. q \in GroupOf(q)
    BY GroupIs
  <2>2. PartsOf(sub'[q]) = 0..(nparts - 1)
    BY <1>2, NpartsAssumption DEF PartsOf
  <2> QED BY <1>2, <2>1, <2>2 DEF Part
<1>7. Apart'
  BY <1>1, <1>3 DEF Apart
<1>8. Labelled'
  BY DEF Labelled
<1> QED BY <1>4, <1>5, <1>6, <1>7, <1>8

\* A bisection.  The PEs that have gone the same way as p split up.
LEMMA BisectKeeps ==
  ASSUME VoteInv, Bisect
  PROVE  Grouped' /\ Manned' /\ Covered' /\ Apart' /\ Labelled'
<1>1. PICK p \in Scratch :
        /\ Splitting(p)
        /\ \E side \in Sides(sub[p].label) :
             sub' = [q \in Scratch |-> IF [sub[q] EXCEPT !.mype = sub[p].mype] = sub[p]
                                       THEN Branch(sub[q], side) ELSE sub[q]]
  BY DEF Bisect
<1>2. PICK side \in Sides(sub[p].label) :
        sub' = [q \in Scratch |-> IF [sub[q] EXCEPT !.mype = sub[p].mype] = sub[p]
                                  THEN Branch(sub[q], side) ELSE sub[q]]
  BY <1>1
<1>3. Grouped /\ Manned /\ Covered /\ Apart /\ Labelled
  BY DEF VoteInv, Bisect
<1>4. Scratch' = Scratch /\ Vertex' = Vertex /\ Halves' = Halves
      /\ (\A q : GroupOf(q)' = GroupOf(q)) /\ gwhere0' = gwhere0
  BY DEF Scratch, OneStrategy, GroupOf, ngroups, Vertex, Halves, Bisect
<1>5. \A q \in Scratch : sub[q] \in Halves /\ sub[q].group = GroupOf(q)
  BY <1>3 DEF Grouped
<1> DEFINE s == sub[p]
           L == s.lnpes \div 2
           P == s.lnparts \div 2
           Fellow(q) == Alike(sub[q], s)
           Low(q) == sub[q].mype < s.fpe + L
<1>6. s \in Halves /\ s.lnpes > 1 /\ s.lnparts > 1 /\ side \subseteq s.label
  <2>1. side \subseteq s.label
    BY DEF Sides
  <2> QED BY <1>1, <1>5, <2>1 DEF Splitting
<1>7. /\ s.lnpes \in Int /\ s.fpe \in Int /\ s.fpart \in Int /\ s.lnparts \in Int
      /\ L \in 1..(s.lnpes - 1) /\ P \in 1..(s.lnparts - 1)
      /\ L \in Int /\ P \in Int
  BY <1>6 DEF Halves
\* What each PE goes on with.
<1>8. ASSUME NEW q \in Scratch, ~Fellow(q) PROVE sub'[q] = sub[q]
  BY <1>2, <1>5, <1>8, AlikeIs
<1>9. ASSUME NEW q \in Scratch, Fellow(q)
      PROVE  /\ sub'[q] \in Halves /\ sub'[q].group = GroupOf(q) /\ GroupOf(q) = s.group
             /\ sub'[q].mype = sub[q].mype
             /\ sub'[q].mype \in PEsOf(sub'[q])
             /\ sub'[q].fpart + sub'[q].lnparts <= nparts
             /\ Low(q) => /\ sub'[q].fpart = s.fpart /\ sub'[q].fpe = s.fpe
                          /\ sub'[q].lnparts = P /\ sub'[q].lnpes = L /\ sub'[q].label = side
             /\ ~Low(q) => /\ sub'[q].fpart = s.fpart + P /\ sub'[q].fpe = s.fpe + L
                           /\ sub'[q].lnparts = s.lnparts - P /\ sub'[q].lnpes = s.lnpes - L
                           /\ sub'[q].label = s.label \ side
  <2>1. sub'[q] = Branch(sub[q], side)
    BY <1>2, <1>5, <1>9, AlikeIs
  <2>2. /\ sub[q].group = s.group /\ sub[q].fpart = s.fpart /\ sub[q].fpe = s.fpe
        /\ sub[q].lnparts = s.lnparts /\ sub[q].lnpes = s.lnpes /\ sub[q].label = s.label
    BY <1>9 DEF Alike
  <2>3. /\ sub[q] \in Halves /\ sub[q].mype \in PEsOf(sub[q])
        /\ sub[q].fpart + sub[q].lnparts <= nparts /\ sub[q].group = GroupOf(q)
    BY <1>3 DEF Grouped
  <2> HIDE DEF s
  <2>4. /\ Branch(sub[q], side) \in Halves /\ Branch(sub[q], side).group = sub[q].group
        /\ Branch(sub[q], side).mype = sub[q].mype
        /\ Branch(sub[q], side).mype \in PEsOf(Branch(sub[q], side))
        /\ Branch(sub[q], side).fpart + Branch(sub[q], side).lnparts <= nparts
        /\ Low(q) => /\ Branch(sub[q], side).fpart = s.fpart /\ Branch(sub[q], side).fpe = s.fpe
                     /\ Branch(sub[q], side).lnparts = P /\ Branch(sub[q], side).lnpes = L
                     /\ Branch(sub[q], side).label = side
        /\ ~Low(q) => /\ Branch(sub[q], side).fpart = s.fpart + P
                      /\ Branch(sub[q], side).fpe = s.fpe + L
                      /\ Branch(sub[q], side).lnparts = s.lnparts - P
                      /\ Branch(sub[q], side).lnpes = s.lnpes - L
                      /\ Branch(sub[q], side).label = s.label \ side
    BY <1>6, <2>2, <2>3, BranchIs
  <2> QED BY <2>1, <2>2, <2>3, <2>4
<1> HIDE DEF L, P, s
\* Fellows in the same half stay alike; there is one in each half.
<1>10. ASSUME NEW q \in Scratch, NEW r \in Scratch, Fellow(q), Fellow(r), Low(q) <=> Low(r)
       PROVE  Alike(sub'[q], sub'[r])
  <2>1. sub'[q].group = sub'[r].group
    BY <1>9, <1>10
  <2>2. CASE Low(q) /\ Low(r)
    BY <1>9, <1>10, <2>1, <2>2 DEF Alike
  <2>3. CASE ~Low(q) /\ ~Low(r)
    BY <1>9, <1>10, <2>1, <2>3 DEF Alike
  <2> QED BY <1>10, <2>2, <2>3
<1>11. ASSUME NEW q \in Scratch, NEW r \in Scratch, ~Fellow(q), ~Fellow(r), Alike(sub[q], sub[r])
       PROVE  Alike(sub'[q], sub'[r])
  BY <1>8, <1>11
<1>12. ASSUME NEW q \in Scratch, NEW r \in Scratch, Alike(sub[q], sub[r])
       PROVE  (Fellow(q) <=> Fellow(r)) /\ Alike(sub[r], sub[q])
  BY <1>12 DEF Alike
<1>13. ASSUME NEW m \in PEsOf(s)
       PROVE  \E r \in GroupOf(p) : r \in Scratch /\ Fellow(r) /\ sub[r].mype = m
  <2>1. \E r \in GroupOf(p) : sub[r].mype = m /\ Alike(sub[r], s)
    BY <1>3 DEF Manned, s
  <2> QED BY <2>1, GroupIs
<1>14. PICK lo \in GroupOf(p) : lo \in Scratch /\ Fellow(lo) /\ Low(lo)
  <2>1. s.fpe \in PEsOf(s) /\ s.fpe < s.fpe + L
    BY <1>7 DEF PEsOf
  <2> QED BY <1>13, <2>1
<1>15. PICK hi \in GroupOf(p) : hi \in Scratch /\ Fellow(hi) /\ ~Low(hi)
  <2>1. s.fpe + L \in PEsOf(s) /\ ~(s.fpe + L < s.fpe + L)
    BY <1>7 DEF PEsOf
  <2> QED BY <1>13, <2>1
<1>16. \A q \in Scratch : Fellow(q) => GroupOf(q) = GroupOf(p)
  BY <1>5, <1>9 DEF s
<1>17. ASSUME NEW q \in Scratch, NEW r \in GroupOf(q)
       PROVE  r \in Scratch /\ GroupOf(r) = GroupOf(q)
  BY GroupIs
<1>18. Grouped'
  <2> SUFFICES ASSUME NEW q \in Scratch
               PROVE  /\ sub'[q] \in Halves
                      /\ sub'[q].group = GroupOf(q)
                      /\ sub'[q].mype = Rank(q, GroupOf(q))
                      /\ sub'[q].mype \in PEsOf(sub'[q])
                      /\ sub'[q].fpart + sub'[q].lnparts <= nparts
    <3>1. sub' = [q \in Scratch |-> sub'[q]]
      BY <1>2
    <3> QED BY <1>4, <3>1 DEF Grouped
  <2>1. /\ sub[q] \in Halves /\ sub[q].group = GroupOf(q) /\ sub[q].mype = Rank(q, GroupOf(q))
        /\ sub[q].mype \in PEsOf(sub[q]) /\ sub[q].fpart + sub[q].lnparts <= nparts
    BY <1>3 DEF Grouped
  <2>2. CASE Fellow(q)
    BY <1>9, <2>1, <2>2
  <2>3. CASE ~Fellow(q)
    BY <1>8, <2>1, <2>3
  <2> QED BY <2>2, <2>3
<1>19. Manned'
  <2> SUFFICES ASSUME NEW q \in Scratch, NEW m \in PEsOf(sub'[q])
               PROVE  \E r \in GroupOf(q) : sub'[r].mype = m /\ Alike(sub'[r], sub'[q])
    BY <1>4 DEF Manned
  <2>1. CASE Fellow(q)
    <3>1. CASE Low(q)
      <4>1. m \in PEsOf(s) /\ m < s.fpe + L
        BY <1>7, <1>9, <2>1, <3>1 DEF PEsOf
      <4>2. PICK r \in GroupOf(p) : r \in Scratch /\ Fellow(r) /\ sub[r].mype = m
        BY <1>13, <4>1
      <4>3. Low(r)
        BY <4>1, <4>2
      <4> QED BY <1>9, <1>10, <1>16, <2>1, <3>1, <4>2, <4>3
    <3>2. CASE ~Low(q)
      <4>1. m \in PEsOf(s) /\ ~(m < s.fpe + L)
        BY <1>7, <1>9, <2>1, <3>2 DEF PEsOf
      <4>2. PICK r \in GroupOf(p) : r \in Scratch /\ Fellow(r) /\ sub[r].mype = m
        BY <1>13, <4>1
      <4>3. ~Low(r)
        BY <4>1, <4>2
      <4> QED BY <1>9, <1>10, <1>16, <2>1, <3>2, <4>2, <4>3
    <3> QED BY <3>1, <3>2
  <2>2. CASE ~Fellow(q)
    <3>1. m \in PEsOf(sub[q])
      BY <1>8, <2>2
    <3>2. PICK r \in GroupOf(q) : sub[r].mype = m /\ Alike(sub[r], sub[q])
      BY <1>3, <3>1 DEF Manned
    <3>3. r \in Scratch /\ ~Fellow(r)
      BY <1>12, <1>17, <2>2, <3>2
    <3> QED BY <1>8, <1>11, <2>2, <3>2, <3>3
  <2> QED BY <2>1, <2>2
<1>20. Covered'
  <2> SUFFICES ASSUME NEW q \in Scratch
               PROVE  /\ \A v \in Vertex : \E r \in GroupOf(q) : v \in sub'[r].label
                      /\ \A a \in Part : \E r \in GroupOf(q) : a \in PartsOf(sub'[r])
    BY <1>4 DEF Covered
  <2>1. ASSUME NEW v \in Vertex PROVE \E r \in GroupOf(q) : v \in sub'[r].label
    <3>1. PICK r \in GroupOf(q) : v \in sub[r].label
      BY <1>3 DEF Covered
    <3>2. r \in Scratch /\ GroupOf(r) = GroupOf(q)
      BY <1>17
    <3>3. CASE ~Fellow(r)
      BY <1>8, <3>1, <3>2, <3>3
    <3>4. CASE Fellow(r)
      <4>1. v \in s.label /\ lo \in GroupOf(q) /\ hi \in GroupOf(q)
        BY <1>16, <3>1, <3>2, <3>4 DEF Alike
      <4>2. v \in sub'[lo].label \/ v \in sub'[hi].label
        BY <1>9, <1>14, <1>15, <4>1
      <4> QED BY <4>1, <4>2
    <3> QED BY <3>3, <3>4
  <2>2. ASSUME NEW a \in Part PROVE \E r \in GroupOf(q) : a \in PartsOf(sub'[r])
    <3>1. PICK r \in GroupOf(q) : a \in PartsOf(sub[r])
      BY <1>3 DEF Covered
    <3>2. r \in Scratch /\ GroupOf(r) = GroupOf(q)
      BY <1>17
    <3>3. CASE ~Fellow(r)
      BY <1>8, <3>1, <3>2, <3>3
    <3>4. CASE Fellow(r)
      <4>1. a \in s.fpart..(s.fpart + s.lnparts - 1) /\ lo \in GroupOf(q) /\ hi \in GroupOf(q)
        BY <1>16, <3>1, <3>2, <3>4 DEF Alike, PartsOf
      <4>2. a \in s.fpart..(s.fpart + P - 1)
            \/ a \in (s.fpart + P)..(s.fpart + P + (s.lnparts - P) - 1)
        BY <1>7, <4>1
      <4>3. a \in PartsOf(sub'[lo]) \/ a \in PartsOf(sub'[hi])
        BY <1>9, <1>14, <1>15, <4>2 DEF PartsOf
      <4> QED BY <4>1, <4>3
    <3> QED BY <3>3, <3>4
  <2> QED BY <2>1, <2>2
<1>21. Apart'
  <2> SUFFICES ASSUME NEW q \in Scratch, NEW r \in GroupOf(q)
               PROVE  Alike(sub'[q], sub'[r]) \/ sub'[q].label \intersect sub'[r].label = {}
    BY <1>4 DEF Apart
  <2>1. r \in Scratch
    BY <1>17
  <2>2. Alike(sub[q], sub[r]) \/ sub[q].label \intersect sub[r].label = {}
    BY <1>3 DEF Apart
  <2>3. \A x \in Scratch : sub'[x].label \subseteq sub[x].label
    <3>1. \A x \in Scratch : Fellow(x) => sub[x].label = s.label
      BY DEF Alike
    <3>2. side \subseteq s.label
      BY <1>6
    <3> QED BY <1>8, <1>9, <3>1, <3>2
  <2>4. CASE sub[q].label \intersect sub[r].label = {}
    BY <2>1, <2>3, <2>4
  <2>5. CASE Alike(sub[q], sub[r])
    <3>1. CASE ~Fellow(q)
      BY <1>11, <1>12, <2>1, <2>5, <3>1
    <3>2. CASE Fellow(q)
      <4>1. Fellow(r)
        BY <1>12, <2>1, <2>5, <3>2
      <4>2. CASE Low(q) <=> Low(r)
        BY <1>10, <2>1, <3>2, <4>1, <4>2
      <4>3. CASE Low(q) /\ ~Low(r)
        <5>1. sub'[q].label = side /\ sub'[r].label = s.label \ side
          BY <1>9, <2>1, <3>2, <4>1, <4>3
        <5> QED BY <5>1
      <4>4. CASE ~Low(q) /\ Low(r)
        <5>1. sub'[r].label = side /\ sub'[q].label = s.label \ side
          BY <1>9, <2>1, <3>2, <4>1, <4>4
        <5> QED BY <5>1
      <4> QED BY <4>2, <4>3, <4>4
    <3> QED BY <3>1, <3>2
  <2> QED BY <2>2, <2>4, <2>5
<1>22. Labelled'
  <2>1. DOMAIN gwhere0 = {}
    BY <1>1, <1>3 DEF Labelled
  <2> QED BY <1>4, <2>1 DEF Labelled
<1> QED BY <1>18, <1>19, <1>20, <1>21, <1>22
\* What a PE labels, and how.
LEMMA LabelsAre ==
  ASSUME NEW q \in Scratch, sub[q] \in Halves, NEW w \in Labels(q), NEW v \in Vertex
  PROVE  /\ v \notin sub[q].label => w[v] = 0
         /\ v \in sub[q].label /\ sub[q].lnparts = 1 /\ ~Leads(q) => w[v] = 0
         /\ v \in sub[q].label /\ Leads(q) => w[v] \in PartsOf(sub[q])
<1> DEFINE s == sub[q]
<1>1. s.fpart \in Nat /\ s.lnparts \in Nat \ {0}
  BY DEF Halves
<1>2. CASE s.lnparts = 1
  <2>1. w = [x \in Vertex |-> IF x \in s.label /\ Leads(q) THEN s.fpart ELSE 0]
    BY <1>2 DEF Labels
  <2>2. s.fpart \in PartsOf(s)
    BY <1>1 DEF PartsOf
  <2> QED BY <1>2, <2>1, <2>2
<1>3. CASE s.lnparts # 1
  <2>1. PICK kway \in [s.label -> 0..(s.lnparts - 1)] :
          w = [x \in Vertex |-> IF x \in s.label THEN s.fpart + kway[x] ELSE 0]
    BY <1>3 DEF Labels
  <2>2. CASE v \in s.label
    <3>1. kway[v] \in 0..(s.lnparts - 1) /\ w[v] = s.fpart + kway[v]
      BY <2>1, <2>2
    <3>2. w[v] \in PartsOf(s)
      BY <1>1, <3>1 DEF PartsOf
    <3> QED BY <1>3, <2>2, <3>2
  <2>3. CASE v \notin s.label
    BY <2>1, <2>3
  <2> QED BY <2>2, <2>3
<1> QED BY <1>2, <1>3

\* A PE gives its labels.
LEMMA LabelKeeps ==
  ASSUME VoteInv, Label
  PROVE  Grouped' /\ Manned' /\ Covered' /\ Apart' /\ Labelled'
<1>1. Grouped /\ Manned /\ Covered /\ Apart /\ Labelled /\ UNCHANGED <<way, size, ncon, sub>>
  BY DEF VoteInv, Label
<1>2. Scratch' = Scratch /\ Vertex' = Vertex /\ Halves' = Halves
      /\ \A q : GroupOf(q)' = GroupOf(q)
  BY <1>1 DEF Scratch, OneStrategy, GroupOf, ngroups, Vertex, Halves
<1>3. Grouped' /\ Manned' /\ Covered' /\ Apart'
  BY <1>1, <1>2 DEF Grouped, Manned, Covered, Apart
<1>4. PICK p \in Scratch \ DOMAIN gwhere0 : \E w \in Labels(p) :
        gwhere0' = [q \in DOMAIN gwhere0 \union {p} |-> IF q = p THEN w ELSE gwhere0[q]]
  BY DEF Label
<1>5. PICK w \in Labels(p) :
        gwhere0' = [q \in DOMAIN gwhere0 \union {p} |-> IF q = p THEN w ELSE gwhere0[q]]
  BY <1>4
<1>6. \A q : Labels(q)' = Labels(q) /\ Splitting(q)' = Splitting(q)
  BY <1>1, <1>2 DEF Labels, Leads, Splitting
<1>7. \A q \in Scratch : ~Splitting(q)
  BY DEF Label
<1>8. /\ DOMAIN gwhere0' \subseteq Scratch
      /\ \A q \in DOMAIN gwhere0' : gwhere0'[q] \in Labels(q)
  BY <1>1, <1>5 DEF Labelled
<1>9. Labelled'
  BY <1>2, <1>6, <1>7, <1>8 DEF Labelled
<1> QED BY <1>3, <1>9

\* The sum of a group's labels for a vertex is the one label it got.
LEMMA OneLabel ==
  ASSUME Grouped, Manned, Covered, Apart, Labelled, DOMAIN gwhere0 = Scratch,
         NEW p \in Scratch, NEW v \in Vertex
  PROVE  \E q \in GroupOf(p) :
           /\ v \in sub[q].label
           /\ SumFunctionOnSet([x \in GroupOf(p) |-> gwhere0[x][v]], GroupOf(p))
                \in PartsOf(sub[q])
<1> DEFINE C == GroupOf(p)
           f == [x \in C |-> gwhere0[x][v]]
<1>1. IsFiniteSet(C) /\ C \subseteq Int /\ \A x \in C : x \in Scratch /\ GroupOf(x) = C
  BY GroupIs
<1>2. \A x \in C : /\ sub[x] \in Halves /\ sub[x].mype = Rank(x, C)
                   /\ sub[x].mype \in PEsOf(sub[x])
                   /\ gwhere0[x] \in Labels(x) /\ ~Splitting(x)
  BY <1>1 DEF Grouped, Labelled
<1>3. PICK r \in C : v \in sub[r].label
  BY DEF Covered
<1> HIDE DEF C
<1>4. PICK q \in C : sub[q].mype = sub[r].fpe /\ Alike(sub[q], sub[r])
  <2>1. sub[r].fpe \in Int /\ sub[r].lnpes \in Nat \ {0}
    BY <1>2 DEF Halves
  <2>2. sub[r].fpe \in PEsOf(sub[r])
    BY <2>1 DEF PEsOf
  <2> QED BY <1>1, <2>2 DEF Manned
<1>5. Leads(q) /\ v \in sub[q].label
  BY <1>3, <1>4 DEF Leads, Alike
<1>6. f[q] \in PartsOf(sub[q])
  BY <1>1, <1>2, <1>5, LabelsAre
<1>7. ASSUME NEW x \in C, x # q PROVE f[x] = 0
  <2>1. sub[x].mype # sub[q].mype
    <3>1. Rank(x, C) = Rank(q, C) => x = q
      BY <1>1, RankIs
    <3> QED BY <1>2, <1>7, <3>1
  <2>2. Alike(sub[q], sub[x]) \/ sub[q].label \intersect sub[x].label = {}
    BY <1>1 DEF Apart
  <2>3. CASE v \notin sub[x].label
    BY <1>1, <1>2, <2>3, LabelsAre
  <2>4. CASE Alike(sub[q], sub[x])
    <3>1. sub[x].fpe = sub[q].mype /\ ~Leads(x)
      BY <1>5, <2>1, <2>4 DEF Leads, Alike
    <3>2. sub[x].lnparts = 1
      <4>1. /\ sub[x].fpe \in Int /\ sub[x].lnpes \in Nat \ {0} /\ sub[x].mype \in Int
            /\ sub[x].lnparts \in Nat \ {0} /\ sub[x].mype \in PEsOf(sub[x])
        BY <1>2 DEF Halves
      <4>2. sub[x].lnpes > 1
        BY <2>1, <3>1, <4>1 DEF PEsOf
      <4> QED BY <1>2, <4>1, <4>2 DEF Splitting
    <3> QED BY <1>1, <1>2, <2>3, <3>1, <3>2, LabelsAre
  <2> QED BY <1>5, <2>2, <2>3, <2>4
<1>8. SumFunctionOnSet(f, C) = f[q]
  <2>1. f[q] \in Int
    BY <1>6 DEF PartsOf
  <2> HIDE DEF f
  <2> QED BY <1>1, <1>7, <2>1, SumOfOne
<1> QED BY <1>5, <1>6, <1>8 DEF C

\* The labels are summed up.
LEMMA ReduceKeeps == ASSUME VoteInv, Reduce PROVE LabelledOnce' /\ DOMAIN gwhere0' = {}
<1>1. Grouped /\ Manned /\ Covered /\ Apart /\ Labelled /\ DOMAIN gwhere0 = Scratch
  BY DEF VoteInv, Reduce
<1>2. Vertex' = Vertex /\ sub' = sub /\ gwhere0' = <<>>
  BY DEF Reduce, Vertex
<1>3. gwhere1' = [p \in {Min(sub[q].group) : q \in Scratch} |-> [v \in Vertex |->
                   SumFunctionOnSet([q \in sub[p].group |-> gwhere0[q][v]], sub[p].group)]]
  BY DEF Reduce
<1>4. ASSUME NEW p \in DOMAIN gwhere1'
      PROVE  p \in Scratch /\ sub[p].group = GroupOf(p)
             /\ \A v \in Vertex : gwhere1'[p][v] =
                  SumFunctionOnSet([x \in GroupOf(p) |-> gwhere0[x][v]], GroupOf(p))
  <2>1. PICK q \in Scratch : p = Min(sub[q].group)
    BY <1>3
  <2>2. sub[q].group = GroupOf(q)
    BY <1>1 DEF Grouped
  <2>3. p \in GroupOf(q)
    BY <2>1, <2>2, GroupIs, MinIs
  <2>4. p \in Scratch
    BY <2>3, GroupIs
  <2>5. sub[p].group = GroupOf(p)
    BY <1>1, <2>4 DEF Grouped
  <2>6. gwhere1'[p] = [v \in Vertex |->
                         SumFunctionOnSet([x \in GroupOf(p) |-> gwhere0[x][v]], GroupOf(p))]
    BY <1>3, <2>5
  <2> QED BY <2>4, <2>5, <2>6
<1>5. ASSUME NEW p \in Scratch
      PROVE  Part = UNION {sub[q].fpart..(sub[q].fpart + sub[q].lnparts - 1) : q \in GroupOf(p)}
  <2>1. \A a \in Part : \E q \in GroupOf(p) : a \in sub[q].fpart..(sub[q].fpart + sub[q].lnparts - 1)
    BY <1>1 DEF Covered, PartsOf
  <2>2. ASSUME NEW q \in GroupOf(p), NEW a \in sub[q].fpart..(sub[q].fpart + sub[q].lnparts - 1)
        PROVE  a \in Part
    <3>1. q \in Scratch
      BY GroupIs
    <3>2. sub[q] \in Halves /\ sub[q].fpart + sub[q].lnparts <= nparts
      BY <1>1, <3>1 DEF Grouped
    <3>3. sub[q].fpart \in Nat /\ sub[q].lnparts \in Nat
      BY <3>2 DEF Halves
    <3> QED BY <3>2, <3>3, NpartsAssumption DEF Part
  <2> QED BY <2>1, <2>2
<1>6. LabelledOnce'
  <2> SUFFICES ASSUME NEW p \in DOMAIN gwhere1'
               PROVE  /\ Part = UNION {sub[q].fpart..(sub[q].fpart + sub[q].lnparts - 1) :
                                         q \in sub[p].group}
                      /\ \A v \in Vertex : \E q \in sub[p].group :
                           /\ v \in sub[q].label
                           /\ gwhere1'[p][v] \in sub[q].fpart..(sub[q].fpart + sub[q].lnparts - 1)
    BY <1>2 DEF LabelledOnce
  <2>1. p \in Scratch /\ sub[p].group = GroupOf(p)
    BY <1>4
  <2>2. ASSUME NEW v \in Vertex
        PROVE  \E q \in GroupOf(p) :
                 /\ v \in sub[q].label
                 /\ gwhere1'[p][v] \in sub[q].fpart..(sub[q].fpart + sub[q].lnparts - 1)
    <3>1. \E q \in GroupOf(p) :
            /\ v \in sub[q].label
            /\ SumFunctionOnSet([x \in GroupOf(p) |-> gwhere0[x][v]], GroupOf(p))
                 \in PartsOf(sub[q])
      BY <1>1, <2>1, OneLabel
    <3>2. gwhere1'[p][v] = SumFunctionOnSet([x \in GroupOf(p) |-> gwhere0[x][v]], GroupOf(p))
      BY <1>4
    <3> QED BY <3>1, <3>2 DEF PartsOf
  <2> QED BY <1>5, <2>1, <2>2
<1> QED BY <1>2, <1>6

LEMMA InitVotes == Init => VoteInv
BY DEF Init, VoteInv, LabelledOnce

\* Every step.  The size of the graph and the groups stay while labels are given.
LEMMA NextVotes == VoteInv /\ [Next]_vars => VoteInv'
<1> SUFFICES ASSUME VoteInv, [Next]_vars PROVE VoteInv'
  OBVIOUS
<1>1. CASE UNCHANGED <<stage, way, size, ncon, sub, gwhere0, gwhere1, pc>>
  <2>1. Scratch' = Scratch /\ Vertex' = Vertex /\ Halves' = Halves
        /\ \A q : GroupOf(q)' = GroupOf(q)
    BY <1>1 DEF Scratch, OneStrategy, GroupOf, ngroups, Vertex, Halves
  <2>2. \A q : Labels(q)' = Labels(q) /\ Splitting(q)' = Splitting(q)
    BY <1>1, <2>1 DEF Labels, Leads, Splitting
  <2>3. Grouped /\ Manned /\ Covered /\ Apart /\ Labelled =>
          Grouped' /\ Manned' /\ Covered' /\ Apart' /\ Labelled'
    BY <1>1, <2>1, <2>2 DEF Grouped, Manned, Covered, Apart, Labelled
  <2>4. LabelledOnce => LabelledOnce'
    BY <1>1, <2>1 DEF LabelledOnce
  <2>5. pc' = pc /\ stage' = stage /\ DOMAIN gwhere0' = DOMAIN gwhere0
    BY <1>1
  <2> QED BY <2>3, <2>4, <2>5 DEF VoteInv
<1>2. CASE stage = "idle" /\ stage' = "idle" /\ gwhere0' = gwhere0
  BY <1>2 DEF VoteInv, LabelledOnce
<1>3. CASE Coarsen \/ Ascend \/ Again \/ Return \/ Ended
  BY <1>1, <1>2, <1>3 DEF Coarsen, Ascend, Again, Return, Ended, VoteInv, vars, initvars
<1>4. CASE Start
  <2>1. pc' = "place" /\ DOMAIN gwhere0 = {} /\ gwhere0' = gwhere0 /\ UNCHANGED <<way, size, ncon>>
    BY <1>4 DEF Start, VoteInv
  <2>2. CASE stage' = "placed"
    BY <2>1, <2>2 DEF VoteInv, LabelledOnce
  <2>3. CASE stage' = "bisect" /\ sub' = [p \in Scratch |-> Whole(p)]
    BY <2>1, <2>3, WholeVotes DEF VoteInv, LabelledOnce
  <2> QED BY <1>4, <2>2, <2>3 DEF Start
<1>5. CASE Placed
  <2>1. stage' = "idle" /\ DOMAIN gwhere0' = {}
    BY <1>5 DEF Placed, VoteInv
  <2> QED BY <2>1 DEF VoteInv, LabelledOnce
<1>6. CASE Place
  <2>1. pc' = "place"
    BY <1>6 DEF Place
  <2>2. CASE Bisect
    BY <2>1, <2>2, BisectKeeps DEF VoteInv, LabelledOnce, Bisect
  <2>3. CASE Label
    BY <2>1, <2>3, LabelKeeps DEF VoteInv, LabelledOnce, Label
  <2>4. CASE Reduce
    BY <2>1, <2>4, ReduceKeeps DEF VoteInv, Reduce
  <2>5. CASE TakeBest \/ SendBest \/ Wavefront \/ McDiffusion \/ Decide
    <3>1. stage' \in {"placed", "decide", "diffuse"} /\ DOMAIN gwhere0' = {}
      BY <2>5 DEF TakeBest, SendBest, Wavefront, McDiffusion, Decide, VoteInv
    <3> QED BY <2>1, <3>1 DEF VoteInv, LabelledOnce
  <2> QED BY <1>6, <2>2, <2>3, <2>4, <2>5 DEF Place, PlaceNext
<1>7. CASE UNCHANGED vars
  BY <1>1, <1>7 DEF vars, initvars
<1> QED BY <1>3, <1>4, <1>5, <1>6, <1>7 DEF Next

\* However PEs and parts divide, when the labels of a group are summed up every vertex
\* of the coarsest graph has one label, of a part the PE that gave it has, and every part
\* belongs to some PE.
THEOREM EachLabelledOnce == Spec => []LabelledOnce
<1>1. VoteInv => LabelledOnce
  BY DEF VoteInv
<1> QED BY <1>1, InitVotes, NextVotes, PTL DEF Spec

-----------------------------------------------------------------------------
(* The elections.                                                          *)

\* The greatest of some numbers.
LEMMA MaxIs ==
  ASSUME NEW S, IsFiniteSet(S), S # {}, S \subseteq Int
  PROVE  Max(S) \in S /\ \A k \in S : k <= Max(S)
<1> DEFINE n == Cardinality(S)
<1>1. n \in Nat /\ n # 0
  BY FS_EmptySet, FS_CardinalityType
<1>2. n - 1 \in 0..(n - 1)
  BY <1>1
<1>3. PICK i \in S : Rank(i, S) = n - 1
  BY <1>2, RankIs
<1> DEFINE Below  == {k \in S : k < i}
           Others == S \ {i}
<1>4. i \in Int /\ ~(i < i)
  <2>1. i \in Int
    OBVIOUS
  <2> QED BY <2>1
<1>5. Below \in SUBSET Others
  BY <1>4
<1>6. IsFiniteSet(Others) /\ Cardinality(Others) = n - 1 /\ Cardinality(Below) = n - 1
  BY <1>3, FS_RemoveElement DEF Rank
<1> HIDE DEF Below, Others
<1>7. Below = Others
  BY <1>5, <1>6, FS_Subset
<1>8. \A k \in S : k # i => k < i
  BY <1>7 DEF Below, Others
<1>9. \A k \in S : k \in Int /\ (k = i \/ k < i)
  BY <1>8
<1>10. \A k \in S : i >= k
  BY <1>4, <1>9
<1>11. Max(S) \in S /\ \A k \in S : Max(S) >= k
  BY <1>10 DEF Max
<1>12. \A k \in S : k \in Int /\ Max(S) \in Int
  BY <1>11
<1> QED BY <1>11, <1>12

LEMMA ImageFinite ==
  ASSUME NEW S, IsFiniteSet(S), NEW f
  PROVE  IsFiniteSet({f[x] : x \in S})
<1> DEFINE T == {f[x] : x \in S}
           h == [x \in S |-> f[x]]
<1>1. h \in Surjection(S, T)
  BY DEF Surjection
<1> HIDE DEF h, T
<1>2. IsFiniteSet(T)
  BY <1>1, FS_Surjection
<1> QED BY <1>2 DEF T

\* A function that adds up one place after the other (the loops of ComputeSerialBalance).
Summing(s, k, w, a) ==
  s = [i \in 0..k |-> IF i = 0 THEN 0
                      ELSE s[i - 1] + (IF w[i - 1] = a THEN VWgt[size][i - 1] ELSE 0)]

LEMMA PartWeightIs == \A w, a : PartWeight(w, a) = (CHOOSE s : Summing(s, size, w, a))[size]
BY DEF PartWeight, Summing

LEMMA SummingIs ==
  \A s, k, w, a : Summing(s, k, w, a) <=>
    /\ s = [i \in 0..k |-> s[i]]
    /\ \A i \in 0..k : s[i] = IF i = 0 THEN 0
                              ELSE s[i - 1] + (IF w[i - 1] = a THEN VWgt[size][i - 1] ELSE 0)
BY DEF Summing

\* What holds of 0 and goes on to the next number holds of all.
LEMMA Upwards ==
  ASSUME NEW n \in Nat, NEW G, 0 \in G, \A i \in 1..n : i - 1 \in G => i \in G
  PROVE  \A i \in 0..n : i \in G
<1> DEFINE B == {i \in 0..n : i \notin G}
<1> SUFFICES ASSUME B # {} PROVE FALSE
  OBVIOUS
<1>1. B \in SUBSET (0..n) /\ IsFiniteSet(0..n)
  BY FS_Interval
<1>2. IsFiniteSet(B) /\ B \subseteq Int
  BY <1>1, FS_Subset
<1>3. Min(B) \in B /\ \A k \in B : Min(B) <= k
  BY <1>2, MinIs
<1> DEFINE m == Min(B)
<1>4. m \in 0..n /\ m \notin G /\ m # 0
  BY <1>3
<1>5. m \in 1..n /\ m - 1 \in 0..n /\ ~(m <= m - 1)
  BY <1>4
<1>6. m - 1 \in G
  BY <1>3, <1>5
<1> QED BY <1>4, <1>5, <1>6

Sized == size \in DOMAIN Home

\* There is such a function, and its values are natural numbers.
LEMMA SummingExists ==
  ASSUME Sized, NEW w, NEW a
  PROVE  \E s \in [0..size -> Nat] : Summing(s, size, w, a)
<1> DEFINE d(i) == IF w[i] = a THEN VWgt[size][i] ELSE 0
           G == {k \in 0..size : \E s \in [0..k -> Nat] : Summing(s, k, w, a)}
<1>1. size \in Nat /\ \A i \in 0..(size - 1) : d(i) \in Nat
  BY HomeAssumption, GraphAssumption DEF Sized
<1>2. 0 \in G
  <2> DEFINE s == [i \in 0..0 |-> 0]
  <2>1. s \in [0..0 -> Nat] /\ Summing(s, 0, w, a)
    BY DEF Summing
  <2> QED BY <1>1, <2>1
<1>3. ASSUME NEW k \in 1..size, k - 1 \in G PROVE k \in G
  <2>1. PICK s \in [0..(k - 1) -> Nat] : Summing(s, k - 1, w, a)
    BY <1>3
  <2>2. \A i \in 0..(k - 1) : s[i] = IF i = 0 THEN 0 ELSE s[i - 1] + d(i - 1)
    BY <2>1, SummingIs
  <2> DEFINE t == [i \in 0..k |-> IF i = k THEN s[k - 1] + d(k - 1) ELSE s[i]]
  <2>3. d(k - 1) \in Nat /\ s[k - 1] \in Nat
    BY <1>1, <2>1
  <2> HIDE DEF d
  <2>4. t \in [0..k -> Nat]
    BY <2>1, <2>3
  <2>5. \A i \in 0..k : t[i] = IF i = 0 THEN 0 ELSE t[i - 1] + d(i - 1)
    <3>1. t[k] = t[k - 1] + d(k - 1) /\ k # 0
      OBVIOUS
    <3>2. ASSUME NEW i \in 0..(k - 1), i # 0 PROVE t[i] = t[i - 1] + d(i - 1)
      BY <2>2, <3>2
    <3>3. t[0] = 0
      BY <2>2
    <3> QED BY <3>1, <3>2, <3>3
  <2>6. t = [i \in 0..k |-> t[i]]
    OBVIOUS
  <2> HIDE DEF t
  <2>7. Summing(t, k, w, a)
    BY <2>5, <2>6, SummingIs DEF d
  <2> QED BY <2>4, <2>7
<1> HIDE DEF G
<1>4. \A k \in 0..size : k \in G
  BY <1>1, <1>2, <1>3, Upwards
<1>5. size \in G
  BY <1>1, <1>4
<1> QED BY <1>5, Zenon DEF G

LEMMA SummingUnique ==
  ASSUME Sized, NEW w, NEW a, NEW u, NEW b, \A i \in 0..(size - 1) : w[i] = a <=> u[i] = b
  PROVE  \A s, t : Summing(s, size, w, a) /\ Summing(t, size, u, b) => s[size] = t[size]
<1> SUFFICES ASSUME NEW s, Summing(s, size, w, a), NEW t, Summing(t, size, u, b)
             PROVE  s[size] = t[size]
  OBVIOUS
<1> DEFINE G == {k \in 0..size : s[k] = t[k]}
<1>1. size \in Nat
  BY HomeAssumption DEF Sized
<1>2. 0 \in G
  BY <1>1, SummingIs
<1>3. ASSUME NEW k \in 1..size, k - 1 \in G PROVE k \in G
  <2>1. k \in 0..size /\ k # 0 /\ k - 1 \in 0..(size - 1) /\ s[k - 1] = t[k - 1]
    BY <1>1, <1>3
  <2>2. /\ s[k] = s[k - 1] + (IF w[k - 1] = a THEN VWgt[size][k - 1] ELSE 0)
        /\ t[k] = t[k - 1] + (IF u[k - 1] = b THEN VWgt[size][k - 1] ELSE 0)
    BY <2>1, SummingIs
  <2> QED BY <2>1, <2>2
<1> HIDE DEF G
<1>4. \A k \in 0..size : k \in G
  BY <1>1, <1>2, <1>3, Upwards
<1> QED BY <1>1, <1>4 DEF G

\* The weight of a part, and that a part of the same vertices weighs as much.
LEMMA WeightIs == ASSUME Sized, NEW w, NEW a PROVE PartWeight(w, a) \in Nat
<1> DEFINE s == CHOOSE x : Summing(x, size, w, a)
<1>1. PICK t \in [0..size -> Nat] : Summing(t, size, w, a)
  BY SummingExists
<1>2. Summing(s, size, w, a)
  BY <1>1
<1>3. s[size] = t[size]
  <2>1. \A x, y : Summing(x, size, w, a) /\ Summing(y, size, w, a) => x[size] = y[size]
    BY SummingUnique
  <2> HIDE DEF s
  <2> QED BY <1>1, <1>2, <2>1
<1>4. size \in 0..size
  BY HomeAssumption DEF Sized
<1> QED BY <1>1, <1>3, <1>4, PartWeightIs

LEMMA WeightSame ==
  ASSUME Sized, NEW w, NEW a, NEW u, NEW b, \A v \in Vertex : w[v] = a <=> u[v] = b
  PROVE  PartWeight(w, a) = PartWeight(u, b)
<1> DEFINE s == CHOOSE x : Summing(x, size, w, a)
           t == CHOOSE x : Summing(x, size, u, b)
<1>1. Summing(s, size, w, a) /\ Summing(t, size, u, b)
  BY SummingExists
<1>2. s[size] = t[size]
  <2> HIDE DEF s, t
  <2> QED BY <1>1, SummingUnique DEF Vertex
<1> QED BY <1>2, PartWeightIs

LEMMA Products ==
  /\ \A a, b \in Nat : a * b \in Nat
  /\ \A a, b, c \in Nat : a > 0 /\ a * b <= a * c => b <= c
  /\ \A a, b, c \in Nat : b < c => a * b <= a * c
  /\ \A a, b \in Nat : a > 0 /\ b > 0 => a * b > 0
  /\ \A a, b, c \in Nat : a > 0 /\ b < c => a * b < a * c
OBVIOUS

LEMMA LoadIs == ASSUME Sized, NEW w PROVE Load(w) \in Nat /\ Tvwgt \in Nat
<1> DEFINE f == [a \in Part |-> PartWeight(w, a)]
           T == {PartWeight(w, a) : a \in Part}
<1>1. Part \subseteq Int /\ IsFiniteSet(Part) /\ 0 \in Part
  BY NpartsAssumption, FS_Interval DEF Part
<1>2. T = {f[a] : a \in Part}
  OBVIOUS
<1>3. T \subseteq Nat
  BY WeightIs
<1>4. IsFiniteSet({f[a] : a \in Part})
  <2> HIDE DEF f
  <2> QED BY <1>1, ImageFinite
<1>5. PartWeight(w, 0) \in T
  BY <1>1
<1> HIDE DEF T, f
<1>6. Max(T) \in T
  <2>1. IsFiniteSet(T) /\ T # {} /\ T \subseteq Int
    BY <1>2, <1>3, <1>4, <1>5
  <2> QED BY <2>1, MaxIs
<1>7. Load(w) = nparts * Max(T)
  BY DEF Load, T
<1>8. nparts * Max(T) \in Nat
  BY <1>3, <1>6, NpartsAssumption, Products
<1> QED BY <1>7, <1>8, WeightIs DEF Tvwgt

LEMMA CutIs == ASSUME Sized, NEW w PROVE Cut(w) \in Nat
<1> DEFINE C == {e \in Edge[size] : \E u, v \in e : w[u] # w[v]}
<1>1. C \in SUBSET Edge[size] /\ IsFiniteSet(Edge[size])
  BY GraphAssumption DEF Sized
<1> HIDE DEF C
<1>2. IsFiniteSet(C)
  BY <1>1, FS_Subset
<1> QED BY <1>2, FS_CardinalityType DEF C, Cut

\* New names of the parts change neither the cut nor the balance.
LEMMA RemapKeeps ==
  ASSUME Sized, NEW w \in Partitions, NEW u \in SerialRemap(w)
  PROVE  u \in Partitions /\ Cut(u) = Cut(w) /\ Load(u) = Load(w)
<1>1. PICK m \in Names : u = [v \in Vertex |-> m[w[v]]]
  BY DEF SerialRemap, Renamings
<1>2. /\ m \in [Part -> Part]
      /\ \A a, b \in Part : m[a] = m[b] => a = b
      /\ \A b \in Part : \E a \in Part : m[a] = b
  BY DEF Names, Bijection, Injection, Surjection, IsInjective
<1>3. \A v \in Vertex : w[v] \in Part /\ u[v] = m[w[v]]
  BY <1>1 DEF Partitions
<1>4. u \in Partitions
  BY <1>1, <1>2, <1>3 DEF Partitions
<1>5. \A e \in Edge[size] : \A x, y \in e : w[x] # w[y] <=> u[x] # u[y]
  <2>1. \A e \in Edge[size] : \A x \in e : x \in Vertex
    BY GraphAssumption DEF Sized, Vertex
  <2> QED BY <1>2, <1>3, <2>1
<1>6. {e \in Edge[size] : \E x, y \in e : w[x] # w[y]} = {e \in Edge[size] : \E x, y \in e : u[x] # u[y]}
  BY <1>5
<1>7. ASSUME NEW a \in Part PROVE PartWeight(w, a) = PartWeight(u, m[a])
  <2>1. \A v \in Vertex : w[v] = a <=> u[v] = m[a]
    BY <1>2, <1>3
  <2> QED BY <2>1, WeightSame
<1>8. {PartWeight(w, a) : a \in Part} = {PartWeight(u, a) : a \in Part}
  BY <1>2, <1>7
<1> QED BY <1>4, <1>6, <1>8 DEF Cut, Load

\* The candidates of an election, and who is elected.
LEMMA LeastIs ==
  ASSUME NEW D, IsFiniteSet(D), D # {}, D \subseteq Int, NEW c, \A p \in D : c[p] \in Int
  PROVE  \E p \in D : \A q \in D : c[p] < c[q] \/ (c[p] = c[q] /\ p <= q)
<1> DEFINE C == {c[p] : p \in D}
           E == {p \in D : c[p] = Min(C)}
<1>1. IsFiniteSet(C) /\ C # {} /\ C \subseteq Int
  <2>1. IsFiniteSet(C)
    BY ImageFinite
  <2> QED BY <2>1
<1> HIDE DEF C
<1>2. Min(C) \in C /\ \A x \in C : Min(C) <= x
  BY <1>1, MinIs
<1>3. E # {} /\ E \in SUBSET D
  BY <1>2 DEF C
<1>4. IsFiniteSet(E) /\ E \subseteq Int
  BY <1>3, FS_Subset
<1> HIDE DEF E
<1>5. Min(E) \in E /\ \A x \in E : Min(E) <= x
  BY <1>3, <1>4, MinIs
<1>6. Min(E) \in D /\ c[Min(E)] = Min(C)
  BY <1>5 DEF E
<1>7. ASSUME NEW q \in D PROVE c[Min(E)] < c[q] \/ (c[Min(E)] = c[q] /\ Min(E) <= q)
  <2>1. c[q] \in Int /\ c[q] \in C /\ Min(C) <= c[q] /\ Min(C) \in Int
    BY <1>1, <1>2 DEF C
  <2>2. CASE c[q] = Min(C)
    <3>1. q \in E
      BY <2>2 DEF E
    <3> QED BY <1>5, <1>6, <2>2, <3>1
  <2>3. CASE c[q] # Min(C)
    BY <1>6, <2>1, <2>3
  <2> QED BY <2>2, <2>3
<1> QED BY <1>6, <1>7

\* The election by cut takes a balanced partition with the least cut when there is one
\* that can win.
LEMMA ElectedIs ==
  ASSUME Sized, ncon \in Nat \ {0}, NEW cand,
         IsFiniteSet(DOMAIN cand), DOMAIN cand # {}, DOMAIN cand \subseteq Int
  PROVE  /\ \E q \in DOMAIN cand : ByCut(cand) = cand[q]
         /\ \A x, y \in DOMAIN cand :
              /\ Balanced(cand[x]) /\ (way = "balance" \/ Cut(cand[x]) < Cut(cand[y]))
              => /\ Balanced(ByCut(cand))
                 /\ \A z \in DOMAIN cand : Balanced(cand[z]) => Cut(ByCut(cand)) <= Cut(cand[z])
<1> DEFINE D == DOMAIN cand
           price == [p \in D |-> Cut(cand[p])]
           row(p) == [pe |-> p, load |-> Load(cand[p]), price |-> price[p]]
           rows == {row(p) : p \in D}
           fine == {r \in rows : Fine(r.load)}
           prices == {r.price : r \in rows}
           worst == Max(prices)
           extra(r) == IF way = "balance" THEN ncon * r.load ELSE 0
           cost(r) == IF fine = {} THEN ncon * r.load
                      ELSE IF r \in fine THEN Tvwgt * r.price ELSE Tvwgt * worst + extra(r)
           least(r) == \A s \in rows : cost(r) < cost(s) \/ (cost(r) = cost(s) /\ r.pe <= s.pe)
           c == [p \in D |-> cost(row(p))]
<1>1. Elected(cand, price) = (CHOOSE r \in rows : least(r)).pe
  BY DEF Elected, ElectedWith
<1>2. \A p \in D : /\ row(p) \in rows /\ row(p).pe = p /\ row(p).load = Load(cand[p])
                   /\ row(p).price = Cut(cand[p])
                   /\ row(p).load \in Nat /\ row(p).price \in Nat
                   /\ row(p) \in fine <=> Balanced(cand[p])
  BY LoadIs, CutIs DEF Balanced
<1>3. \A r \in rows : \E p \in D : r = row(p)
  OBVIOUS
<1>4. worst \in Nat /\ \A p \in D : Cut(cand[p]) <= worst
  <2>1. prices = {price[p] : p \in D}
    <3>1. \A p \in D : row(p) \in rows /\ row(p).price = price[p]
      OBVIOUS
    <3> HIDE DEF price, row
    <3> QED BY <3>1
  <2>2. prices \subseteq Nat /\ prices # {} /\ \A p \in D : Cut(cand[p]) \in prices
    BY <2>1, CutIs
  <2>3. IsFiniteSet({price[p] : p \in D})
    <3> HIDE DEF price
    <3> QED BY ImageFinite
  <2> HIDE DEF prices
  <2>4. IsFiniteSet(prices) /\ prices \subseteq Int
    BY <2>1, <2>2, <2>3
  <2>5. Max(prices) \in prices /\ \A k \in prices : k <= Max(prices)
    BY <2>2, <2>4, MaxIs
  <2> QED BY <2>2, <2>5
<1> HIDE DEF price, row, rows, fine, worst
<1>5. ASSUME NEW p \in D PROVE extra(row(p)) \in Nat /\ cost(row(p)) \in Int
  <2>1. /\ ncon * row(p).load \in Nat /\ Tvwgt * row(p).price \in Nat /\ Tvwgt * worst \in Nat
        /\ Tvwgt \in Nat
    BY <1>2, <1>4, LoadIs, Products
  <2> QED BY <2>1
<1>6. \E p \in D : \A q \in D : c[p] < c[q] \/ (c[p] = c[q] /\ p <= q)
  <2>1. \A p \in D : c[p] \in Int
    BY <1>5
  <2> HIDE DEF c
  <2> QED BY <2>1, LeastIs
<1>7. \E r \in rows : least(r)
  <2>1. PICK p \in D : \A q \in D : c[p] < c[q] \/ (c[p] = c[q] /\ p <= q)
    BY <1>6
  <2>2. \A q \in D : c[q] = cost(row(q))
    OBVIOUS
  <2> HIDE DEF cost, c
  <2>3. least(row(p))
    <3> SUFFICES ASSUME NEW s \in rows
                 PROVE  cost(row(p)) < cost(s) \/ (cost(row(p)) = cost(s) /\ row(p).pe <= s.pe)
      OBVIOUS
    <3>1. PICK q \in D : s = row(q)
      BY <1>3
    <3> QED BY <1>2, <2>1, <2>2, <3>1
  <2> HIDE DEF least
  <2> QED BY <1>2, <2>3
<1> DEFINE won == CHOOSE r \in rows : least(r)
<1>8. won \in rows /\ least(won)
  <2> HIDE DEF least
  <2> QED BY <1>7
<1> HIDE DEF won, least
<1>9. PICK q \in D : won = row(q)
  BY <1>3, <1>8
<1>10. ByCut(cand) = cand[q]
  BY <1>1, <1>2, <1>9 DEF ByCut, price, won
<1>11. \A p \in D : cost(row(q)) <= cost(row(p))
  <2>1. \A p \in D : cost(row(q)) < cost(row(p)) \/ cost(row(q)) = cost(row(p))
    <3> HIDE DEF cost
    <3> QED BY <1>2, <1>8, <1>9 DEF least
  <2>2. cost(row(q)) \in Int /\ \A p \in D : cost(row(p)) \in Int
    BY <1>5
  <2> HIDE DEF cost
  <2> QED BY <2>1, <2>2
<1>12. ASSUME NEW x \in D, NEW y \in D, Balanced(cand[x]), way = "balance" \/ Cut(cand[x]) < Cut(cand[y])
       PROVE  /\ Balanced(cand[q])
              /\ \A z \in D : Balanced(cand[z]) => Cut(cand[q]) <= Cut(cand[z])
  <2>1. row(x) \in fine /\ fine # {}
    BY <1>2, <1>12
  <2>2. Tvwgt \in Nat /\ Tvwgt > 0
    <3>1. 100 * Load(cand[x]) < 105 * Tvwgt /\ Load(cand[x]) \in Nat /\ Tvwgt \in Nat
      BY <1>12, LoadIs DEF Balanced, Fine
    <3> QED BY <3>1
  <2>3. \A z \in D : Balanced(cand[z]) => cost(row(z)) = Tvwgt * Cut(cand[z])
    BY <1>2, <2>1
  <2>4. ASSUME ~Balanced(cand[q]) PROVE FALSE
    <3>1. row(q) \notin fine
      BY <1>2, <2>4
    <3>2. cost(row(q)) = Tvwgt * worst + extra(row(q))
      BY <2>1, <3>1
    <3>3. Tvwgt * worst + extra(row(q)) <= Tvwgt * Cut(cand[x])
      BY <1>11, <1>12, <2>3, <3>2
    <3>4. /\ Cut(cand[x]) \in Nat /\ Cut(cand[y]) \in Nat /\ Cut(cand[x]) <= worst /\ Cut(cand[y]) <= worst
          /\ extra(row(q)) \in Nat /\ Tvwgt * worst \in Nat /\ Tvwgt * Cut(cand[x]) \in Nat
      BY <1>4, <1>5, <2>2, CutIs, Products
    <3>5. Tvwgt * Cut(cand[x]) <= Tvwgt * worst
      <4>1. Cut(cand[x]) = worst \/ Cut(cand[x]) < worst
        BY <1>4, <3>4
      <4> QED BY <1>4, <2>2, <3>4, <4>1, Products
    <3>6. CASE way = "balance"
      <4>1. row(q).load = Load(cand[q]) /\ Load(cand[q]) \in Nat /\ ~(100 * Load(cand[q]) < 105 * Tvwgt)
        BY <1>2, <2>4, LoadIs DEF Balanced, Fine
      <4>2. Load(cand[q]) > 0
        BY <2>2, <4>1
      <4>3. extra(row(q)) > 0
        BY <3>6, <4>1, <4>2, Products
      <4> HIDE DEF extra
      <4> QED BY <3>3, <3>4, <3>5, <4>3
    <3>7. CASE Cut(cand[x]) < Cut(cand[y])
      <4>1. Cut(cand[x]) < worst
        BY <1>4, <3>4, <3>7
      <4>2. Tvwgt * Cut(cand[x]) < Tvwgt * worst
        BY <1>4, <2>2, <3>4, <4>1, Products
      <4> HIDE DEF extra
      <4> QED BY <3>3, <3>4, <4>2
    <3> QED BY <1>12, <3>6, <3>7
  <2>5. ASSUME NEW z \in D, Balanced(cand[z]) PROVE Cut(cand[q]) <= Cut(cand[z])
    <3>1. Tvwgt * Cut(cand[q]) <= Tvwgt * Cut(cand[z])
      BY <1>11, <2>3, <2>4, <2>5
    <3> QED BY <2>2, <3>1, CutIs, Products
  <2> QED BY <2>4, <2>5
<1> QED BY <1>10, <1>12

\* The same in the terms of the property.
LEMMA WinnerIs ==
  ASSUME Sized, ncon \in Nat \ {0}, NEW cand,
         IsFiniteSet(DOMAIN cand), DOMAIN cand # {}, DOMAIN cand \subseteq Int
  PROVE  LET all  == Range(cand)
             cuts == {Cut(w) : w \in {x \in all : Balanced(x)}}
         IN  /\ cuts # {} /\ (way = "balance" \/ Min(cuts) < Max({Cut(w) : w \in all})) =>
                  Balanced(ByCut(cand)) /\ Cut(ByCut(cand)) = Min(cuts)
             /\ DOMAIN cand = {0} => ~(cuts # {} /\ Min(cuts) < Max({Cut(w) : w \in all}))
<1> DEFINE D == DOMAIN cand
           cut == [p \in D |-> Cut(cand[p])]
           all  == Range(cand)
           cuts == {Cut(w) : w \in {x \in all : Balanced(x)}}
           every == {Cut(w) : w \in all}
<1>1. all = {cand[p] : p \in D}
  BY DEF Range
<1>2. every = {cut[p] : p \in D} /\ cuts \subseteq every
  BY <1>1
<1>3. every \subseteq Nat /\ every # {}
  BY <1>1, CutIs
<1>4. \A p \in D : Cut(cand[p]) \in every /\ (Balanced(cand[p]) => Cut(cand[p]) \in cuts)
  BY <1>1
<1>5. \A x \in every : \E p \in D : x = Cut(cand[p])
  BY <1>1
<1>6. \A x \in cuts : \E p \in D : x = Cut(cand[p]) /\ Balanced(cand[p])
  BY <1>1
<1>7. IsFiniteSet({cut[p] : p \in D})
  <2> HIDE DEF cut
  <2> QED BY ImageFinite
<1> HIDE DEF all, cuts, every, cut
<1>8. IsFiniteSet(every) /\ IsFiniteSet(cuts) /\ every \subseteq Int /\ cuts \subseteq Int
  <2>1. IsFiniteSet(every)
    BY <1>2, <1>7
  <2>2. cuts \in SUBSET every
    BY <1>2
  <2>3. IsFiniteSet(cuts)
    BY <2>1, <2>2, FS_Subset
  <2> QED BY <1>3, <2>1, <2>2, <2>3
<1>9. Max(every) \in every
  BY <1>3, <1>8, MaxIs
<1>10. PICK y \in D : Max(every) = Cut(cand[y])
  BY <1>5, <1>9
<1>11. ASSUME cuts # {}
       PROVE  Min(cuts) \in cuts /\ \A k \in cuts : Min(cuts) <= k
  BY <1>8, <1>11, MinIs
<1>12. ASSUME cuts # {}, way = "balance" \/ Min(cuts) < Max(every)
       PROVE  Balanced(ByCut(cand)) /\ Cut(ByCut(cand)) = Min(cuts)
  <2>1. PICK x \in D : Min(cuts) = Cut(cand[x]) /\ Balanced(cand[x])
    BY <1>6, <1>11, <1>12
  <2>2. /\ Balanced(ByCut(cand))
        /\ \A z \in D : Balanced(cand[z]) => Cut(ByCut(cand)) <= Cut(cand[z])
    BY <1>10, <1>12, <2>1, ElectedIs
  <2>3. PICK q \in D : ByCut(cand) = cand[q]
    BY ElectedIs
  <2>4. Min(cuts) <= Cut(cand[q]) /\ Cut(cand[q]) <= Min(cuts)
    BY <1>4, <1>11, <1>12, <2>1, <2>2, <2>3
  <2>5. Min(cuts) \in Nat /\ Cut(cand[q]) \in Nat
    BY <2>1, CutIs
  <2> QED BY <2>2, <2>3, <2>4, <2>5
<1>13. ASSUME D = {0}, cuts # {}, Min(cuts) < Max(every) PROVE FALSE
  <2>1. PICK x \in D : Min(cuts) = Cut(cand[x])
    BY <1>6, <1>11, <1>13
  <2>2. x = y
    BY <1>13
  <2>3. Cut(cand[x]) \in Nat
    BY CutIs
  <2> QED BY <1>10, <1>13, <2>1, <2>2, <2>3
<1> QED BY <1>12, <1>13 DEF all, cuts, every

\* Who stands for election: partitions, of the lowest PE of each group.
Candidates ==
  /\ IsFiniteSet(DOMAIN gwhere1) /\ DOMAIN gwhere1 # {} /\ DOMAIN gwhere1 \subseteq Int
  /\ \A p \in DOMAIN gwhere1 : gwhere1[p] \in Partitions
  /\ way = "init" /\ ~(ngroups > 1) => DOMAIN gwhere1 = {0}

LEMMA PairFinite == \A a, b : IsFiniteSet({a, b})
<1> SUFFICES ASSUME NEW a, NEW b PROVE IsFiniteSet({a, b})
  OBVIOUS
<1>1. IsFiniteSet({a} \union {b})
  BY FS_Singleton, FS_AddElement
<1>2. {a} \union {b} = {a, b}
  OBVIOUS
<1> QED BY <1>1, <1>2

\* What the coordinators have.
Coordinated ==
  /\ stage \in {"idle", "bisect", "elect", "diffuse", "decide", "placed"}
  /\ stage \notin {"diffuse", "decide"} => part = <<>>
  /\ stage = "diffuse" => /\ ncon <= MAX_NCON_FOR_DIFFUSION /\ gd_pe \in PE
                          /\ DOMAIN part = {sr_pe}
  /\ stage = "decide" =>
       /\ DOMAIN part = IF ncon <= MAX_NCON_FOR_DIFFUSION /\ gd_pe \in PE THEN {sr_pe, gd_pe} ELSE {sr_pe}
  /\ \A q \in DOMAIN part : part[q] \in Partitions

ElectInv ==
  /\ Sized /\ ncon \in Nat \ {0} /\ way \in {"init", "balance"}
  /\ pc # "place" => stage = "idle"
  /\ stage = "elect" => Candidates
  /\ Coordinated

LEMMA InitElects == Init => ElectInv
BY CoarserAssumption, NConsAssumption DEF Init, ElectInv, Sized, Coordinated

\* Two PEs at least diffuse when not all bisect.
LEMMA ScratchIs ==
  /\ Scratch \subseteq PE /\ 0 \in Scratch /\ IsFiniteSet(Scratch) /\ Scratch \subseteq Int
  /\ way = "init" => Scratch = PE
  /\ ncon \in Nat /\ way = "balance" => (Diffusers # {} <=> ncon <= MAX_NCON_FOR_DIFFUSION /\ gd_pe \in PE)
<1>1. PE \subseteq Int /\ IsFiniteSet(PE) /\ 0 \in PE
  BY NpesAssumption, FS_Interval DEF PE
<1>2. Scratch \in SUBSET PE /\ 0 \in Scratch
  BY <1>1 DEF Scratch
<1>3. IsFiniteSet(Scratch)
  BY <1>1, <1>2, FS_Subset
<1>4. ASSUME ncon \in Nat, way = "balance"
      PROVE  Diffusers # {} <=> ncon <= MAX_NCON_FOR_DIFFUSION /\ gd_pe \in PE
  <2>1. gd_pe \in PE <=> npes # 1
    BY NpesAssumption DEF gd_pe, PE
  <2>2. OneStrategy <=> ~(ncon <= MAX_NCON_FOR_DIFFUSION /\ gd_pe \in PE)
    BY <1>4, <2>1 DEF OneStrategy, MAX_NCON_FOR_DIFFUSION
  <2>3. OneStrategy => Diffusers = {}
    BY DEF Diffusers, Scratch
  <2>4. ~OneStrategy /\ gd_pe \in PE => gd_pe \in Diffusers
    BY <1>4 DEF Diffusers, Scratch, gd_pe
  <2> QED BY <2>2, <2>3, <2>4
<1> QED BY <1>1, <1>2, <1>3, <1>4 DEF Scratch

\* The sums of the labels are candidates.
LEMMA ReduceElects == ASSUME VoteInv, ElectInv, Reduce PROVE Candidates'
<1>1. Grouped /\ UNCHANGED <<way, size, ncon, sub>> /\ stage' = "elect"
  BY DEF VoteInv, Reduce
<1>2. gwhere1' = [p \in {Min(sub[q].group) : q \in Scratch} |-> [v \in Vertex |->
                   SumFunctionOnSet([q \in sub[p].group |-> gwhere0[q][v]], sub[p].group)]]
  BY DEF Reduce
<1>3. \A q \in Scratch : Min(sub[q].group) \in Scratch
  <2>1. \A q \in Scratch : /\ sub[q].group = GroupOf(q) /\ IsFiniteSet(GroupOf(q)) /\ GroupOf(q) # {}
                           /\ GroupOf(q) \subseteq Int /\ GroupOf(q) \subseteq Scratch
    BY <1>1, GroupIs DEF Grouped
  <2>2. \A q \in Scratch : Min(GroupOf(q)) \in GroupOf(q)
    BY <2>1, MinIs
  <2> QED BY <2>1, <2>2
<1>4. DOMAIN gwhere1' \in SUBSET Scratch /\ DOMAIN gwhere1' # {}
  BY <1>2, <1>3, ScratchIs
<1>5. IsFiniteSet(DOMAIN gwhere1') /\ DOMAIN gwhere1' \subseteq Int
  BY <1>4, ScratchIs, FS_Subset
<1>6. Vertex' = Vertex /\ Partitions' = Partitions /\ Scratch' = Scratch /\ ngroups' = ngroups
  BY <1>1 DEF Vertex, Partitions, Scratch, OneStrategy, ngroups
<1>7. ASSUME NEW p \in DOMAIN gwhere1' PROVE gwhere1'[p] \in Partitions
  <2>1. LabelledOnce' /\ stage' = "elect" /\ sub' = sub
    BY <1>1, ReduceKeeps
  <2>2. /\ Part = UNION {sub[q].fpart..(sub[q].fpart + sub[q].lnparts - 1) : q \in sub[p].group}
        /\ \A v \in Vertex : \E q \in sub[p].group :
             gwhere1'[p][v] \in sub[q].fpart..(sub[q].fpart + sub[q].lnparts - 1)
    BY <1>6, <2>1 DEF LabelledOnce
  <2>3. \A v \in Vertex : gwhere1'[p][v] \in Part
    BY <2>2
  <2>4. gwhere1'[p] = [v \in Vertex |->
               SumFunctionOnSet([q \in sub[p].group |-> gwhere0[q][v]], sub[p].group)]
    BY <1>2
  <2> QED BY <2>3, <2>4 DEF Partitions
<1>8. ASSUME way = "init", ~(ngroups > 1) PROVE DOMAIN gwhere1' = {0}
  <2>1. ngroups = 1
    <3>1. Cardinality(Scratch) \in Nat \ {0}
      BY ScratchIs, FS_EmptySet, FS_CardinalityType
    <3> DEFINE S == {RIP_SPLIT_FACTOR, Cardinality(Scratch)}
    <3>2. IsFiniteSet(S) /\ S # {} /\ S \subseteq Int /\ S \subseteq Nat \ {0}
      <4>1. IsFiniteSet(S)
        BY PairFinite
      <4>2. RIP_SPLIT_FACTOR \in Nat \ {0}
        BY SplitAssumption
      <4> QED BY <3>1, <4>1, <4>2
    <3>3. Min(S) \in S
      <4> HIDE DEF S
      <4> QED BY <3>2, MinIs
    <3> QED BY <1>8, <3>2, <3>3 DEF ngroups
  <2>2. ASSUME NEW p \in Scratch PROVE GroupOf(p) = Scratch
    <3>1. \A q \in Scratch : Rank(q, Scratch) \in Nat
      <4>1. \A q \in Scratch : Rank(q, Scratch) \in 0..(Cardinality(Scratch) - 1)
        BY ScratchIs, RankIs
      <4> QED BY <4>1
    <3>2. \A q \in Scratch : Rank(q, Scratch) % 1 = 0
      BY <3>1
    <3> QED BY <2>1, <2>2, <3>2 DEF GroupOf
  <2>3. Min(Scratch) = 0
    <3>1. Min(Scratch) \in Scratch /\ Min(Scratch) <= 0
      BY ScratchIs, MinIs
    <3>2. \A q \in Scratch : q \in Nat
      BY ScratchIs DEF PE
    <3> QED BY <3>1, <3>2
  <2>4. \A q \in Scratch : Min(sub[q].group) = 0
    BY <1>1, <2>2, <2>3 DEF Grouped
  <2> QED BY <1>2, <2>4, ScratchIs
<1> QED BY <1>1, <1>4, <1>5, <1>6, <1>7, <1>8 DEF Candidates

\* The winner among the candidates is a partition, and one under other names too.
LEMMA BestIs ==
  ASSUME Sized, ncon \in Nat \ {0}, Candidates
  PROVE  ByCut(gwhere1) \in Partitions
<1>1. PICK q \in DOMAIN gwhere1 : ByCut(gwhere1) = gwhere1[q]
  BY ElectedIs DEF Candidates
<1> QED BY <1>1 DEF Candidates

\* The steps of the initial partitioning.
LEMMA PlaceElects == ASSUME VoteInv, ElectInv, Place PROVE ElectInv'
<1>1. pc = "place" /\ pc' = "place" /\ PlaceNext /\ UNCHANGED <<size, ncon, way>>
  BY DEF Place, PlaceNext, Bisect, Label, Reduce, TakeBest, SendBest, Wavefront, McDiffusion, Decide
<1>2. Partitions' = Partitions /\ Diffusers' = Diffusers /\ Sized' /\ ncon' \in Nat \ {0}
      /\ way' \in {"init", "balance"}
  BY <1>1 DEF Partitions, Vertex, Diffusers, Scratch, OneStrategy, Sized, ElectInv
<1> SUFFICES (stage' = "elect" => Candidates') /\ Coordinated'
  BY <1>1, <1>2 DEF ElectInv
<1>3. CASE Bisect \/ Label
  <2>1. stage = "bisect" /\ stage' = "bisect" /\ part' = part
    BY <1>3 DEF Bisect, Label
  <2> QED BY <1>2, <2>1 DEF ElectInv, Coordinated
<1>4. CASE Reduce
  <2>1. stage = "bisect" /\ stage' = "elect" /\ part' = part
    BY <1>4 DEF Reduce
  <2> QED BY <1>2, <1>4, <2>1, ReduceElects DEF ElectInv, Coordinated
<1>5. CASE TakeBest
  <2>1. stage = "elect" /\ stage' = "placed" /\ part' = part
    BY <1>5 DEF TakeBest
  <2> QED BY <1>2, <2>1 DEF ElectInv, Coordinated
<1>6. CASE SendBest
  <2>1. PICK w \in SerialRemap(ByCut(gwhere1)) : part' = [q \in {sr_pe} |-> w]
    BY <1>6 DEF SendBest
  <2>2. part = <<>> /\ way = "balance" /\ stage' = (IF Diffusers = {} THEN "decide" ELSE "diffuse")
    BY <1>6 DEF SendBest, ElectInv, Coordinated
  <2>3. w \in Partitions
    BY <1>6, BestIs, RemapKeeps DEF SendBest, ElectInv
  <2>4. DOMAIN part' = {sr_pe} /\ part'[sr_pe] = w
    BY <2>1
  <2>5. Diffusers # {} <=> ncon <= MAX_NCON_FOR_DIFFUSION /\ gd_pe \in PE
    BY <2>2, ScratchIs DEF ElectInv
  <2> QED BY <1>1, <1>2, <2>2, <2>3, <2>4, <2>5 DEF Coordinated
<1>7. CASE Wavefront \/ McDiffusion
  <2>1. stage = "diffuse" /\ stage' = "decide"
    BY <1>7 DEF Wavefront, McDiffusion
  <2>2. PICK w \in Partitions : part' = SentToo(w)
    BY <1>7, RemapKeeps DEF Wavefront, McDiffusion, Diffused, ElectInv
  <2>3. DOMAIN part = {sr_pe} /\ part[sr_pe] \in Partitions /\ ncon <= MAX_NCON_FOR_DIFFUSION
    BY <2>1 DEF ElectInv, Coordinated
  <2>4. DOMAIN part' = {sr_pe, gd_pe} /\ part'[sr_pe] \in Partitions /\ part'[gd_pe] \in Partitions
    BY <2>2, <2>3 DEF SentToo, sr_pe, gd_pe
  <2>5. gd_pe \in PE
    BY <2>1 DEF ElectInv, Coordinated
  <2> QED BY <1>1, <1>2, <2>1, <2>3, <2>4, <2>5 DEF Coordinated
<1>8. CASE Decide
  <2>1. stage' = "placed" /\ part' = <<>>
    BY <1>8 DEF Decide
  <2> QED BY <2>1 DEF Coordinated
<1> QED BY <1>1, <1>3, <1>4, <1>5, <1>6, <1>7, <1>8 DEF PlaceNext

LEMMA NextElects == IInv /\ VoteInv /\ ElectInv /\ [Next]_vars => ElectInv'
<1> SUFFICES ASSUME IInv, VoteInv, ElectInv, [Next]_vars PROVE ElectInv'
  OBVIOUS
<1>1. CASE UNCHANGED <<stage, way, size, ncon, gwhere1, part, pc>>
  BY <1>1 DEF ElectInv, Sized, Candidates, Coordinated, Partitions, Vertex, ngroups, Scratch, OneStrategy
<1>2. CASE Coarsen \/ Again
  <2>1. Shape /\ Len(graphs) > 0
    BY DEF IInv, Shape
  <2>2. g \in Graph
    <3>1. Len(graphs) \in 1..Len(graphs)
      BY <2>1, TopIs
    <3> QED BY <2>1, <3>1, TopIs
  <2>3. size' \in Size
    <3>1. g.n \in Size
      BY <2>2 DEF Graph
    <3>2. size' = g.n \/ size' \in CoarserSizes[g.n]
      BY <1>2 DEF Coarsen, Again
    <3> QED BY <3>1, <3>2, CoarserAssumption DEF Size
  <2>4. Sized'
    BY <2>3, CoarserAssumption DEF Sized, Size
  <2>5. stage = "idle" /\ UNCHANGED <<stage, way, ncon, part>>
    BY <1>2 DEF Coarsen, Again, ElectInv
  <2>6. part = <<>>
    BY <2>5 DEF ElectInv, Coordinated
  <2> QED BY <2>4, <2>5, <2>6 DEF ElectInv, Coordinated
<1>3. CASE Start \/ Placed
  <2>1. /\ stage \in {"idle", "placed"} /\ stage' \in {"bisect", "placed", "idle"}
        /\ stage' # "idle" => pc' = "place"
        /\ UNCHANGED <<way, size, ncon, part>>
    BY <1>3 DEF Start, Placed, ElectInv
  <2>2. part = <<>>
    BY <2>1 DEF ElectInv, Coordinated
  <2> QED BY <2>1, <2>2 DEF ElectInv, Coordinated, Sized
<1>4. CASE Ascend \/ Return
  <2>1. stage = "idle" /\ UNCHANGED <<stage, way, size, ncon, part>>
    BY <1>4 DEF Ascend, Return, ElectInv, initvars
  <2>2. Partitions' = Partitions
    BY <2>1 DEF Partitions, Vertex
  <2> QED BY <2>1, <2>2 DEF ElectInv, Coordinated, Sized
<1> QED BY <1>1, <1>2, <1>3, <1>4, PlaceElects DEF Next, Ended, vars, initvars

-----------------------------------------------------------------------------

\* What the elections do, in one step.
LEMMA ElectionIs ==
  ASSUME ElectInv, Place, stage = "elect", stage' # "elect"
  PROVE  LET all  == Range(gwhere1)
             cuts == {Cut(w) : w \in {x \in all : Balanced(x)}}
             win  == IF way = "init" THEN where' ELSE part'[sr_pe]
         IN (cuts # {} /\ (way = "balance" \/ Min(cuts) < Max({Cut(w) : w \in all}))) =>
              (Balanced(win) /\ Cut(win) = Min(cuts))
<1> DEFINE all  == Range(gwhere1)
           cuts == {Cut(w) : w \in {x \in all : Balanced(x)}}
           best == Max({Cut(w) : w \in all})
           win  == IF way = "init" THEN where' ELSE part'[sr_pe]
<1>1. Sized /\ ncon \in Nat \ {0} /\ Candidates /\ way \in {"init", "balance"}
  BY DEF ElectInv
<1>2. /\ cuts # {} /\ (way = "balance" \/ Min(cuts) < best) =>
           Balanced(ByCut(gwhere1)) /\ Cut(ByCut(gwhere1)) = Min(cuts)
      /\ DOMAIN gwhere1 = {0} => ~(cuts # {} /\ Min(cuts) < best)
  BY <1>1, WinnerIs DEF Candidates
<1> HIDE DEF cuts, best, all
<1> SUFFICES ASSUME cuts # {}, way = "balance" \/ Min(cuts) < best
             PROVE  Balanced(win) /\ Cut(win) = Min(cuts)
  BY DEF cuts, best, all
<1>3. TakeBest \/ SendBest
  BY DEF Place, PlaceNext, Bisect, Label, Reduce, TakeBest, SendBest, Wavefront, McDiffusion, Decide
<1>4. CASE TakeBest
  <2>1. way = "init" /\ win = IF ngroups > 1 THEN ByCut(gwhere1) ELSE gwhere1[0]
    BY <1>4 DEF TakeBest
  <2>2. ngroups > 1
    BY <1>1, <1>2, <2>1 DEF Candidates
  <2> QED BY <1>2, <2>1, <2>2
<1>5. CASE SendBest
  <2>1. PICK w \in SerialRemap(ByCut(gwhere1)) : part' = [q \in {sr_pe} |-> w]
    BY <1>5 DEF SendBest
  <2>2. win = w
    BY <1>5, <2>1 DEF SendBest
  <2>3. ByCut(gwhere1) \in Partitions
    BY <1>1, BestIs
  <2>4. Cut(w) = Cut(ByCut(gwhere1)) /\ Load(w) = Load(ByCut(gwhere1))
    BY <1>1, <2>1, <2>3, RemapKeeps
  <2> QED BY <1>2, <2>2, <2>4 DEF Balanced
<1> QED BY <1>3, <1>4, <1>5

\* What the coordinators decide.
LEMMA DecisionIs ==
  ASSUME ElectInv, Place, stage = "decide", stage' = "placed", NEW q \in DOMAIN part, Light(part[q])
  PROVE  ~Heavy(where')
<1>1. Decide
  BY DEF Place, PlaceNext, Bisect, Label, Reduce, TakeBest, SendBest, Wavefront, McDiffusion, Decide
<1>2. \A w : Load(w) \in Nat /\ Tvwgt \in Nat
  BY LoadIs DEF ElectInv
<1>3. \A w : ~(Light(w) /\ Heavy(w))
  BY <1>2 DEF Light, Heavy
<1>4. DOMAIN part = IF ncon <= MAX_NCON_FOR_DIFFUSION /\ gd_pe \in PE THEN {sr_pe, gd_pe} ELSE {sr_pe}
  BY DEF ElectInv, Coordinated
<1>5. ncon \in Nat /\ MAX_NCON_FOR_DIFFUSION \in Nat
  BY DEF ElectInv, MAX_NCON_FOR_DIFFUSION
<1>6. CASE ncon > MAX_NCON_FOR_DIFFUSION
  <2>1. where' = part[sr_pe] /\ q = sr_pe
    BY <1>1, <1>4, <1>5, <1>6 DEF Decide
  <2> QED BY <1>3, <2>1
<1>7. CASE ncon <= MAX_NCON_FOR_DIFFUSION
  <2>1. where' = part[who_wins(part[sr_pe], part[gd_pe])] /\ q \in {sr_pe, gd_pe}
    BY <1>1, <1>4, <1>5, <1>7 DEF Decide
  <2> QED BY <1>3, <2>1 DEF who_wins
<1> QED BY <1>5, <1>6, <1>7

\* An election with a balanced candidate takes a balanced one with the least cut, and
\* the coordinators do not take a heavy partition when there is a light one
\* (InitPartition, Balance_Partition): for any graphs, weights, numbers of PEs and parts
\* and any partitions that METIS and the diffusions find.
THEOREM ElectionsKeepBalance == Spec => NoElectionLosesBalance
<1> DEFINE A == /\ (stage = "elect" /\ stage' # "elect") =>
                     LET all  == Range(gwhere1)
                         cuts == {Cut(w) : w \in {x \in all : Balanced(x)}}
                         win  == IF way = "init" THEN where' ELSE part'[sr_pe]
                     IN (cuts # {} /\ (way = "balance" \/ Min(cuts) < Max({Cut(w) : w \in all}))) =>
                          (Balanced(win) /\ Cut(win) = Min(cuts))
                /\ (stage = "decide" /\ stage' = "placed") =>
                     ((\E q \in DOMAIN part : Light(part[q])) => ~Heavy(where'))
<1>1. VoteInv /\ ElectInv /\ [Next]_vars => [A]_initvars
  <2> SUFFICES ASSUME VoteInv, ElectInv, [Next]_vars PROVE A \/ UNCHANGED initvars
    OBVIOUS
  <2>1. CASE Place
    <3>1. A
      BY <2>1, ElectionIs, DecisionIs
    <3> QED BY <3>1
  <2>2. CASE ~Place
    <3>1. stage \in {"idle", "placed"} \/ UNCHANGED initvars
      BY <2>2 DEF Next, Ended, Coarsen, Start, Placed, Ascend, Again, Return, vars, VoteInv
    <3>2. stage \in {"idle", "placed"} => A
      OBVIOUS
    <3> HIDE DEF A
    <3> QED BY <3>1, <3>2
  <2> QED BY <2>1, <2>2
<1> HIDE DEF A
<1>2. Spec => [](VoteInv /\ ElectInv)
  BY InitInv, InitVotes, InitElects, NextInv, NextVotes, NextElects, PTL DEF Spec
<1>3. Spec => [][A]_initvars
  BY <1>1, <1>2, PTL DEF Spec
<1> QED BY <1>3, PTL DEF A, NoElectionLosesBalance
=============================================================================
