----------------------------- MODULE Multilevel -----------------------------
(***************************************************************************)
(* The multilevel drivers: Global_Partition (libparmetis/kmetis.c),        *)
(* Adaptive_Partition (ametis.c) and Order_Partition (ometis.c) with the   *)
(* memory of the graphs they allocate and free (graph.c, kwayrefine.c) and *)
(* the graphs they spill to disk (graph_WriteToDisk, graph_ReadFromDisk).  *)
(* The partition of the coarsest graph is found as in module InitPart.     *)
(* What coarsening, projection and refinement do with a graph is in the    *)
(* modules Coarsen, KWayFM and NodeRefine.                                 *)
(*                                                                         *)
(* All PEs go through the levels together: every level has collective      *)
(* operations and the decisions only depend on global numbers.  Memory and *)
(* files are those of one PE; whether opening or writing fails is chosen.  *)
(***************************************************************************)
EXTENDS InitPart

CONSTANTS
  OpTypes,       \* a subset of {"kmetis", "ametis", "rmetis", "ometis"}
  Inputs,        \* bound of the model: gnvtxs of the user's graph
  CoarserSizes,  \* CoarserSizes[n]: bound, gnvtxs of the next coarser graph
  CoarsenTo,     \* ctrl->CoarsenTo
  NCons,         \* numbers of constraints in adaptive repartitioning (else 1: it makes
                 \* no difference here)
  OnDisk,        \* the optypes for which ctrl->ondisk is set
  SpillSize,     \* graphs of at least so many vertices go to disk then
  p_nseps        \* how often Order_Partition is called for one level of separators

ASSUME InputsAssumption == \A n \in Inputs : n \in Nat \ {0}
ASSUME NConsAssumption  == NCons \subseteq Nat \ {0}
\* Every size a graph may get has its coarser sizes, and a graph.
ASSUME CoarserAssumption ==
  /\ Inputs \subseteq DOMAIN CoarserSizes /\ DOMAIN CoarserSizes \subseteq DOMAIN Home
  /\ \A n \in DOMAIN CoarserSizes : CoarserSizes[n] \subseteq DOMAIN CoarserSizes

VARIABLES
  pc,          \* "descend", "place", "ascend", "done", "crashed", "aborted"
  optype,
  graphs,      \* graphs[l + 1]: the graph of level l
  nlevels,     \* Order_Partition: the level where coarsening stopped first, or -1
  iter,        \* the calls of Order_Partition so far
  gID,         \* the number of the next file
  files,       \* the numbers of the files on the disk
  lost         \* fields that were allocated a second time or dropped with their graph

vars == <<initvars, pc, optype, graphs, nlevels, iter, gID, files, lost>>

-----------------------------------------------------------------------------
(* A graph_t: its gnvtxs, the fields it holds and where its arrays are.    *)
(* "graph": xadj, vwgt, adjncy, ...; "params": ckrinfo or nrinfo;          *)
(* "pwgts": the part weights.                                              *)

Fields == {"graph", "setup", "match", "where", "params", "pwgts"}
InitGraph(n, held) == [n |-> n, held |-> held, gID |-> 0, ondisk |-> FALSE]

g == Last(graphs)
level == Len(graphs) - 1
Finer == graphs[Len(graphs) - 1]
Top(h) == Append(Front(graphs), h)

Ordering == optype = "ometis"
Adaptive == optype \in {"ametis", "rmetis"}

\* The fields in got are allocated in h; the second value is what is lost by that.
Allocated(h, got) == [h EXCEPT !.held = @ \union got]
Overwritten(h, got) == {<<h.n, f>> : f \in h.held \intersect got}
Freed(h, gone) == [h EXCEPT !.held = @ \ gone]

-----------------------------------------------------------------------------
(* The disk.                                                               *)

FileOf(h) == h.gID

\* graph_WriteToDisk: h as it is afterwards, the next number and the files.
WrittenKept(h) ==
  IF optype \notin OnDisk \/ h.n < SpillSize THEN {[h |-> h, next |-> gID, files |-> files]}
  ELSE LET numbered == [h EXCEPT !.gID = gID]
           old      == files \ (IF h.gID > 0 THEN {h.gID} ELSE {})
       IN {\* fopen failed
           [h |-> numbered, next |-> gID + 1, files |-> old],
           \* fwrite failed
           [h |-> numbered, next |-> gID + 1, files |-> old \union {gID}],
           \* all is written, and the arrays are freed
           [h |-> [Freed(numbered, {"graph"}) EXCEPT !.ondisk = TRUE], next |-> gID + 1,
            files |-> old \union {gID}]}
Written(h) ==
  IF optype \notin OnDisk \/ h.n < SpillSize THEN {[h |-> h, next |-> gID, files |-> files]}
  ELSE LET numbered == [h EXCEPT !.gID = gID]
           old      == files \ (IF h.gID > 0 THEN {h.gID} ELSE {})
       IN {\* fopen failed
           [h |-> numbered, next |-> gID + 1, files |-> old],
           \* fwrite failed: the file is removed
           [h |-> [numbered EXCEPT !.ondisk = FALSE], next |-> gID + 1, files |-> old],
           \* all is written, and the arrays are freed
           [h |-> [Freed(numbered, {"graph"}) EXCEPT !.ondisk = TRUE], next |-> gID + 1,
            files |-> old \union {gID}]}

\* graph_ReadFromDisk: a file that does not open is passed over, one that is too short
\* ends the program.
Read(h) ==
  IF ~h.ondisk THEN {[h |-> h, files |-> files, exit |-> FALSE]}
  ELSE {[h |-> h, files |-> files, exit |-> FALSE],
        [h |-> [h EXCEPT !.ondisk = FALSE], files |-> files \ {FileOf(h)}, exit |-> TRUE],
        [h |-> [Allocated(h, {"graph"}) EXCEPT !.gID = 0, !.ondisk = FALSE],
         files |-> files \ {FileOf(h)}, exit |-> FALSE]}

-----------------------------------------------------------------------------
(* The way down.                                                           *)

\* Coarsening ends when the graph is small or did not shrink to COARSEN_FRACTION.
SmallEnough == IF Ordering THEN 100 * g.n < 166 * CoarsenTo ELSE 10 * g.n < 13 * CoarsenTo
HardlyShrunk == level > 0 /\ 4 * g.n > 3 * Finer.n
Coarsest == IF Ordering /\ nlevels # -1 THEN nlevels = level ELSE SmallEnough \/ HardlyShrunk

\* Match_Global or Match_Local, and the graph to disk.  An ordering passes where on to
\* the coarser graph.
Coarsen ==
  /\ pc = "descend" /\ ~Coarsest
  /\ \E n \in CoarserSizes[g.n] :
     \E w \in Written(Freed(Allocated(g, {"setup", "match"}), {"where"})) :
       /\ graphs' = Append(Top(w.h),
                           InitGraph(n, {"graph"} \union (IF Ordering THEN {"where"} ELSE {})))
       /\ size' = n
       /\ gID' = w.next
       /\ files' = w.files
  /\ UNCHANGED <<pc, optype, nlevels, iter, lost>>
  /\ UNCHANGED <<stage, way, ncon, home, sub, gwhere0, gwhere1, part, where>>

\* On the coarsest graph InitPartition or Balance_Partition begin; a partition that is
\* balanced or is only to be refined stays as it is.  An ordering finds separators
\* there (InitMultisection), which replaces the where it was passed.
TooHeavy(w) == 1000 * Load(w) > 1085 * Tvwgt
Start ==
  /\ pc = "descend" /\ Coarsest
  /\ pc' = "place"
  /\ LET old == IF Ordering THEN Freed(g, {"where"}) ELSE g
     IN /\ graphs' = Top(Allocated(old, {"setup", "where"}))
        /\ lost' = lost \union Overwritten(old, {"where"})
  /\ nlevels' = IF Ordering THEN level ELSE nlevels
  /\ home' = IF Adaptive THEN Home[size] ELSE home
  /\ IF optype = "kmetis" \/ (optype = "ametis" /\ TooHeavy(Home[size]))
     THEN /\ stage' = "bisect"
          /\ sub' = [p \in Scratch |-> Whole(p)]
          /\ UNCHANGED where
     ELSE /\ stage' = "placed"
          /\ where' = IF Adaptive THEN Home[size] ELSE where
          /\ UNCHANGED sub
  /\ UNCHANGED <<optype, iter, gID, files, way, size, ncon, gwhere0, gwhere1, part>>

Place == pc = "place" /\ PlaceNext /\ UNCHANGED <<pc, optype, graphs, nlevels, iter,
                                                  gID, files, lost>>

\* What ComputePartitionParams or AllocateNodePartitionParams allocate; the latter also
\* replaces vwgt and frees the old one.
Computed(h, keep) == [h |-> Allocated(h, {"params", "pwgts"}),
                      lost |-> keep \union Overwritten(h, {"params", "pwgts"})]

\* The coarsest graph has its partition.  For the report of DBG_PROGRESS the params
\* are computed and freed again; when there was no coarsening they are computed for the
\* refinement.
Placed ==
  /\ pc = "place" /\ stage = "placed"
  /\ \E progress \in BOOLEAN :
     LET shown == IF progress /\ ~Ordering
                  THEN Freed(Computed(g, lost).h, {"params", "pwgts"}) ELSE g
         done  == IF level = 0 THEN Computed(shown, lost) ELSE [h |-> shown, lost |-> lost]
     IN graphs' = Top(done.h) /\ lost' = done.lost
  /\ stage' = "idle"
  /\ pc' = "ascend"
  /\ UNCHANGED <<optype, nlevels, iter, gID, files>>
  /\ UNCHANGED <<way, size, ncon, home, sub, gwhere0, gwhere1, part, where>>

-----------------------------------------------------------------------------
(* The way up.                                                             *)

\* Back in the finer graph: it is read, the partition is projected into a new where,
\* the coarser graph is freed and the params are computed, which needs the arrays.
Ascend ==
  /\ pc = "ascend" /\ level > 0
  /\ \E r \in Read(Finer) :
       /\ files' = r.files
       /\ IF r.exit
          THEN /\ pc' = "aborted"
               /\ graphs' = Append(Front(Front(graphs)), r.h)
               /\ UNCHANGED lost
          ELSE LET projected == Allocated(r.h, {"where"})
                   refined == Computed(projected, lost \union Overwritten(r.h, {"where"}))
                   kept == IF optype = "kmetis" /\ level > 1
                           THEN Freed(refined.h, {"pwgts"}) ELSE refined.h
               IN IF "graph" \in projected.held
                  THEN /\ graphs' = Append(Front(Front(graphs)), kept)
                       /\ lost' = refined.lost
                       /\ UNCHANGED pc
                  ELSE /\ graphs' = Append(Front(Front(graphs)), projected)
                       /\ pc' = "crashed"
                       /\ UNCHANGED lost
  /\ UNCHANGED <<initvars, optype, nlevels, iter, gID>>

\* Order_Partition_Multiple keeps the setup fields and calls Order_Partition again.
AgainUncounted ==
  /\ pc = "ascend" /\ level = 0 /\ Ordering /\ iter < p_nseps
  /\ LET clean == Freed(g, {"match", "where", "params", "pwgts"})
     IN /\ graphs' = <<Allocated(clean, {"where"})>>
        /\ lost' = lost \union Overwritten(clean, {"where"})
  /\ pc' = "descend"
  /\ size' = g.n
  /\ UNCHANGED <<optype, nlevels, iter, gID, files>>
  /\ UNCHANGED <<stage, way, ncon, home, sub, gwhere0, gwhere1, part, where>>
Again ==
  /\ pc = "ascend" /\ level = 0 /\ Ordering /\ iter < p_nseps
  /\ LET clean == Freed(g, {"match", "where", "params", "pwgts"})
     IN /\ graphs' = <<Allocated(clean, {"where"})>>
        /\ lost' = lost \union Overwritten(clean, {"where"})
  /\ iter' = iter + 1
  /\ pc' = "descend"
  /\ size' = g.n
  /\ UNCHANGED <<optype, nlevels, gID, files>>
  /\ UNCHANGED <<stage, way, ncon, home, sub, gwhere0, gwhere1, part, where>>

\* The partition is returned and the graph is freed (FreeInitialGraphAndRemap).
Return ==
  /\ pc = "ascend" /\ level = 0
  /\ Ordering => iter = p_nseps
  /\ graphs' = <<Freed(g, Fields)>>
  /\ pc' = "done"
  /\ UNCHANGED <<initvars, optype, nlevels, iter, gID, files, lost>>

-----------------------------------------------------------------------------

Init ==
  /\ pc = "descend"
  /\ optype \in OpTypes
  /\ ncon \in (IF Adaptive THEN NCons ELSE {1})
  /\ size \in Inputs
  /\ graphs = <<InitGraph(size, {"graph"} \union (IF Ordering THEN {"where"} ELSE {}))>>
  /\ nlevels = -1
  /\ iter = 1
  /\ gID = 1
  /\ files = {}
  /\ lost = {}
  /\ stage = "idle"
  /\ way = IF optype = "kmetis" THEN "init" ELSE "balance"
  /\ home = <<>> /\ sub = <<>> /\ gwhere0 = <<>> /\ gwhere1 = <<>> /\ part = <<>> /\ where = <<>>

Ended == pc \in {"done", "crashed", "aborted"} /\ UNCHANGED vars

Next == Coarsen \/ Start \/ Place \/ Placed \/ Ascend \/ Again \/ Return \/ Ended

Spec == Init /\ [][Next]_vars

\* Every step is a call that ends by itself or a collective operation.
FairSpec == Spec /\ WF_vars(Coarsen \/ Start \/ Place \/ Placed \/ Ascend \/ Again \/ Return)

-----------------------------------------------------------------------------

\* Nothing is allocated over what is still held, which would lose it (the library
\* looks for leaks at the end: kmetis.c:117).  The files on the disk are at all times
\* those of the graphs whose arrays are not in memory (graph.c:337, graph.c:424); when
\* the call returns none is left.
NothingLeftBehind ==
  /\ lost = {}
  /\ files = {graphs[i].gID : i \in {j \in DOMAIN graphs : graphs[j].ondisk}}
  /\ pc \notin {"crashed", "aborted"} =>
       \A i \in DOMAIN graphs : "graph" \in graphs[i].held <=> (~graphs[i].ondisk /\ pc # "done")
  /\ pc = "done" => files = {}

\* Coarsening comes to an end, a partition is found and the call returns or is ended by
\* a file that cannot be read.
Ends == <>(pc \in {"done", "crashed", "aborted"})

\* documentation/initbalance.c.md:18: when only one strategy is used, because of ncon
\* or npes, its result is taken.
OneResultTaken == (stage = "decide" /\ OneStrategy) ~> stage = "placed"
=============================================================================
