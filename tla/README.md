# ParMETIS: specifications, model checking and proofs

ParMETIS partitions, repartitions and orders graphs that are distributed over
the processes (PEs) of an MPI communicator.  This directory specifies the parts
of `libparmetis/` where PEs interact, checks the specifications with TLC on
small instances, and proves the properties on which the rest depends with TLAPS.
Paths below are relative to the repository; a bare file name is in
`libparmetis/`.

    tlc -workers 2 -config Remap.cfg MCRemap.tla     check a run (see "Runs")
    tlapm Remap_proofs.tla                           check the proofs of a module

## 1. The system

### How it works

Every entry point (`ParMETIS_V3_PartKway`, `..._AdaptiveRepart`,
`..._RefineKway`, `..._NodeND`, ...) is called by all PEs together, each with
its own block of vertices.  PEs share no memory and have no threads; all that
happens concurrently happens between PEs, through blocking collectives and
nonblocking sends and receives that are waited for before a phase ends.  The
multilevel scheme is the same everywhere: `CommSetup` sets up the interface of
a graph; a matching is computed and contracted, level by level; the coarsest
graph is partitioned; the partition is projected back and refined at every
level.  A PE that fails aborts the program: nothing is persisted for a restart,
and MPI neither loses nor duplicates messages.  So the hard behaviours are
interleavings of PEs, message order, decisions each PE takes with information
as old as the last exchange, data kept up to date by increments, and the
agreement of lists and decisions that different PEs derive on their own.

### Inventory

| Component | Files | State | Operations | Hard to get right | Correct when |
|---|---|---|---|---|---|
| Interface exchanges | `comm.c` | values of own and ghost vertices, messages in flight | `CommInterfaceData`, `CommChangedInterfaceData` | all use tag 1; a PE may be an exchange ahead of a neighbour; only changes are sent | ghosts equal their owners' values of the same exchange; every receive gets the message meant for it; nothing stays behind |
| Communication setup | `comm.c`, `graph.c` | `lperm`, `peind`, `recvptr/ind`, `sendptr/ind`, `pexadj/peadjncy/peadjloc`, `adjncy` rewritten in place | `CommSetup`, `FreeInitialGraphAndRemap` | both sides of each pair derive their lists alone; indices into arrays of other PEs | the lists of two PEs agree slot by slot; the caller's graph comes back |
| MPI layer | `gkmpi.c` | requests | wrappers, 64-bit counts | counts are cut to `int` with old MPI versions | messages of a pair arrive in order and whole |
| Matching | `match.c` | `match`, `perm/iperm`, request lists | `Match_Global`, `Match_Local` | a PE matches a vertex someone asks for; both ends ask; a refusal | the PEs agree on a matching that can be contracted |
| Contraction, projection | `match.c`, `kwayrefine.c` | `cmap`, `rcand/scand`, the coarse graph | `CreateCoarseGraph_Global`, `CreateCoarseGraph_Local`, `DropEdges`, `ProjectPartition` | numbering before and after an exchange; who messages whom; edges dropped by both ends | the coarse graph is the quotient; cut and weights survive projection |
| K-way refinement | `kwayrefine.c` | `where`, `ckrinfo`, part weights, cut | `ComputePartitionParams`, `KWayFM`, `KWayBalance` | moves with stale ghosts and weights; part of them undone; degrees kept by increments | degrees, weights and cut stay exact; heavy parts do not grow |
| Multilevel drivers | `kmetis.c`, `ametis.c`, `rmetis.c`, `ometis.c` | the chain of levels | `Global_Partition`, `Adaptive_Partition`, `Order_Partition` | what is held at which level, in memory or on disk; graphs that do not shrink | recursion ends, nothing is lost or left behind |
| Adaptive refinement | `akwayfm.c` | as KWayFM, and `home` | `KWayAdaptiveRefine` | as KWayFM, with a cost of cut and of data moved | as KWayFM |
| Node refinement, ordering | `node_refine.c`, `ometis.c`, `initmsection.c`, `frename.c` | separators, `nrinfo`, `order`, `sizes` | `KWayNodeRefine_Greedy`, `KWayNodeRefine2Phase`, `LabelSeparators`, `CompactGraph`, `MultilevelOrder` | neighbours enter and leave a separator at once | separators separate; labels are a permutation |
| Initial partitioning | `initpart.c` | groups of PEs and of parts | `InitPartition`, `KeepPart` | PEs and parts are halved separately; election by one sum | every vertex is labelled by one PE of its group; a balanced partition wins |
| Balancing | `initbalance.c`, `mdiffusion.c`, `wave.c`, `balancemylink.c`, `serial.c`, ... | a serial graph per PE, flows between parts | `Balance_Partition`, `WavefrontDiffusion`, `Mc_Diffusion`, `BalanceMyLink` | two strategies in two groups of PEs, two coordinators; copies of one partition that each PE changes in part | all PEs take the same one, and one is taken; the copies agree; no part ends empty |
| Remapping | `remap.c` | `map`, `rowmap`, `nmapped` | `ParallelReMapGraph` | every PE builds the map alone | one permutation for all, used only when it saves |
| Migration | `move.c` | the graph sent to the PEs of its parts | `MoveGraph`, `ProjectInfoBack` | labels of vertices that are under way | information returns to the vertex it belongs to |
| Graph objects | `graph.c` | fields of `graph_t`, files | create, free, `graph_WriteToDisk`, `graph_ReadFromDisk` | a file that cannot be opened | what is read is what was written |
| Control, work space | `ctrl.c`, `wspace.c` | options, arenas, `cnbrpool` | `SetupCtrl`, `cnbrpoolGetNext` | the pool moves when it grows | no index is used twice |
| Geometric | `xyzpart.c`, `gkmetis.c` | keys, sample sort buckets | `Coordinate_Partition`, `PseudoSampleSort` | splitters, equal keys, two permutations each way | PEs get their shares, in the order of the keys |
| Meshes | `mesh.c`, `msetup.c`, `mmetis.c` | element and node lists | `ParMETIS_V3_Mesh2Dual` | a chain of all-to-all exchanges, answers known by their order | the dual graph has exactly the edges it should; the caller's mesh comes back |
| Checks, numbering, small graphs | `weird.c`, `renumber.c`, `pspases.c` | the caller's arrays | `CheckInputs*`, `ChangeNumbering`, serial `NodeND` | in-place renumbering; checks that sum over PEs | undone at the end |
| Helpers, programs | `gklib.c`, `util.c`, `stat.c`, `timer.c`, `debug.c`, `programs/` | | sorting, statistics, I/O | | |

Everything known to be hard to test is listed with its line under `hazards` in
`PROJECT.json`, with the properties that cover it or why none does.

## 2. The modules

| Module | Models | Uses |
|---|---|---|
| `DistGraph` | a graph spread over PEs, its ghosts and send lists: what `CommSetup` computes | |
| `PointToPoint` | `gkMPI_Isend/Irecv/Waitall` as one FIFO channel per ordered pair | `DistGraph` |
| `HaloAbstract` | what callers may expect of an exchange: publish, later see all ghosts at once | |
| `HaloExchange` | `CommInterfaceData` and `CommChangedInterfaceData`, message by message | `DistGraph` |
| `HaloExchange_proofs` | its proofs | `HaloExchange` |
| `CommSetup` | `CommSetup` and `FreeInitialGraphAndRemap` on arrays | compares with `DistGraph` |
| `Mesh` | `ParMETIS_V3_PartMeshKway`: `ParMETIS_V3_Mesh2Dual` and the renumbering, before and after `CommSetup` | `CommSetup` |
| `Matching` | the encoding of a matching (`KEEP_BIT`, `UNMATCHED`, ...) and when it can be contracted | `DistGraph` |
| `MatchGlobal` | `Match_Global`, `Match_Local` | `Matching`, `PointToPoint` |
| `MatchGlobal_proofs` | the proofs that the PEs agree on a matching, that no match is taken back, no vertex forgotten and no buffer too short | `MatchGlobal`, `GraphFacts` |
| `Coarsen` | `CreateCoarseGraph_Global`, `CreateCoarseGraph_Local`, `DropEdges`, an arbitrary partition from the levels below, `ProjectPartition` | `Matching`, `PointToPoint` |
| `Coarsen_proofs` | the proofs that the coarse graph is the quotient of the graph by the matching, that both ends of an edge drop it or keep it, and that projection keeps the cut and the weights | `Coarsen`, `GraphFacts` |
| `KWayFM` | `ComputePartitionParams`, `KWayFM`, `KWayBalance`, `KWayAdaptiveRefine` | `PointToPoint` |
| `KWayFM_proofs` | the proofs that heavy parts do not grow, that degrees, weights and cut are exact and that the cost does not get worse | `KWayFM`, `GraphFacts` |
| `NodeRefine` | the refinement of vertex separators, `node_refine.c` | `PointToPoint` |
| `NodeRefine_proofs` | the proofs that separators separate and never get heavier, and that degrees and weights are right after each side | `NodeRefine`, `GraphFacts` |
| `Ordering` | `MultilevelOrder`, `Order_Partition_Multiple`, `LabelSeparators`, `CompactGraph`, `LocalNDOrder` | |
| `InitPart` | `InitPartition`, `Balance_Partition`, `SerialRemap` | |
| `DiffUtil` | the graph both diffusions work on, loads, links and flows (`diffutil.c`) | |
| `Wave` | `WavefrontDiffusion` on one PE, for one constraint | `DiffUtil` |
| `Diffusion` | `Mc_Diffusion`, `CSR_Match_SHEM`, `Mc_SerialKWayAdaptRefine`, for two constraints | `DiffUtil` |
| `MyLink` | `BalanceMyLink`, what a PE does with a pair of parts in `Mc_Diffusion` | `DiffUtil` |
| `Multilevel` | `Global_Partition`, `Adaptive_Partition`, `Order_Partition`, with memory and disk of the graphs (`graph.c`) | `InitPart` |
| `Multilevel_proofs` | the proofs that nothing is left behind, that each vertex gets one label and that elections keep balance | `Multilevel` |
| `Remap` | `ParallelReMapGraph`, `ParallelTotalVReMap`, `SimilarTpwgts` | |
| `Remap_proofs` | its proofs | `Remap` |
| `MoveGraph` | `MoveGraph`, `ProjectInfoBack` | `PointToPoint` |
| `SampleSort` | `Coordinate_Partition` and `PseudoSampleSort`, then the move (`ParMETIS_V3_PartGeomKway`) | `MoveGraph` |
| `GraphFacts` | facts about `DistGraph` and `PointToPoint`, sums over finite sets and folds over lists | `PointToPoint` |
| `MC*` | instances for TLC | |

Modules are composed in two ways.  Three of them extend another and run its actions
as a part of their own behaviour: `Mesh` hands its dual graph to `CommSetup` and takes the
lists back, `SampleSort` hands its partition to `MoveGraph`, and `Multilevel` goes
through `InitPart` at the coarsest level.  The others hand over by named predicates:
`CommSetup` is checked to establish what `DistGraph` defines and all others assume
(`SetUpAgrees`); `MatchGlobal` is checked to end in a matching for which `IsMatching`
holds (`AgreedMatching`), and `Coarsen` starts in any such matching; `KWayFM` starts in
any of a set of partitions, since what `Coarsen` projects may be any; `Ordering` takes any
set of vertices that separates for what `NodeRefine` keeps separating (`Separates`);
`Diffusion` takes any division of a pair for what `MyLink`, or the scratch division it
competes with, makes of it, and `InitPart` any result of a diffusion.

### Correspondence to the code

*PEs and calls.*  A PE's program counter `pc[p]` is the phase it is in.  What a
PE does between two communications touches only its own variables, so it is one
action where its inner order does not matter to others, and one action for each
iteration where the loop is what is checked (`MatchGlobal` visits vertex by
vertex, `KWayFM` and `NodeRefine` move vertex by vertex).  A collective is one joint
step that needs all PEs to have come to it; a PE that never comes is a deadlock,
which TLC reports.  In `HaloExchange` everything is a separate step.  Where all
communication is collective and what PEs do in between is determined, all PEs
go on together (`Mesh`, `Ordering`, `Multilevel`).

*Messages.*  `chan[p][q]` is the sequence of messages p has sent to q and q has
not taken.  MPI does not reorder messages of one pair, tag and communicator, and
all of the code's messages have tag 1, so a channel is first in first out; there
is no order between different pairs.  `MPI_Waitall` is waiting until a message
of every expected neighbour has come.  In `HaloExchange` the constant `Eager`
says which PEs' sends are complete when buffered; the others' only when the receiver
has posted its receive (`SendsDone`); the MPI standard allows both.

*Vertices.*  The code renumbers own vertices `0..nvtxs-1` and ghosts after them;
only `CommSetup` and `Mesh` work with these local numbers.  The other modules name a
vertex by its global number and keep a function over own vertices and ghosts
per PE, so `match[p][v]` is `graph->match[l]` where `l` is v's number at p.

*Randomness and sorting.*  `FastRandomPermute`, `RandomPermute` and `RandomInRange` are
choices: the traversal orders in `Orders`, any visiting order in `KWayFM` and for equal gains in
`NodeRefine`, any set in `Heavy`.  `Heavy` has a vertex of every PE because the code
marks a random one when it finds none.  A sort that compares keys only
(`ikvsorti`) may leave equal ones in any order (`Orders` of `SampleSort`).  `Noises` is the
random noise of `DropEdges`.

*Numbers.*  Weights are integers and part targets are scaled to integers
(`Target`, `Ub` in percent); the code's floating point comparisons of weights
against `ubvec*tpwgts` are exact here.  In `KWayFM` the scaling of moves to undo
(`Growth`, `Scale`) is done with rationals in the form the code computes them.

### What the actions are

* `HaloExchange`: `Enter` packs and posts the sends (a full slice, or only
  listed vertices), `Receive` unpacks one neighbour's message (in the order of
  the neighbours for changed-only exchanges, in any order for full ones), `Leave`
  waits for the sends.  Between exchanges the caller changes some of its own
  values; in a changed-only exchange it lists just these.
* `CommSetup`: `Scan` permutes interior vertices, collects remote indices and
  rewrites `adjncy`; `Alltoall` exchanges counts and slots; `Receive` gets the
  index lists and derives `peadjloc`; `Remap` restores `adjncy`.
* `Mesh`: `NumberNodes` makes numbers begin at 0, `LocalNodes` sends pairs of node and
  element to the nodes' PEs, `ReturnLists` is their answer, `MakeDual` counts common
  nodes and restores the mesh, `PartKway` and `Close` are the ends of
  `ParMETIS_V3_PartKway` around `Library`, which is `CommSetup`.
* `MatchGlobal`: `Skip`, `MatchIsland`, `MatchLocal`, `AskRemote` are the four
  outcomes of a visit; `SendRequests`, `Serve`, `Update` the request, decision and
  publication of a pass; `Refresh` the changed-only exchange; `Hop*` the two-hop
  matching; `Finish` the fixing of the ones left over.  `VisitLocal`, `PublishLocal` and
  `RefreshLocal` are `Match_Local`.
* `Coarsen`: `Count`, `Number`, `Away`, `Lists`, `Sizes`, `Collapsed` are the
  stretches between two communications of the contraction, `CollapsedLocal` that of a
  local one; `MakeNoise`, `Medians` and `Drop` those of `DropEdges`; `Partition` is the
  recursion; `Project` and `ProjectReceived` the way back.
* `KWayFM`: `StartPass`, `BeginDirection`, a visit (a tentative move or none), a sum of
  the moves, a commit (undoing part of them), `AskUpdates`, `Update`, a
  recomputation, the end of a pass.  The three functions are copies of one skeleton
  in the code; what they do alike is an operator here, and each has actions of its
  own: `FMVisit`, `BalanceVisit`, `AdaptiveVisit` and so on.  `Programs` are the orders in
  which the drivers call them.
* `NodeRefine`: `SendWhere`, `ComputeParams`, `ReduceParams` compute degrees and
  weights; a side of `Greedy` is `StartGreedy`, `MoveVertex` by gain, `SendUpdates`,
  `PullVertices`, `UpdateDegrees`, `EndSide`; `RefineInterior` is the serial refinement of a
  PE's own part of the separators.
* `Ordering`: `Separate` finds the separators of a level (the best of `p_nseps`),
  `LabelSeparators` numbers them, `CompactGraph` takes them out, `Move` and `LocalNDOrder` order
  what is left, `ProjectBack` returns the numbers.
* `InitPart`: `Bisect` is one step of the recursion of a group, `Reduce` and `TakeBest`
  the election; `SendBest`, `Diffused` and `Decide` the two strategies of `Balance_Partition`.
* `Wave`: `FillEmpty` and `Start` come before the passes; `SolveFlow` begins a pass, `Move`
  looks at the next vertex of its order, `Reduce` is the vote of the PEs.
* `Diffusion`: `Flows` begins a pass and `Match` a round; `Divide` is what one PE does with
  its pair, and the only step that is not joint; `Gather` is the exchange and the sums.  `ComputeParams`,
  `Sort`, `Visit`, `EndVisits` are the refinement that every PE repeats, `EndPass` the vote.
* `MyLink`: `Fill` begins a pass, `Move` takes the vertex of most gain from the queue
  `selectq.c` selects, `GoBack` takes moves back, `Measure` computes cost and imbalance.
* `Multilevel`: `Coarsen` makes a level, `Start`, `Place`, `Placed` partition the coarsest
  graph, `Ascend` projects and refines, `Again` is the repetition of
  `Order_Partition_Multiple`, `Return` the end of the call.  Its `graphs[l].held` are the
  arrays a graph has, `files` the files on disk; each `fopen` or write may fail.
* `Remap`: `Gather` the offers, `Assign` one of them, `EndPass`, `Rest` for the
  unmapped parts, `EndRest`, `Saving`, `Apply`.
* `MoveGraph`: `Scan`, `Tell` and `Transpose` are the collectives, `Publish`/`Labels`,
  `Ship`/`Unpack` and `Return`/`Scatter` the sending and the receiving halves of the
  three exchanges between them.  `Unpack` also chooses what the caller computes on the
  moved graph.
* `SampleSort`: `SortOwn`, `Pick` (the splitters), `Exchange` (the buckets), `SortReceived`,
  `SendBack` (the scan and the way back), `Pop`; then `PartGeomKway` is `MoveGraph`.

## 3. Runs

| Run | Instance | Shows |
|---|---|---|
| `HaloRing` | three PEs, all neighbours, every program of three exchanges, sends of two PEs not buffered | `GhostsCoherent`: after its r-th exchange a PE has its owners' values of their r-th; `IInv`, the invariant the proofs use; `ImplementsAbstract`: callers see `HaloAbstract`; `AllFinish`: every exchange ends |
| `CommSetup` | 512 graphs on five vertices in two distributions, one with an empty PE; 972 meshes of five elements | `SetUpAgrees`: the lists of two PEs fit slot by slot, interior vertices come first; `DualGraphRight`: what the PEs derive from each other's lists is the dual graph; `InputComesBack`: graph and mesh are the caller's again |
| `MatchGlobal` | eight vertices on three PEs, an island, three choices of heavy vertices, four orders, both levels, with and without two-hop matching, global and local | `AgreedMatching`: at the end matches are mutual, exactly one side keeps, no PE is left without a coarse vertex, homes are not mixed; `BuffersSuffice`; `NobodyForgotten`: no unmatched vertex is retired; `MatchIsFinal`; `AllMatched` |
| `Coarsen` | every matching of a seven-vertex graph on three PEs, two noises | `Contracted`: the PEs agree on the coarse vertices (`CmapConsistent`) and the coarse graph is the quotient with its weights; `DroppedAlike`: an edge is dropped by both ends or by none; `CutPreserved`; `AllProjected` |
| `KWayFM` | seven vertices, three PEs, three parts, two passes of two directions, from chosen partitions, three functions | `InfoExact`: degrees, part weights and cut equal their definition after each direction, and the degrees after each move; `HeavyPartsNeverGrow`; `SeenCostNeverWorse` |
| `Dissection` | one behaviour for each of: `NodeRefine` with two pairs of parts on twelve vertices and three PEs, the separator of one across all PEs; `Ordering` with eight vertices on five PEs, all separators of at most two vertices a part | `Separates`: no edge joins two sides, after any side of a pass; `ParamsExact`: degrees, weights and the separator list are right when a side ends, and no gain promises too much before; `SeparatorNeverGrows`; `OrderIsPermutation`; `SizesDescribeOrder`: domains of different PEs have no edge between them, found in the compacted graphs or not |
| `Multilevel` | nine PEs in two groups, three parts, four kinds of calls, graphs of 3 to 8 vertices | `LabelledOnce`: each vertex of the coarsest graph gets its label from one PE of a group; `NothingLeftBehind`: nothing is allocated over what is held, files are those of graphs on disk; `NoElectionLosesBalance`; `Ends` |
| `Remap` | three parts, two of which are similar, 144 weight tables | `NoPartLost`, `SameNames` |
| `MoveGraph` | all 729 partitions of six vertices into three parts, and 22 layouts for the sample sort | `MovedIsGraph`: labels are a permutation and each PE's moved vertices are the ones that got its labels; `InfoReturns`; `SharesKept`: the sort gives each PE its share, in the order of its own keys |
| `Balancing` | one behaviour for each of: `Wave` with seven vertices, one without edges, in four parts, some empty, on PEs 0, 1 and 4; `Diffusion` with four vertices in at most four parts, two PEs, two passes of two rounds; `MyLink` with 64 divisions of six vertices, twelve pairs of flows | `BookkeepingExact`: sizes, weights and external degrees equal their definition after each move; `NoPartEmptied`; `ExchangeKeepsDivisions`: after an exchange all PEs have one partition, with what each has made of its pair; `SerialInfoExact`; `LimitsKept`: a part stays below the limits of both constraints; `GainsAreSavings`: the key of a vertex is what its move saves of the cost; `BestPassKept`: the first pass keeps its best flows, and swaps are counted |
| `BalanceAlone` | adaptive repartitioning on one PE | a violation, see section 5 |
| `GeomSorted` | the instance of `MoveGraph` | a violation, see section 5 |

The modules that define a `TypeOK` have been checked for it on the same instances; for
`HaloExchange`, `Remap` and `KWayFM` it is proved.  It is not in the runs, whose
properties are the ones a mistake would be hard to notice by.  `MCDissection` and
`MCBalancing` make one run of modules that do not interact: a variable `call` says which of
them a behaviour is of, and the others stay where they begin.

### Bounds

* *Three PEs* are the fewest where a PE has two neighbours that are not in step
  with each other, where two PEs ask a third for one vertex, and where two PEs
  move vertices into a part of a third.  `Multilevel` has nine: two groups for each
  of the strategies of `Balance_Partition`, unequal halves of PEs and of parts, and a
  PE left over.  `Ordering` has five, one more than it can use.
* *Three exchanges* are enough for a PE to be one ahead of a neighbour and for a
  value listed in one exchange to be left out in the next.  Every exchange stores
  values never used before, so that a stale ghost is seen; the proofs hold for
  any length.
* *Graphs*: the one of `MatchGlobal` has an island, a vertex with three PEs
  around it, two local vertices with one remote neighbour, and edges both of
  whose ends are matched first by someone else; its weights make both ends of an
  edge choose each other.  `Coarsen` has every legal matching, local and remote
  pairs with either side as the keeper; weights are powers of two or sums that
  tell edges and vertices apart.  The partitions of `KWayFM` are those where moves
  are undone, several PEs fill one part, and a PE moves a vertex into a part it has
  made lighter first.  In `NodeRefine` two PEs move the ends of an edge at once and
  several pull in the same neighbours.  The meshes of `CommSetup` have elements of two and
  three nodes, nodes of several PEs, a least node that is not the first number, and,
  with `mask` = 1, hash values that three elements share.  One of the layouts of
  `SampleSort` has a PE whose keys skip a bucket; others have equal keys.
  `Wave` has partitions with empty parts, with parts that have no link, and parts of one
  vertex that flows would empty.  In `Diffusion` there are links over which nothing flows,
  PEs without a pair, and partitions of three parts that become adjacent later; a PE
  swaps at most `MaxSwaps` = 1.  In `MyLink` the flows ask for more and for less than the parts hold, in
  the same and in opposite directions.
* *Loops*: `Diffusion` makes 2 passes of 2 rounds instead of `N_MOC_GD_PASSES` = 6 of 21, its
  refinement 2 passes instead of 10; `Wave` makes as many as the code for four parts, `MyLink` the 4 of the code.
  `MatchGlobal` makes 2 passes instead of `NMATCH_PASSES` = 4, `KWayFM` and
  `NodeRefine` 2 instead of `NGR_PASSES` = 4, `Remap` at most 3 instead of
  `NREMAP_PASSES` = 8.  Two passes show what one leaves to the next (retired vertices,
  refused requests, recomputed degrees); in `Remap` three passes can map all three
  parts.  The proofs hold for any number.
* *Scaled constants*: `KeepBit` is 100 instead of 2^29: all that counts is that it is
  more than any vertex number.  `RIP_SPLIT_FACTOR` is 2 instead of 8, `nbits` 2 instead of 9,
  `mask` 1 instead of 2047; they are small so that groups have several PEs, keys
  tie and hash values collide on small instances.

### Fairness

MPI makes progress and no PE stops between calls, so an enabled step of a PE is
taken at last: `HaloExchange` assumes weak fairness of each PE's steps
(`FairSpec`).  The other modules end in a state from which only stuttering is
possible, and each step brings a PE further; weak fairness of `Next` says only
that the program does not stop, and whether it can get stuck is what deadlock
checking and the liveness properties `AllMatched` and `AllProjected` ask.  In
`Multilevel` `FairSpec` is weak fairness of its steps: each is a call that ends by itself
or a collective; `Ends` says that levels, groups and repetitions come to an end,
`OneResultTaken` that the coordinators' decision does.  The modules without fairness
have no loop whose end is in question and rely on deadlock checking (a `Terminated`
disjunct keeps the intended end from counting as a deadlock).

## 4. Proofs

All proofs hold for any number of PEs, any graph and any data.

### `HaloExchange_proofs`

The inductive invariant `IInv` has, besides the types, four parts: `LogInv` (the log of
published values has an entry for each exchange entered), `AwaitInv` (whom a PE
still waits for), `ChanInv` (the channel from p to q holds exactly the exchanges
that p has entered and q has not taken, in order, each with values faithful to
p's log) and `GhostInv` (a ghost has the value of the last exchange taken).
`GhostsCoherent` alone is not inductive: a message with changes only is right
only relative to the ghost it meets, which is why `ChanInv` says of every message
in flight that what it leaves out has not changed since the exchange before it.
`InitInv`, `EnterInv`, `ReceiveInv` and `LeaveInv` show that it is kept; `Invariance`
follows, and from it `TypeCorrect`, `Coherence`, `RightMatching`, `RunAhead` and `Clean`.
`Refinement` proves that `HaloExchange` implements `HaloAbstract` under the mapping
in `HaloExchange` (`View`, `Inside`): entering is `Publish`, leaving is `Refresh`,
and receiving changes nothing a caller sees.  `OwnersCaughtUp` is its key: a PE
leaves only after every neighbour has entered the same exchange.

The one assumption on the graph is that adjacency is symmetric, which the manual
asks of callers and without which `CommSetup` itself would not fit.

### `Remap_proofs`

`IInv` says that while the map is built `map` and `rowmap` are inverse to each
other, mapped parts are similar to the ones whose place they take, and `nmapped`
is the number of parts that have a PE.  `NoPartLost` alone is not inductive: that a map
with `nmapped = nparts` is a permutation needs that the counter counts distinct
parts (`GiveBuilds`, by the cardinality of `Mapped`), so a full map has no gap
(`CountMapped`), and that no two parts have one PE because `rowmap` can have only
one (`FullMapUsable`).  Finite sets of parts have a least element and a heaviest
one (`First`, `HeaviestIsPart`), by well-founded induction on the subsets of `PE`.
`TypeCorrect` and `PartsKept` follow.

`NamesShared` is `SameNames`.  The PEs go through the offers on their own, so two of them
are at different places most of the time; what a PE has built is determined by the
offers all have gathered and by how far the PE has come, so two PEs at the same place hold the
same map, and at the end all are at the same place.

### `Multilevel_proofs`

`NothingIsLeft` is `NothingLeftBehind`, whichever calls to `fopen` and writes fail.  The invariant
says where an array of a level is at each point of a call: in memory or in the graph's
file, never twice and never nowhere (`InOnePlace`), with files for the graphs that are marked as
written and for no other (`Stored`), only on the levels above the one worked on (`Waiting`).
`CoarserAssumption` says that `CoarserSizes` gives its coarser sizes to every size a graph may get, and that there is a graph of each.

`EachLabelledOnce` is `LabelledOnce`.  A PE knows only the half it goes on with, so the invariant
(`VoteInv`) relates the halves of a group: the PEs a PE goes on with are all there and have gone
the same way (`Manned`), every vertex and every part is in somebody's half (`Covered`), and PEs that have
gone different ways have no vertex in common (`Apart`).  A bisection keeps this because of the PEs it
splits at least one takes either half.  When nobody can split, the PEs that share a half are led by
exactly one of them, or there is only one; all other labels of its vertices are 0, and the
sum is the label it gave (`OneLabel`).

`ElectionsKeepBalance` is `NoElectionLosesBalance`, a property of steps.  `ElectInv` says what is known when an election
begins: the candidates are partitions, of the lowest PE of each group (`Candidates`, from `VoteInv`), and a coordinator
has a partition just when somebody sends it one (`Coordinated`).  `ElectedIs` then compares the costs: a candidate that
is not balanced costs as much as the largest cut, and more with its load added, a balanced one as much as its own; at least one
balanced one has less, or the load decides.  `RemapKeeps` shows that a bijection of the parts (`SerialRemap`) keeps
the cut and the largest part.  Part weights are sums along a list (`PartWeight`), which exist by induction
over its positions (`SummingExists`).  The assumptions are that vertices have weights that are not negative, that edges join
vertices of the graph (`GraphAssumption`), and that there is at least one group and one constraint (`SplitAssumption`,
`NConsAssumption`).

### `GraphFacts`

What a sum over a finite set becomes when an element is added or taken away, when the set is
split into disjoint parts or its elements are renamed, and how two sums compare.  The library
has no such facts.  They are proved by induction over finite sets, in the form of a set of
subsets that holds the empty set and is closed under adding an element.  A fold over a list is found
the same way: among the functions on its prefixes there is one that starts and goes on as the fold
does (`ServeStates` and its likes in `MatchGlobal_proofs`), and an invariant of the loop is then an
invariant along that function.  `PrefixSums` and `Ranks` say that numbers dealt out as the sum of what the PEs before
have, plus the place among one's own, go to each vertex once and without gaps.  Of graphs, `GraphFacts` says who owns
what, who is whose neighbour, and what `Post`, `Take` and `Exchanged` do to each channel and ghost.

### `NodeRefine_proofs`

`SeparatorsSeparate` is `Separates`: when a side of a pass has ended, no edge joins the two parts
of a pair.  It assumes of the start (`StartsAssumption`) what `CompactGraph` and the initial
bisection leave: labels that come in pairs, no edges between different pairs, and separators
that separate; and of the weights that they are positive (`WeightAssumption`; see `KWayFM_proofs`).
`Separates` alone is not inductive, since on the way two neighbours may have moved to
opposite sides.  The invariant follows what each PE does not know yet:

* `Boxes`: the messages on the way to a PE are the ones it waits for, and hold all its ghosts'
  owners have changed;
* `Copies` and `Changed`: a ghost is as its owner has it, or a message is to come that
  lists it, and a vertex moved on one side is in its PE's list;
* `Paired`: no move leaves its pair of parts;
* `Lists` and `Pending`: an edge that was laid open by a move has its other end in the list
  of some PE that will pull it into the separator before the side ends;
* `Parted`: but for those edges, the parts are separate; `NotAhead` and `Together` say how far
  PEs can be apart.

Both ends of an edge do not move in one side, because a side moves vertices to one part only.  The
serial refinement (`RefineInterior`) changes no vertex at the border of a PE, so it opens no edge that another PE sees.

`ParamsStayExact` is `ParamsExact`, `SeparatorShrinks` is `SeparatorNeverGrows`.  They rest on a
second invariant `DInv`, which adds to `IInv` what is missing in a degree at each point.  `Marked`
follows a mark, a vertex that a PE has noted as next to one it moved, from `update` or `supdate`
through the message to the PE that owns the vertex:

* `Promised` and `Remaining`: on the side the vertices leave, a degree counts at
  least the neighbours without a mark, first those the PE sees, then those it does not itself pull in;
* `Gained`: on the side they join, a degree misses no neighbour, unless its vertex is in
  `update` or marked by a neighbour and will be computed anew;
* `Bounded`: when the side ends, no degree misses a neighbour, so the gains of the next promise no
  more than they hold, and after `ComputeParams` they are exact;
* `Weighed` and `Fresh`: `lpwgts` is the weight of a PE's own vertices by part, and the lists are
  empty between the sides;
* `NotHeavier`: the separators and all that is marked to join them (`ToClose`) weigh at most
  `mincut`.

For the last, a move of `v` frees `VWgt[v]`.  The gain is not negative, so that is at least
`edegrees[v][cc]`, which by `Promised` is at least the weight of what `v` marks that has no mark
of this PE yet.  A vertex that two PEs mark is counted once in `ToClose` and paid for twice.  Pulling turns
marks into separator vertices, so the sum stays.  `SeparatorNeverGrows` then follows because `mincut` is set
anew only when all PEs have ended the side and no mark is left.

### `KWayFM_proofs`

`HeavyPartsStay` is `HeavyPartsNeverGrow`, which the code asserts in a comment before the undo loop.
Each PE compares with its limit what it believes a part to weigh: the weight when the direction
began and its own moves.  `Moving` says that in these terms, with `begun(p, a)` what p had in part a
when the direction began: the weight of a part was the sum of what the PEs had, and a PE has in a
too heavy part at most what it had.  A visit shifts both weights alike, so `begun` stays; a goal is
never a part that would be too heavy.  Adding up over the PEs gives the property.  `KWayBalance` is
exempt: it does not compare with a limit.

`InfoIsExact` is `InfoExact`, `CostNeverWorse` is `SeenCostNeverWorse`, `TypeCorrect` is `TypeOK`.
They assume of the graph that it has no loops (`LoopAssumption`: contraction drops them, and a
caller's list has none), that vertices are numbers, and that weights, factors, sizes and the number of passes
are what the options allow (`WeightAssumption`, `FactorAssumption`, `PassesAssumption`).  Weights of vertices
are positive: `weird.c:65` refuses only a sum of 0, so graphs with single vertices of weight 0 are
outside the theorems, here and in `NodeRefine_proofs`.

The state is exact only at a few points, so the invariant `InfoInv` says at all others
what is wrong and who will put it right:

* `Known`: while a PE moves vertices its degrees are those of the partition it sees
  (`Tentative`), with ghosts as last exchanged; after the commit they are those of the committed one;
  when the new ghosts are in, a degree is right, or its vertex is in `update` or in a list that a
  neighbour has sent or will send (`Asked`).  It says the same of `oldEDs`, which `lmincut` counts.
* `Boxes` with `GoodWhere` and `GoodAsks`: between the two rounds of messages a channel holds the
  first, the second or both; the first gives every changed vertex that the receiver has as a
  ghost, the second lists every vertex of the receiver next to a change of the sender.
* `Copies`, `NotAhead`: a ghost is right unless such a message is due.
* `Moves`: a vertex whose tentative part differs is in `moved`, so that the commit or the undo
  loop meets it.
* `PartsOwn`, `PartsKnown`, `Cuts`: weights and cut as sums over vertices and PEs.

The argument has three parts.  `InfoAfterRight`: the increments of `InfoAfter` turn the degrees of one
partition into those of the next, for the vertex that moves (`MovedInfoRight`) and for its neighbours
(`NeighbourInfoRight`), including entries that leave the list when they become 0.  `UndoneSettled`: the
undo loop, a fold over `moved`, keeps that, and `kept` holds every vertex that stays
moved, so no difference is missing in the messages.  `SumCorrected` and `CutCountedTwice`: adding the
differences of the recomputed vertices makes `lmincut` the sum of the external degrees, and half the sum
over all PEs is the weight of the cut edges.

For the cost, `SeenCutMoves` and `AwayMoves` say by how much a move changes the cut and the
data away from home that the PE sees.  Since the degrees are exact when the move is weighed, that is the
gain the code computes, and no move of negative gain is made.

### `MatchGlobal_proofs`

`MatchingAgrees` is `AgreedMatching`, `MatchesAreFinal` is `MatchIsFinal`, `NobodyIsForgotten` is
`NobodyForgotten`, `BuffersAreEnough` is `BuffersSuffice`: all safety properties of `Match_Global` and
`Match_Local`.  They assume that there are no loops (`LoopAssumption`: contraction drops them; an
island with a loop would have itself for a candidate), that `FastRandomPermute` returns permutations
(`OrdersAssumption`), that there is at least one pass (`PassesAssumption`), that every PE has a vertex
marked as heavy (`HeavyAssumption`, the loop at `match.c:457`), and that `KEEP_BIT` is more than any vertex.

`AgreedMatching` speaks of the end only, and the ends of a remote pair disagree on the way: the PE that
grants a request has its vertex matched at once, the one that asked learns of it two messages later.
So `IInv` says who knows what already, and in which message the rest is:

* `NotAhead`: by how many phases and passes two neighbours can differ.  It decides which messages are
  due (`RequestsDue`, `AnswersDue`, `NewsDue`), and `Boxes` says that a channel holds those and no
  others, at most two.  All have tag 1, so nothing else tells requests from answers.
* `Collected` and `Messages`: a request is for an edge of one home, by a vertex that waits
  (`MAYBE_MATCHED`) and is in no other request; an answer that is not a refusal (`Grants`) is backed by
  the match of the PE that granted it.
* `AskedOnce`: a vertex that waits has exactly one request or answer under way, so it is matched or
  free again when the pass ends, and never given away while it waits: `Serve` refuses everybody but the `UNMATCHED`.
* `Mated`: a matched vertex agrees with its partner (`Agreed`) or has been granted to it and the answer is
  under way (`Granted`).  It is what `AgreedMatching` becomes before the end.
* `Alone` and `Over`: heavy vertices are never anybody's partner, and at the end all are matched; so each
  PE keeps its heavy ones.
* `Placed`, `Listed` and `Remembered`: `iperm` is right for positions that are still visited (`Live`), which
  is all that is left of it after swaps that correct one of two entries; the vertices in `changed` are
  matched, still live and different, so that each of them retires its own position.

A step changes one PE, so the invariant is split into what concerns one PE (`Private`) and what relates
two neighbours (`PairFine`).  Steps without messages between PEs in a pass need only the former
(`QuietStep`, with `Moves`: who is matched or waits stays as it is); for `SendRequests`, `Serve`, `Update` and `Refresh` the
latter is shown for the PE and each neighbour, by what the neighbour may be doing (`LoudStep`, `Cared`).
Requests are served in two nested loops, over the neighbours in random order and over each list: `ServeAllIs` says
what all of them make of `match` and of the lists (`Served`), `UpdateAllIs` and `RetireAllIs` the same of the
answers and of the retired positions.  That two PEs asking for one vertex cannot both get it is then that a
match only changes when it was `UNMATCHED`, along the whole loop.

### `Coarsen_proofs`

`CoarseIsQuotient` is `Contracted`: the PEs that know the coarse vertex of a vertex agree on it, and when all have
made theirs, the coarse graph is the quotient of the graph by the matching.  It assumes that weights are not
negative, those of edges positive and the same in both directions (`WeightAssumption`: the property tells edges by
their weight), and that the matching is one that `MatchGlobal` is proved to leave (`MatchingsAssumption`, with
`IsMatching` from `Matching`).

`CmapConsistent` compares PEs that know all numbers.  Before that a PE has only some of them, it changes
`match` while others still count, and it may be two exchanges ahead of a neighbour.  The proof names what does not change:
`mate` and `makers`, read off `match` with or without the bits that `Number` adds, and `num`, the number a
vertex must get: what the PEs before its maker's make, and the maker's place among its own.  `NumsAre` says
that mates have one number, others different ones, each PE's in a range of its own.  Then `IInv` says how
far everybody is:

* `Mated` and `Counted`: `match` is a matching all the time, and the counts are gathered when the first PE numbers.
* `Numbers`: what `cmap` holds, phase by phase: nothing, the numbers a PE knows at once (`Early`), those
  of its own vertices, all.
* `Queues4`: which of the four messages (the early numbers, the full numbers, the sizes, the lists) are
  left in a channel, as a function of how many the one has sent and the other has taken (`Left`).  The last
  two go only between PEs with a common pair.  That the receiver expects them exactly when they are sent
  is `PartnersAre`: both sides derive it from the same matching.
* `InStep` and `Placed`: how far two neighbours can be apart, and that nobody drops edges or projects before
  the coarse graph is there.
* `Exchange` and `Coarse`: `scand` and `rcand` are what leaves and what is met, and the coarse graph
  is made of the lists of each `Team`.

`CollapsedKeeps` and `CollapsedLocalKeeps` show that a PE makes each coarse vertex of the lists of all its members,
its own and those in messages, with all ends already translated; `Quotient` that `Collapse` of such lists gives the weights
between teams and leaves out loops.

`EdgesDroppedAlike` is `DroppedAlike` and `CutIsKept` is `CutPreserved`.  They need one more assumption,
`NoisesAssumption`: every coarse vertex gets a noise, not negative and less than half the unit (`RandomInRange(128)` at `match.c:1610`, against a weight
shifted by 8 bits at `match.c:1622`).  `LInv` is the part
of the invariant that says what happens after the coarse graph is there:

* `Noisy`: the noise of a coarse vertex is that of its owner on every PE that has its ghost, from the first of the
  two exchanges on, and so is the median from the second.  A median is not above the keys of at least half of the
  vertex's edges (`Halved`, by `MedianIs`), and is 0 for a vertex that contracts one vertex only.
* `Thinned`: what is left of the coarse graph: nothing new, weights as before, and after `DropEdges` exactly the
  edges whose key reaches the lesser median of the two ends (`Kept`).
* `DropMail`: which of the two messages are on their way, from how many a PE has sent (`said`) and
  the other has taken (`heard`).
* `Shipments`, `BackMail` and `Returned`: `scand` and `rcand` still hold who went away to whom, under the key and
  with the coarse vertex they came with; the one message back holds the parts of these; and `where` is the part of the
  coarse vertex, for a PE's early vertices first and then for all.

That both ends decide alike (`KeptAlike`) is then that they compute the same key: the quotient has equal weights in both
directions (`LinkedBothWays`), noise is added, which commutes, and the two medians are compared by their
minimum (`BothKeep`).  For the cut (`CutKept`), sums over vertices are taken by coarse vertices (`SumByPlace`): a coarse vertex
weighs what its members do (`PartIs`), the edges between two coarse vertices are those between their members (`CutIs`), and
edges within one have both ends in one part.  `LeftOver` bounds the coarse cut when edges were dropped.

### What stays with TLC

Liveness and `ENABLED` are outside the prover: `AllFinish`, `AllMatched`, `AllProjected`, `Ends` and
`OneResultTaken` stay with TLC (the last does not hold).  Of the safety properties, those of `CommSetup`, `Mesh`, `MoveGraph`,
`SampleSort` and `Ordering` are not proved, though nothing known stands against them.  Their lists are sorted by
`SetToSortSeq`, which rests on `SortSeq` of module `TLC`, for which the prover has no definition; the proofs need one of
their own first.  Nor are those of the balancing (`Wave`, `Diffusion`, `MyLink`), whose modules are long loops
of one PE.  An induction principle that takes a predicate
as a parameter cannot be used with the provers at hand; where a proof needs induction it is one over
a set: the subsets of a finite set, or of the indices of a list, for which the claim holds.

## 5. Disagreements between documentation and code

* *One PE cannot repartition adaptively* (`BalanceAlone`).
  `documentation/initbalance.c.md:18` says that when only one strategy is used, for
  example because of `npes`, its result is taken.  `initbalance.c:114` indeed gives one PE the
  scratch-remap; but `initbalance.c:325` then waits for the cost of the diffusion
  from `gd_pe` = 1, a rank that does not exist.  `ParMETIS_V3_AdaptiveRepart` has no
  other path for one PE: it only sets `nparts` = 1 apart.
* *The sample sort does not sort* (`GeomSorted`).  `xyzpart.c:468` says it sorts a distributed
  list in increasing order.  The loop that finds bucket sizes goes on by one bucket
  per element (`scounts[++j]++` at `xyzpart.c:573`), so an element beyond the next two
  splitters is sent one bucket too low.  With keys 0, 8, 9 on PE 0, 5 on PE 1 and 3, 7
  on PE 2, the vertex of key 8 comes before the one of key 7.  The partition keeps its
  shares (`SharesKept`); it only follows the curve less well.

### Noticed while modelling

* `documentation/mdiffusion.c.md:14-15` says that each pass of `Mc_Diffusion` constructs the connectivity
  graph.  The code does it once (`mdiffusion.c:94`), before the loop, and so does `Diffusion`: parts
  that become adjacent in a pass are not linked in the next, and links that are gone still carry flows.
* `documentation/mdiffusion.c.md:27` says that `Mc_Diffusion` ends if no swaps occurred.  `nswaps` begins
  as -1 (`mdiffusion.c:28`), is not reset, and is summed up from all PEs (`mdiffusion.c:266`), so the
  -1 of a PE without a pair cancels a swap of another, and the count of a PE that has no pair in a
  later round is counted twice.  The diffusion may end early; the partition stays right.
* After "now go back to best flow" (`balancemylink.c:271`) `where`, `id`, `ed` and the counts go back,
  `flows` does not, so the passes after the first work on flows of moves that were undone.  What holds
  is that the first pass ends in the best division it met (`BestPassKept`).
* `Mc_SerialKWayAdaptRefine` sets `minwgt` to `ubvec*nparts` (`serial.c:145`) instead of a lower
  limit, which no part's weight exceeds; a vertex with an internal edge is therefore never moved
  (`Held` in `Diffusion`).
* `Mc_Diffusion` allocates `matrix.values` and `colind` with `nedges` entries, while the matrix has
  one for each part besides those for links; `WavefrontDiffusion` allocates for both.
* The last part of `Mc_Diffusion`, which gave every part a vertex, is commented out
  (`mdiffusion.c:292`): with two constraints a part may end empty, as it may in `Diffusion`.
* When a part has no link `WavefrontDiffusion` sets `cost` to its rank (`wave.c:126`); the value is
  overwritten at `wave.c:250`.

* `match.c:478-492` pairs an island with any unmatched local vertex of the same home from
  `last_unmatched` on, whatever its degree, where `documentation/match.c.md:30` speaks of
  other islands.  The matching stays legal; it is only less good.
* `KWayFM` may end with a larger cut than it began a direction with, and a part
  that was balanced may end above its limit, since the moves to be undone are
  chosen in proportion and rounded.  What holds is weaker: parts that were too
  heavy do not grow, and the cost each PE sees is not made worse by its moves.
  `KWayBalance` moves for balance and does not promise the latter.
* `KWayNodeRefineInterior` leaves its loop over the separators at the first one with too few
  interior nodes (`break` at `node_refine.c:630`), so a PE does not refine the later
  ones.  They stay separators.
* In `remap.c` an offer refused because target weights differ is repeated
  unchanged in the following passes, and the loop over unmapped parts does not
  return to a PE it passed.  Both only make the function fall back to the
  identity where a better map exists.
* The two-hop matching (`match.c:655-699`) ignores `myhome`; what `AgreedMatching`
  says of homes is said of the runs without it.
* `IRBinCoordinates` sets the last bin marker to `gmax*(1+2*REAL_EPSILON)`
  (`xyzpart.c:155`), which is not above `gmax` when that is zero or negative.
* The argument checks return at the first missing argument, before sums over all PEs
  (`weird.c:65`) that PEs with all their arguments wait in.
* `gkMPI_Isend/Irecv` pass 64-bit counts on as `int` for MPI before version 4,
  while the v-collectives check them.

## 6. Not modelled, and the plan

Not modelled for good: the serial METIS calls, the solver of the diffusion equation and
`RedoMyLink` with the two-way refinement of `serial.c` (sequential numerical code of one PE:
their results are inputs of `Wave`, `Diffusion` and `InitPart`), binning of coordinates in real arithmetic, the work space (pointers and
arenas of one PE), the parsing and printing of `programs/`, timers and debugging output,
and code nobody calls (`Match_Global0`, `FindVtxPerm`, `SampleSort` and
`RBBinCoordinates` of `xyzpart.c`, `msetup.c`).

Abstractions that remain: several balance constraints are one in `MatchGlobal`,
`Coarsen`, `KWayFM` and `NodeRefine` (weights and limits are compared per constraint).  `Ordering`
chooses any separator, `Wave` any votes of the other PEs, and `Multilevel` any size for the next coarser graph, within
stated bounds; the memory and files of `Multilevel` are one PE's.  Groups of PEs in
`InitPart` do not interact before the reduction and are taken in turn.

A `PASSERT` of the code (such as the one at `initbalance.c:143`, that a part still to be bisected has
more than one vertex) is compiled out unless the build debugs (`macros.h:64`), and no action stops at one.

What is left of the plan, in this order:

1. Proofs: `Ascending` of `CommSetup` by a definition that can be reasoned about, then `SetUpAgrees` and the facts of
   `DistGraph` it establishes; then `MovedIsGraph` of `MoveGraph` and `SharesKept` of `SampleSort`, with the
   facts on prefix sums (`PrefixSums`) that `Coarsen_proofs` uses.
2. The same for `Mesh` and `Ordering`.
3. Several constraints in `KWayFM`, where a move may help one and hurt another, as `Diffusion`
   has them for the serial refinement; then `RedoMyLink`.
4. The argument checks with their sums over PEs, and the serial path for small graphs.
