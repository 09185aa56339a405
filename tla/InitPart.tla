------------------------------ MODULE InitPart ------------------------------
(***************************************************************************)
(* The partition of the coarsest graph: InitPartition and KeepPart of      *)
(* libparmetis/initpart.c, Balance_Partition of libparmetis/initbalance.c  *)
(* and SerialRemap of libparmetis/serial.c.  Every PE has the whole graph  *)
(* (AssembleAdaptiveGraph).  Groups of PEs bisect it recursively, the PEs  *)
(* of a group going on with different halves; the groups' partitions are   *)
(* compared and one is taken.  In adaptive repartitioning half of the PEs  *)
(* do that and the others diffuse; the two coordinators decide.            *)
(*                                                                         *)
(* METIS and the diffusion of one PE are external here: a bisection is     *)
(* any, but PEs with the same subgraph and seed get the same.  Groups and  *)
(* halves do not interact before the reduction, so they are taken in turn. *)
(***************************************************************************)
EXTENDS Integers, Sequences, SequencesExt, FiniteSetsExt, Functions

CONSTANTS
  npes, nparts,
  RIP_SPLIT_FACTOR,       \* at most so many groups (8 in the code)
  Edge, VWgt, Home,       \* by the size n of a graph: its edges, the weights of its
                          \* vertices and the parts they come from; 0..n-1 its vertices
  MaxMoved                \* bound of the model: a diffusion moves so many vertices

PE == 0..(npes - 1)
Part == 0..(nparts - 1)
MAX_NCON_FOR_DIFFUSION == 2
REDIST_WGT == 2
sr_pe == 0
gd_pe == 1

ASSUME NpesAssumption   == npes \in Nat \ {0}
ASSUME NpartsAssumption == nparts \in Nat \ {0, 1}
ASSUME SplitAssumption  == RIP_SPLIT_FACTOR \in Nat \ {0}
ASSUME HomeAssumption   == \A n \in DOMAIN Home : n \in Nat /\ Home[n] \in [0..(n - 1) -> Part]
ASSUME GraphAssumption  == \A n \in DOMAIN Home :
                             /\ VWgt[n] \in [0..(n - 1) -> Nat]
                             /\ IsFiniteSet(Edge[n]) /\ \A e \in Edge[n] : e \subseteq 0..(n - 1)

VARIABLES
  stage,       \* "idle", "bisect", "elect", "diffuse", "decide", "placed"
  way,         \* "init" (InitPartition) or "balance" (Balance_Partition)
  size, ncon,  \* of the coarsest graph
  home,        \* home[v]: the part vertex v comes from
  sub,         \* sub[p]: the group of p, its rank in it (mype), the parts fpart.. and the
               \* PEs fpe.. p goes on with, and the vertices of its subgraph (label)
  gwhere0,     \* gwhere0[p][v]: the label p gives to v, 0 if none
  gwhere1,     \* gwhere1[p][v]: the label v has in the group of which p is the lowest PE
  part,        \* part[q]: the partition the coordinator q has in the end
  where        \* where[v]: the part taken for v

initvars == <<stage, way, size, ncon, home, sub, gwhere0, gwhere1, part, where>>

Vertex == 0..(size - 1)
Partitions == [Vertex -> Part]

-----------------------------------------------------------------------------
(* What is known of a partition, everything times the total weight.        *)

PartWeight(w, a) ==
  LET sum[i \in 0..size] ==
        IF i = 0 THEN 0 ELSE sum[i - 1] + (IF w[i - 1] = a THEN VWgt[size][i - 1] ELSE 0)
  IN sum[size]
Tvwgt == PartWeight([v \in Vertex |-> 0], 0)
Cut(w) == Cardinality({e \in Edge[size] : \E u, v \in e : w[u] # w[v]})
Load(w) == nparts * Max({PartWeight(w, a) : a \in Part})
Fine(load) == 100 * load < 105 * Tvwgt
Balanced(w) == Fine(Load(w))
Moved(w) == Cardinality({v \in Vertex : w[v] # home[v]})

-----------------------------------------------------------------------------
(* The PEs that bisect, their groups and their ranks in them.              *)

OneStrategy == ncon > MAX_NCON_FOR_DIFFUSION \/ npes = 1
Scratch == IF way = "init" \/ OneStrategy THEN PE ELSE {p \in PE : p % 2 = 0}
Diffusers == PE \ Scratch

Rank(p, C) == Cardinality({q \in C : q < p})
ngroups == Min({RIP_SPLIT_FACTOR, Cardinality(Scratch)})
GroupOf(p) == {q \in Scratch : Rank(q, Scratch) % ngroups = Rank(p, Scratch) % ngroups}

Whole(p) ==
  LET group == GroupOf(p)
  IN [group |-> group, mype |-> Rank(p, group), fpart |-> 0, fpe |-> 0, lnparts |-> nparts,
      lnpes |-> Cardinality(group), label |-> Vertex]

\* The half a PE goes on with when its vertices in side are part 0.
Lower(s) == s.mype < s.fpe + s.lnpes \div 2
BranchLate(s, side) ==
  IF Lower(s)
  THEN [s EXCEPT !.lnpes = @ \div 2, !.lnparts = @ \div 2, !.label = side]
  ELSE [s EXCEPT !.lnpes = @ - @ \div 2, !.lnparts = @ - @ \div 2, !.label = @ \ side,
                 !.fpart = @ + (s.lnparts - s.lnparts \div 2) \div 2,
                 !.fpe = @ + s.lnpes \div 2]
Branch(s, side) ==
  IF Lower(s)
  THEN [s EXCEPT !.lnpes = @ \div 2, !.lnparts = @ \div 2, !.label = side]
  ELSE [s EXCEPT !.lnpes = @ - @ \div 2, !.lnparts = @ - @ \div 2, !.label = @ \ side,
                 !.fpart = @ + s.lnparts \div 2,
                 !.fpe = @ + s.lnpes \div 2]

Splitting(p) == sub[p].lnpes > 1 /\ sub[p].lnparts > 1

\* The sides METIS may return: none is empty while there are two vertices.
Sides(S) == IF Cardinality(S) < 2 THEN SUBSET S ELSE (SUBSET S) \ {{}, S}

\* One bisection, by all the PEs of a group that have the same subgraph.
Bisect ==
  /\ stage = "bisect"
  /\ \E p \in Scratch :
       /\ Splitting(p)
       /\ \A q \in Scratch : Splitting(q) => p <= q
       /\ \E side \in Sides(sub[p].label) :
            sub' = [q \in Scratch |->
                      IF [sub[q] EXCEPT !.mype = sub[p].mype] = sub[p]
                      THEN Branch(sub[q], side) ELSE sub[q]]
  /\ UNCHANGED <<stage, way, size, ncon, home, gwhere0, gwhere1, part, where>>

\* The labels PE p may give: only the first PE of a part labels it.
Leads(p) == sub[p].mype = sub[p].fpe
Labels(p) ==
  LET s == sub[p]
  IN IF s.lnparts = 1
     THEN {[v \in Vertex |-> IF v \in s.label /\ Leads(p) THEN s.fpart ELSE 0]}
     ELSE {[v \in Vertex |-> IF v \in s.label THEN s.fpart + kway[v] ELSE 0] :
             kway \in [s.label -> 0..(s.lnparts - 1)]}

Label ==
  /\ stage = "bisect"
  /\ \A q \in Scratch : ~Splitting(q)
  /\ \E p \in Scratch \ DOMAIN gwhere0 :
       /\ \A q \in Scratch \ DOMAIN gwhere0 : p <= q
       /\ \E w \in Labels(p) :
            gwhere0' = [q \in DOMAIN gwhere0 \cup {p} |-> IF q = p THEN w ELSE gwhere0[q]]
  /\ UNCHANGED <<stage, way, size, ncon, home, sub, gwhere1, part, where>>

\* The labels are summed up in each group.  All PEs of a group have the same from then
\* on, of which the lowest wins; only that is kept.
Reduce ==
  /\ stage = "bisect"
  /\ DOMAIN gwhere0 = Scratch
  /\ gwhere1' = [p \in {Min(sub[q].group) : q \in Scratch} |-> [v \in Vertex |->
                   SumFunctionOnSet([q \in sub[p].group |-> gwhere0[q][v]], sub[p].group)]]
  /\ gwhere0' = <<>>
  /\ stage' = "elect"
  /\ UNCHANGED <<way, size, ncon, home, sub, part, where>>

-----------------------------------------------------------------------------
(* The elections: the least cost wins, at a tie the lowest PE (MPI_MINLOC). *)

\* The PE elected among the partitions cand when price is what a balanced one costs.
\* Only Balance_Partition adds the load to the price of an unbalanced one.
ElectedWith(cand, price, Extra(_)) ==
  LET rows    == {[pe |-> p, load |-> Load(cand[p]), price |-> price[p]] : p \in DOMAIN cand}
      fine    == {r \in rows : Fine(r.load)}
      worst   == Max({r.price : r \in rows})
      cost(r) == IF fine = {} THEN ncon * r.load
                 ELSE IF r \in fine THEN Tvwgt * r.price ELSE Tvwgt * worst + Extra(r)
  IN (CHOOSE r \in rows : \A s \in rows :
        cost(r) < cost(s) \/ (cost(r) = cost(s) /\ r.pe <= s.pe)).pe
ElectedPlain(cand, price) == ElectedWith(cand, price, LAMBDA r : 0)
Elected(cand, price) ==
  ElectedWith(cand, price, LAMBDA r : IF way = "balance" THEN ncon * r.load ELSE 0)

ByCut(cand) == cand[Elected(cand, [p \in DOMAIN cand |-> Cut(cand[p])])]

\* The names SerialRemap may give: m[j] is the new name of part j.  The flows between
\* old and new parts are taken greedily (equal ones in any order); parts that are left
\* take the next free name.
Flow(w, f) == Cardinality({v \in Vertex : <<home[v], w[v]>> = f})
Names == Bijection(Part, Part)
Renamings(w) ==
  LET flows == {<<home[v], w[v]>> : v \in Vertex}
      kept(m) == {f \in flows : m[f[2]] = f[1]}
  IN {m \in Names :
        /\ \A f \in flows \ kept(m) : \E f2 \in kept(m) :
             /\ f[1] = f2[1] \/ f[2] = f2[2]
             /\ Flow(w, f2) >= Flow(w, f)
        /\ \A j \in {x \in Part : <<m[x], x>> \notin flows} :
             \A d \in 0..(((m[j] - j + nparts) % nparts) - 1) :
               \E x \in Part : /\ m[x] = (j + d) % nparts
                               /\ x < j \/ <<m[x], x>> \in flows}
SerialRemap(w) == {[v \in Vertex |-> m[w[v]]] : m \in Renamings(w)}

\* InitPartition: the groups compare their partitions and all take the best.
TakeBest ==
  /\ stage = "elect" /\ way = "init"
  /\ where' = IF ngroups > 1 THEN ByCut(gwhere1) ELSE gwhere1[0]
  /\ stage' = "placed"
  /\ gwhere1' = <<>> /\ sub' = <<>>
  /\ UNCHANGED <<way, size, ncon, home, gwhere0, part>>

\* Balance_Partition: the best goes to the coordinator sr_pe, which renames its parts.
SendBest ==
  /\ stage = "elect" /\ way = "balance"
  /\ \E best \in {ByCut(gwhere1)} :
     \E w \in SerialRemap(best) : part' = [q \in {sr_pe} |-> w]
  /\ stage' = IF Diffusers = {} THEN "decide" ELSE "diffuse"
  /\ gwhere1' = <<>> /\ sub' = <<>>
  /\ UNCHANGED <<way, size, ncon, home, gwhere0, where>>

\* The partitions a diffusion may end with.
Diffused == {w \in Partitions : Moved(w) <= MaxMoved}
SentToo(w) == [q \in {sr_pe, gd_pe} |-> IF q = gd_pe THEN w ELSE part[q]]

\* One constraint: the diffusers compare theirs by a rating and the best goes to gd_pe.
\* It may be any, as they may all have found the same.
Wavefront ==
  /\ stage = "diffuse" /\ ncon = 1
  /\ \E best \in Diffused : \E w \in SerialRemap(best) : part' = SentToo(w)
  /\ stage' = "decide"
  /\ UNCHANGED <<way, size, ncon, home, sub, gwhere0, gwhere1, where>>

\* More constraints: they diffuse together.
McDiffusion ==
  /\ stage = "diffuse" /\ ncon > 1
  /\ \E w \in Diffused : part' = SentToo(w)
  /\ stage' = "decide"
  /\ UNCHANGED <<way, size, ncon, home, sub, gwhere0, gwhere1, where>>

\* The coordinators' decision, with ipc_factor = redist_base = 1 and a balance of 1.1.
Light(w) == 10 * Load(w) < 11 * Tvwgt
Heavy(w) == 10 * Load(w) > 11 * Tvwgt
Cost(w) == Cut(w) + REDIST_WGT * Moved(w)
who_wins(mine, yours) ==
  IF \/ Light(mine) /\ Heavy(yours)
     \/ Light(mine) /\ Light(yours) /\ Cost(mine) < Cost(yours)
     \/ Heavy(mine) /\ Heavy(yours) /\ Load(mine) < Load(yours)
  THEN sr_pe ELSE gd_pe

\* Up to two constraints sr_pe waits for what gd_pe sends, whether there is such a PE
\* or not; with more it wins.
Decide ==
  /\ stage = "decide"
  /\ \/ /\ ncon <= MAX_NCON_FOR_DIFFUSION
        /\ gd_pe \in PE
        /\ where' = part[who_wins(part[sr_pe], part[gd_pe])]
     \/ /\ ncon > MAX_NCON_FOR_DIFFUSION
        /\ where' = part[sr_pe]
  /\ stage' = "placed"
  /\ part' = <<>>
  /\ UNCHANGED <<way, size, ncon, home, sub, gwhere0, gwhere1>>

PlaceNext == Bisect \/ Label \/ Reduce \/ TakeBest \/ SendBest \/ Wavefront \/ McDiffusion \/ Decide

-----------------------------------------------------------------------------

\* When the labels are summed up (initpart.c:149), every group has given each part of
\* 0..nparts-1 to somebody, and every vertex has one label, of a part it was given to.
LabelledOnce ==
  stage = "elect" =>
    \A p \in DOMAIN gwhere1 :
      /\ Part = UNION {sub[q].fpart..(sub[q].fpart + sub[q].lnparts - 1) : q \in sub[p].group}
      /\ \A v \in Vertex : \E q \in sub[p].group :
           /\ v \in sub[q].label
           /\ gwhere1[p][v] \in sub[q].fpart..(sub[q].fpart + sub[q].lnparts - 1)

\* An election with a balanced candidate takes a balanced one with the least cut, in
\* InitPartition unless no balanced one has less than the largest cut
\* (initpart.c:174, initbalance.c:209); and when one coordinator has a partition below
\* 1.1 all PEs get one that is not above 1.1 (initbalance.c:333).
NoElectionLosesBalance ==
  [][/\ (stage = "elect" /\ stage' # "elect") =>
          LET all  == Range(gwhere1)
              cuts == {Cut(w) : w \in {x \in all : Balanced(x)}}
              win  == IF way = "init" THEN where' ELSE part'[sr_pe]
          IN (cuts # {} /\ (way = "balance" \/ Min(cuts) < Max({Cut(w) : w \in all}))) =>
               (Balanced(win) /\ Cut(win) = Min(cuts))
     /\ (stage = "decide" /\ stage' = "placed") =>
          ((\E q \in DOMAIN part : Light(part[q])) => ~Heavy(where'))
    ]_initvars
=============================================================================
