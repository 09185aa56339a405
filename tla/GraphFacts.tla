----------------------------- MODULE GraphFacts -----------------------------
(***************************************************************************)
(* Facts that the proofs about several components need:                    *)
(*   - about distributed graphs (module DistGraph) and the messages of     *)
(*     their interfaces (module PointToPoint);                             *)
(*   - about the sum of a function over a finite set, SumFunctionOnSet of  *)
(*     module Functions: weights of parts, degrees and cuts are such sums. *)
(*     It takes an element of the set after the other, whichever CHOOSE    *)
(*     gives; the facts say that the sum does not depend on the order;     *)
(*   - about folds over a list (FoldLeft of SequencesExt), the loops of    *)
(*     the code: such a fold is the last of the states that the loop goes  *)
(*     through.                                                            *)
(***************************************************************************)
EXTENDS PointToPoint, Functions, FiniteSetsExt, SequenceTheorems, FiniteSetTheorems,
        WellFoundedInduction, TLAPS

-----------------------------------------------------------------------------
(* The distributed graph.                                                  *)

LEMMA OwnIs == \A p \in PE : \A v : v \in Own(p) <=> v \in Vertex /\ Owner[v] = p
BY DEF Own, owned

LEMMA OwnerIn == \A v \in Vertex : Owner[v] \in PE /\ v \in Own(Owner[v])
BY OwnIs, OwnerAssumption

LEMMA SendIs ==
  \A p, q \in PE : \A v : v \in Send(q, p) <=> v \in Own(q) /\ p # q /\ \E u \in Own(p) : u \in Adj[v]
BY DEF Send, Recv, recvind

LEMMA NbrsAre == \A p, q \in PE : q \in Nbrs(p) <=> Send(q, p) # {}
BY DEF Nbrs, peind, Send

LEMMA NbrsBothWays == \A p, q \in PE : q \in Nbrs(p) <=> p \in Nbrs(q)
<1> SUFFICES ASSUME NEW p \in PE, NEW q \in PE, q \in Nbrs(p) PROVE p \in Nbrs(q)
  OBVIOUS
<1>1. PICK v : v \in Own(q) /\ p # q /\ \E u \in Own(p) : u \in Adj[v]
  BY NbrsAre, SendIs
<1>2. PICK u \in Own(p) : u \in Adj[v]
  BY <1>1
<1>3. v \in Adj[u]
  BY <1>1, <1>2, OwnIs, AdjAssumption
<1> QED BY <1>1, <1>2, <1>3, NbrsAre, SendIs

LEMMA NbrsIn == \A p \in PE : Nbrs(p) \subseteq PE
BY DEF Nbrs, peind

\* A ghost is one of the vertices that its owner sends.
LEMMA GhostsAre ==
  \A p \in PE : \A v : v \in Ghosts(p) <=> /\ v \in Vertex /\ Owner[v] # p
                                      /\ Owner[v] \in Nbrs(p) /\ v \in Send(Owner[v], p)
<1> SUFFICES ASSUME NEW p \in PE, NEW v
             PROVE  v \in Ghosts(p) <=> /\ v \in Vertex /\ Owner[v] # p
                                       /\ Owner[v] \in Nbrs(p) /\ v \in Send(Owner[v], p)
  OBVIOUS
<1>1. v \in Ghosts(p) <=> \E q \in PE : v \in Send(q, p)
  BY DEF Ghosts, ghosts, Send
<1>2. ASSUME NEW q \in PE, v \in Send(q, p)
      PROVE  v \in Vertex /\ Owner[v] = q /\ q # p /\ q \in Nbrs(p)
  BY <1>2, SendIs, OwnIs, NbrsAre
<1> QED BY <1>1, <1>2, OwnerIn

\* The ends of an edge know of each other.
LEMMA EdgeKnown ==
  ASSUME NEW v \in Vertex, NEW u \in Adj[v], Owner[u] # Owner[v]
  PROVE  /\ u \in Vertex /\ v \in Adj[u]
         /\ v \in Ghosts(Owner[u]) /\ u \in Ghosts(Owner[v])
         /\ Owner[u] \in Nbrs(Owner[v]) /\ Owner[v] \in Nbrs(Owner[u])
<1>1. u \in Vertex /\ v \in Adj[u]
  BY AdjAssumption
<1>2. v \in Send(Owner[v], Owner[u]) /\ u \in Send(Owner[u], Owner[v])
  BY <1>1, SendIs, OwnerIn
<1>3. Owner[u] \in Nbrs(Owner[v]) /\ Owner[v] \in Nbrs(Owner[u])
  BY <1>1, <1>2, NbrsAre, OwnerIn
<1> QED BY <1>1, <1>2, <1>3, GhostsAre, OwnerIn

LEMMA EdgesBothWays == \A v \in Vertex : \A u \in Adj[v] : u \in Vertex /\ v \in Adj[u]
BY AdjAssumption

-----------------------------------------------------------------------------
(* The messages.                                                           *)

LEMMA Queues ==
  \A a, b : /\ Append(<<>>, a) = <<a>> /\ Append(<<a>>, b) = <<a, b>>
            /\ Head(<<a>>) = a /\ Tail(<<a>>) = <<>> /\ <<a>> # <<>>
            /\ Head(<<a, b>>) = a /\ Tail(<<a, b>>) = <<b>> /\ <<a, b>> # <<>>
<1> SUFFICES ASSUME NEW a, NEW b
             PROVE  /\ Append(<<>>, a) = <<a>> /\ Append(<<a>>, b) = <<a, b>>
                    /\ Head(<<a>>) = a /\ Tail(<<a>>) = <<>> /\ <<a>> # <<>>
                    /\ Head(<<a, b>>) = a /\ Tail(<<a, b>>) = <<b>> /\ <<a, b>> # <<>>
  OBVIOUS
<1> DEFINE S == {a, b}
<1>1. <<>> \in Seq(S) /\ <<a>> \in Seq(S) /\ <<a, b>> \in Seq(S) /\ <<b>> \in Seq(S)
  OBVIOUS
<1>2. Append(<<>>, a) = <<a>>
  OBVIOUS
<1>3. Append(<<a>>, b) = <<a, b>>
  <2>1. /\ Append(<<a>>, b) \in Seq(S) /\ Len(Append(<<a>>, b)) = 2
        /\ Append(<<a>>, b)[1] = a /\ Append(<<a>>, b)[2] = b
    BY <1>1, AppendProperties
  <2>2. \A i \in 1..2 : Append(<<a>>, b)[i] = <<a, b>>[i]
    BY <2>1
  <2> QED BY <1>1, <2>1, <2>2, SeqEqual
<1>4. Head(<<a>>) = a /\ Head(<<a, b>>) = a /\ <<a>> # <<>> /\ <<a, b>> # <<>>
  OBVIOUS
<1>5. Tail(<<a>>) = <<>>
  <2>1. Tail(<<a>>) \in Seq(S) /\ Len(Tail(<<a>>)) = 0
    BY <1>1, <1>4, HeadTailProperties
  <2> QED BY <2>1, EmptySeq
<1>6. Tail(<<a, b>>) = <<b>>
  <2>1. Tail(<<a, b>>) \in Seq(S) /\ Len(Tail(<<a, b>>)) = 1 /\ Tail(<<a, b>>)[1] = b
    BY <1>1, <1>4, HeadTailProperties
  <2>2. \A i \in 1..1 : Tail(<<a, b>>)[i] = <<b>>[i]
    BY <2>1
  <2> QED BY <1>1, <2>1, <2>2, SeqEqual
<1> QED BY <1>2, <1>3, <1>4, <1>5, <1>6

LEMMA Posted ==
  ASSUME NEW ch, ch = [q \in PE |-> [p \in PE |-> ch[q][p]]], NEW p \in PE, NEW msgs
  PROVE  /\ Post(ch, p, msgs) = [q \in PE |-> [r \in PE |-> Post(ch, p, msgs)[q][r]]]
         /\ \A q, r \in PE : Post(ch, p, msgs)[q][r] =
              IF q = p /\ r \in DOMAIN msgs THEN Append(ch[q][r], msgs[r]) ELSE ch[q][r]
<1> DEFINE row == [r \in PE |-> IF r \in DOMAIN msgs THEN Append(ch[p][r], msgs[r]) ELSE ch[p][r]]
           new == Post(ch, p, msgs)
<1>1. DOMAIN ch = PE /\ \A q \in PE : ch[q] = [r \in PE |-> ch[q][r]]
  OBVIOUS
<1>2. new = [ch EXCEPT ![p] = row]
  BY DEF Post
<1> HIDE DEF row, new
<1>3. DOMAIN new = PE /\ new = [q \in PE |-> new[q]] /\ new[p] = row
      /\ \A q \in PE : q # p => new[q] = ch[q]
  BY <1>1, <1>2
<1>4. row = [r \in PE |-> row[r]]
      /\ \A r \in PE : row[r] = IF r \in DOMAIN msgs THEN Append(ch[p][r], msgs[r]) ELSE ch[p][r]
  BY DEF row
<1>5. \A q \in PE : new[q] = [r \in PE |-> new[q][r]]
  BY <1>1, <1>3, <1>4
<1>6. new = [q \in PE |-> [r \in PE |-> new[q][r]]]
  BY <1>3, <1>5
<1>7. \A q, r \in PE : new[q][r] =
        IF q = p /\ r \in DOMAIN msgs THEN Append(ch[q][r], msgs[r]) ELSE ch[q][r]
  <2>1. ASSUME NEW r \in PE
        PROVE  new[p][r] = IF r \in DOMAIN msgs THEN Append(ch[p][r], msgs[r]) ELSE ch[p][r]
    BY <1>3, <1>4
  <2>2. ASSUME NEW q \in PE, NEW r \in PE, q # p PROVE new[q][r] = ch[q][r]
    BY <1>3, <2>2
  <2> QED BY <2>1, <2>2
<1> QED BY <1>6, <1>7 DEF new

LEMMA Taken ==
  ASSUME NEW ch, ch = [q \in PE |-> [p \in PE |-> ch[q][p]]], NEW p \in PE, NEW From
  PROVE  /\ Take(ch, p, From) = [q \in PE |-> [r \in PE |-> Take(ch, p, From)[q][r]]]
         /\ \A q, r \in PE : Take(ch, p, From)[q][r] =
              IF q \in From /\ r = p THEN Tail(ch[q][r]) ELSE ch[q][r]
<1>1. \A q \in PE : ch[q] = [r \in PE |-> ch[q][r]]
  OBVIOUS
<1>2. \A q \in PE : DOMAIN ch[q] = PE
  BY <1>1
<1>3. \A q \in PE : Take(ch, p, From)[q] =
        IF q \in From THEN [ch[q] EXCEPT ![p] = Tail(@)] ELSE ch[q]
  BY DEF Take
<1>4. \A q \in PE : Take(ch, p, From)[q] = [r \in PE |-> Take(ch, p, From)[q][r]]
  BY <1>1, <1>2, <1>3
<1>5. Take(ch, p, From) = [q \in PE |-> Take(ch, p, From)[q]]
  BY DEF Take
<1> DEFINE new == Take(ch, p, From)
<1> HIDE DEF new
<1>6. new = [q \in PE |-> [r \in PE |-> new[q][r]]]
  BY <1>4, <1>5 DEF new
<1>7. \A q, r \in PE : new[q][r] = IF q \in From /\ r = p THEN Tail(ch[q][r]) ELSE ch[q][r]
  BY <1>1, <1>3 DEF new
<1> QED BY <1>6, <1>7 DEF new

-----------------------------------------------------------------------------
(* Induction over the subsets of a finite set.                             *)

\* Among the subsets of a finite set there is one with none of the others below it.
LEMMA MinimalSet ==
  ASSUME NEW S, IsFiniteSet(S), NEW T, T \subseteq SUBSET S, T # {}
  PROVE  \E X \in T : \A Y \in T : ~(Y \subseteq X /\ Y # X)
<1>1. IsWellFoundedOn(StrictSubsetOrdering(S), SUBSET S)
  BY FS_StrictSubsetOrderingWellFounded, FS_FiniteSubsetsOfFinite
<1>2. PICK X \in T : \A Y \in T : <<Y, X>> \notin StrictSubsetOrdering(S)
  BY <1>1, WFMin, Zenon
<1>3. \A Y \in T : ~(Y \subseteq X /\ Y # X)
  BY <1>2 DEF StrictSubsetOrdering
<1> QED BY <1>3, Zenon

\* What holds of a set when it holds of all its proper subsets.
LEMMA SubsetInduction ==
  ASSUME NEW S, IsFiniteSet(S), NEW G,
         \A T \in SUBSET S : (\A U \in SUBSET T : U # T => U \in G) => T \in G
  PROVE  \A T \in SUBSET S : T \in G
<1> SUFFICES ASSUME (SUBSET S) \ G # {} PROVE FALSE
  OBVIOUS
<1>1. PICK X \in (SUBSET S) \ G : \A Y \in (SUBSET S) \ G : ~(Y \subseteq X /\ Y # X)
  <2> DEFINE B == (SUBSET S) \ G
  <2>1. B \subseteq SUBSET S /\ B # {}
    OBVIOUS
  <2> HIDE DEF B
  <2>2. \E X \in B : \A Y \in B : ~(Y \subseteq X /\ Y # X)
    BY <2>1, MinimalSet
  <2> QED BY <2>2 DEF B
<1>2. \A U \in SUBSET X : U # X => U \in G
  BY <1>1
<1> QED BY <1>1, <1>2

\* What holds of the empty set and stays true when an element is added.
LEMMA FiniteInduction ==
  ASSUME NEW S, IsFiniteSet(S), NEW G, {} \in G,
         \A T \in SUBSET S : \A x \in S : T \in G /\ x \notin T => T \union {x} \in G
  PROVE  S \in G
<1>1. ASSUME NEW T \in SUBSET S, \A U \in SUBSET T : U # T => U \in G
      PROVE  T \in G
  <2>1. CASE T # {}
    <3>1. PICK x \in T : TRUE
      BY <2>1
    <3>2. T \ {x} \in G
      BY <1>1
    <3>3. (T \ {x}) \union {x} \in G
      BY <3>2
    <3> QED BY <3>3
  <2> QED BY <2>1
<1>2. \A T \in SUBSET S : (\A U \in SUBSET T : U # T => U \in G) => T \in G
  BY <1>1
<1>3. \A T \in SUBSET S : T \in G
  BY <1>2, SubsetInduction
<1> QED BY <1>3

-----------------------------------------------------------------------------
(* The function the sum is computed with.                                  *)

pick(s) == CHOOSE x \in s : TRUE
Partial(g, f, S) ==
  g = [s \in SUBSET S |-> IF s = {} THEN 0 ELSE f[pick(s)] + g[s \ {pick(s)}]]

LEMMA SumIs ==
  \A S, f : SumFunctionOnSet(f, S) = (CHOOSE g : Partial(g, f, S))[S]
BY DEF SumFunctionOnSet, FoldFunctionOnSet, MapThenFoldSet, Partial, pick

LEMMA PickIn == \A s : s # {} => pick(s) \in s /\ s \ {pick(s)} \in SUBSET s /\ s \ {pick(s)} # s
BY DEF pick

LEMMA PartialIs ==
  \A S, f, g : Partial(g, f, S) <=>
    /\ g = [s \in SUBSET S |-> g[s]]
    /\ \A s \in SUBSET S : g[s] = IF s = {} THEN 0 ELSE f[pick(s)] + g[s \ {pick(s)}]
BY DEF Partial

LEMMA PartialUnique ==
  ASSUME NEW S, IsFiniteSet(S), NEW f, NEW g, NEW h, Partial(g, f, S), Partial(h, f, S)
  PROVE  g = h
<1> DEFINE G == {T \in SUBSET S : g[T] = h[T]}
<1>1. ASSUME NEW T \in SUBSET S, \A U \in SUBSET T : U # T => U \in G
      PROVE  T \in G
  <2>1. g[T] = IF T = {} THEN 0 ELSE f[pick(T)] + g[T \ {pick(T)}]
    BY PartialIs
  <2>2. h[T] = IF T = {} THEN 0 ELSE f[pick(T)] + h[T \ {pick(T)}]
    BY PartialIs
  <2>3. T # {} => g[T \ {pick(T)}] = h[T \ {pick(T)}]
    BY <1>1, PickIn
  <2> QED BY <2>1, <2>2, <2>3
<1> HIDE DEF G
<1>2. \A T \in SUBSET S : T \in G
  <2>1. \A T \in SUBSET S : (\A U \in SUBSET T : U # T => U \in G) => T \in G
    BY <1>1
  <2> QED BY <2>1, SubsetInduction
<1>3. \A T \in SUBSET S : g[T] = h[T]
  BY <1>2 DEF G
<1>4. g = [s \in SUBSET S |-> g[s]] /\ h = [s \in SUBSET S |-> h[s]]
  BY PartialIs
<1> QED BY <1>3, <1>4

LEMMA PartialBelow ==
  ASSUME NEW S, NEW f, NEW g, Partial(g, f, S), NEW T \in SUBSET S
  PROVE  Partial([s \in SUBSET T |-> g[s]], f, T)
<1> DEFINE h == [s \in SUBSET T |-> g[s]]
<1>1. \A s \in SUBSET T : h[s] = g[s] /\ s \in SUBSET S
  OBVIOUS
<1>2. h = [s \in SUBSET T |-> h[s]]
  OBVIOUS
<1> HIDE DEF h
<1>3. ASSUME NEW s \in SUBSET T
      PROVE  h[s] = IF s = {} THEN 0 ELSE f[pick(s)] + h[s \ {pick(s)}]
  <2>1. g[s] = IF s = {} THEN 0 ELSE f[pick(s)] + g[s \ {pick(s)}]
    BY <1>1, PartialIs
  <2>2. s # {} => s \ {pick(s)} \in SUBSET T
    BY PickIn
  <2> QED BY <1>1, <2>1, <2>2
<1>4. Partial(h, f, T)
  BY <1>2, <1>3, PartialIs
<1> QED BY <1>4 DEF h

LEMMA PartialExists ==
  ASSUME NEW S, IsFiniteSet(S), NEW f
  PROVE  \E g : Partial(g, f, S)
<1> DEFINE G == {T \in SUBSET S : \E g : Partial(g, f, T)}
           of(T) == CHOOSE g : Partial(g, f, T)
<1>1. ASSUME NEW T \in SUBSET S, \A U \in SUBSET T : U # T => U \in G
      PROVE  T \in G
  <2> DEFINE low(s) == of(s)[s]
             g == [s \in SUBSET T |->
                     IF s # T THEN low(s)
                     ELSE IF T = {} THEN 0 ELSE f[pick(T)] + low(T \ {pick(T)})]
  <2>1. \A U \in SUBSET T : U # T => Partial(of(U), f, U)
    BY <1>1
  <2>2. \A s \in SUBSET T : IsFiniteSet(s)
    BY FS_Subset
  <2>3. g = [s \in SUBSET T |-> g[s]]
    OBVIOUS
  <2>4. ASSUME NEW s \in SUBSET T
        PROVE  g[s] = IF s = {} THEN 0 ELSE f[pick(s)] + g[s \ {pick(s)}]
    <3> HIDE DEF of
    <3>1. CASE s = T
      BY <3>1, PickIn
    <3>2. CASE s # T /\ s = {}
      <4>1. Partial(of(s), f, s)
        BY <2>1, <3>2
      <4>2. of(s)[s] = 0
        BY <3>2, <4>1, PartialIs
      <4> QED BY <3>2, <4>2
    <3>3. CASE s # T /\ s # {}
      <4> DEFINE u == s \ {pick(s)}
      <4>1. u \in SUBSET s /\ u \in SUBSET T /\ u # T
        BY <3>3, PickIn
      <4> HIDE DEF u
      <4>2. Partial(of(s), f, s) /\ Partial(of(u), f, u) /\ IsFiniteSet(u)
        BY <2>1, <2>2, <3>3, <4>1
      <4>3. of(s)[s] = f[pick(s)] + of(s)[u]
        BY <3>3, <4>2, PartialIs DEF u
      <4>4. Partial([x \in SUBSET u |-> of(s)[x]], f, u)
        BY <4>1, <4>2, PartialBelow
      <4>5. of(u) = [x \in SUBSET u |-> of(s)[x]]
        BY <4>2, <4>4, PartialUnique
      <4>6. of(u)[u] = of(s)[u]
        BY <4>5
      <4>7. g[s] = of(s)[s] /\ g[u] = of(u)[u]
        BY <3>3, <4>1
      <4> HIDE DEF g
      <4> QED BY <3>3, <4>3, <4>6, <4>7 DEF u
    <3> QED BY <3>1, <3>2, <3>3
  <2> HIDE DEF g
  <2>5. Partial(g, f, T)
    BY <2>3, <2>4, PartialIs
  <2> QED BY <2>5
<1> HIDE DEF G
<1>2. \A T \in SUBSET S : T \in G
  <2>1. \A T \in SUBSET S : (\A U \in SUBSET T : U # T => U \in G) => T \in G
    BY <1>1
  <2> QED BY <2>1, SubsetInduction
<1> QED BY <1>2 DEF G

-----------------------------------------------------------------------------
(* Sums.                                                                   *)

LEMMA SumUnfolds ==
  ASSUME NEW S, IsFiniteSet(S), NEW f
  PROVE  SumFunctionOnSet(f, S) =
           IF S = {} THEN 0 ELSE f[pick(S)] + SumFunctionOnSet(f, S \ {pick(S)})
<1> DEFINE g == CHOOSE h : Partial(h, f, S)
           T == S \ {pick(S)}
           k == CHOOSE h : Partial(h, f, T)
<1>1. Partial(g, f, S) /\ SumFunctionOnSet(f, S) = g[S]
  BY PartialExists, SumIs
<1> HIDE DEF g
<1>2. g[S] = IF S = {} THEN 0 ELSE f[pick(S)] + g[T]
  BY <1>1, PartialIs
<1>3. ASSUME S # {} PROVE SumFunctionOnSet(f, T) = g[T]
  <2>1. T \in SUBSET S /\ IsFiniteSet(T)
    BY FS_Subset
  <2>2. Partial(k, f, T) /\ SumFunctionOnSet(f, T) = k[T]
    BY <2>1, PartialExists, SumIs
  <2> HIDE DEF k, T
  <2>3. Partial([s \in SUBSET T |-> g[s]], f, T)
    BY <1>1, <2>1, PartialBelow
  <2>4. k = [s \in SUBSET T |-> g[s]]
    BY <2>1, <2>2, <2>3, PartialUnique
  <2> QED BY <2>2, <2>4
<1> QED BY <1>1, <1>2, <1>3

\* The sum over nothing.
LEMMA SumEmpty == \A f : SumFunctionOnSet(f, {}) = 0
BY SumUnfolds, FS_EmptySet

\* Sums of integers and of numbers that are not negative.
LEMMA SumType ==
  ASSUME NEW S, IsFiniteSet(S), NEW f, \A x \in S : f[x] \in Int
  PROVE  SumFunctionOnSet(f, S) \in Int
<1> DEFINE G == {T \in SUBSET S : SumFunctionOnSet(f, T) \in Int}
<1>1. ASSUME NEW T \in SUBSET S, \A U \in SUBSET T : U # T => U \in G
      PROVE  T \in G
  <2>1. IsFiniteSet(T)
    BY FS_Subset
  <2>2. SumFunctionOnSet(f, T) =
          IF T = {} THEN 0 ELSE f[pick(T)] + SumFunctionOnSet(f, T \ {pick(T)})
    BY <2>1, SumUnfolds
  <2>3. T # {} => SumFunctionOnSet(f, T \ {pick(T)}) \in Int /\ f[pick(T)] \in Int
    BY <1>1, PickIn
  <2> QED BY <2>2, <2>3
<1> HIDE DEF G
<1>2. \A T \in SUBSET S : T \in G
  <2>1. \A T \in SUBSET S : (\A U \in SUBSET T : U # T => U \in G) => T \in G
    BY <1>1
  <2> QED BY <2>1, SubsetInduction
<1> QED BY <1>2 DEF G

\* Any element may be taken first.
LEMMA SumTakes ==
  ASSUME NEW S, IsFiniteSet(S), NEW f, \A x \in S : f[x] \in Int
  PROVE  \A y \in S : SumFunctionOnSet(f, S) = f[y] + SumFunctionOnSet(f, S \ {y})
<1> DEFINE F(T) == SumFunctionOnSet(f, T)
<1> HIDE DEF F
<1> DEFINE G == {T \in SUBSET S : \A y \in T : F(T) = f[y] + F(T \ {y})}
<1>1. ASSUME NEW T \in SUBSET S, \A U \in SUBSET T : U # T => U \in G
      PROVE  T \in G
  <2> SUFFICES ASSUME NEW y \in T PROVE F(T) = f[y] + F(T \ {y})
    OBVIOUS
  <2> DEFINE p == pick(T)
  <2>1. IsFiniteSet(T)
    BY FS_Subset
  <2>2. p \in T /\ F(T) = f[p] + F(T \ {p})
    BY <2>1, SumUnfolds, PickIn DEF F
  <2> HIDE DEF p
  <2>3. CASE y # p
    <3>1. F(T \ {p}) = f[y] + F((T \ {p}) \ {y})
      <4>1. T \ {p} \in SUBSET T /\ T \ {p} # T /\ y \in T \ {p}
        BY <2>2, <2>3
      <4> QED BY <1>1, <4>1
    <3>2. F(T \ {y}) = f[p] + F((T \ {y}) \ {p})
      <4>1. T \ {y} \in SUBSET T /\ T \ {y} # T /\ p \in T \ {y}
        BY <2>2, <2>3
      <4> QED BY <1>1, <4>1
    <3>3. (T \ {p}) \ {y} = (T \ {y}) \ {p}
      OBVIOUS
    <3>4. F((T \ {y}) \ {p}) \in Int
      <4>1. IsFiniteSet((T \ {y}) \ {p})
        BY <2>1, FS_Subset
      <4> QED BY <4>1, SumType DEF F
    <3>5. f[p] \in Int /\ f[y] \in Int
      BY <2>2
    <3> DEFINE rest == F((T \ {y}) \ {p})
    <3>6. /\ F(T) = f[p] + F(T \ {p}) /\ F(T \ {p}) = f[y] + rest
          /\ F(T \ {y}) = f[p] + rest /\ rest \in Int
      BY <2>2, <3>1, <3>2, <3>3, <3>4
    <3> HIDE DEF rest
    <3> QED BY <3>5, <3>6
  <2> QED BY <2>2, <2>3
<1> HIDE DEF G
<1>2. \A T \in SUBSET S : T \in G
  <2>1. \A T \in SUBSET S : (\A U \in SUBSET T : U # T => U \in G) => T \in G
    BY <1>1
  <2> QED BY <2>1, SubsetInduction
<1> QED BY <1>2 DEF G, F

\* One element more.
LEMMA SumAdd ==
  ASSUME NEW S, IsFiniteSet(S), NEW x, x \notin S, NEW f, \A y \in S \union {x} : f[y] \in Int
  PROVE  SumFunctionOnSet(f, S \union {x}) = f[x] + SumFunctionOnSet(f, S)
<1>1. IsFiniteSet(S \union {x})
  BY FS_AddElement
<1>2. SumFunctionOnSet(f, S \union {x}) = f[x] + SumFunctionOnSet(f, (S \union {x}) \ {x})
  BY <1>1, SumTakes
<1>3. (S \union {x}) \ {x} = S
  OBVIOUS
<1> QED BY <1>2, <1>3

\* A sum depends on the values that are summed up only.
LEMMA SumSame ==
  ASSUME NEW S, IsFiniteSet(S), NEW f, NEW g, \A x \in S : f[x] = g[x]
  PROVE  SumFunctionOnSet(f, S) = SumFunctionOnSet(g, S)
<1> DEFINE G == {T \in SUBSET S : SumFunctionOnSet(f, T) = SumFunctionOnSet(g, T)}
<1>1. ASSUME NEW T \in SUBSET S, \A U \in SUBSET T : U # T => U \in G
      PROVE  T \in G
  <2>1. /\ SumFunctionOnSet(f, T) =
             IF T = {} THEN 0 ELSE f[pick(T)] + SumFunctionOnSet(f, T \ {pick(T)})
        /\ SumFunctionOnSet(g, T) =
             IF T = {} THEN 0 ELSE g[pick(T)] + SumFunctionOnSet(g, T \ {pick(T)})
    BY FS_Subset, SumUnfolds
  <2>2. T # {} => /\ SumFunctionOnSet(f, T \ {pick(T)}) = SumFunctionOnSet(g, T \ {pick(T)})
                  /\ f[pick(T)] = g[pick(T)]
    BY <1>1, PickIn
  <2> QED BY <2>1, <2>2
<1> HIDE DEF G
<1>2. \A T \in SUBSET S : T \in G
  <2>1. \A T \in SUBSET S : (\A U \in SUBSET T : U # T => U \in G) => T \in G
    BY <1>1
  <2> QED BY <2>1, SubsetInduction
<1> QED BY <1>2 DEF G

\* Smaller values have the smaller sum.
LEMMA SumMonotone ==
  ASSUME NEW S, IsFiniteSet(S), NEW f, NEW g,
         \A x \in S : f[x] \in Int /\ g[x] \in Int /\ f[x] <= g[x]
  PROVE  SumFunctionOnSet(f, S) <= SumFunctionOnSet(g, S)
<1> DEFINE G == {T \in SUBSET S : SumFunctionOnSet(f, T) <= SumFunctionOnSet(g, T)}
<1>1. {} \in G
  BY SumEmpty
<1>2. ASSUME NEW T \in SUBSET S, NEW x \in S, T \in G, x \notin T PROVE T \union {x} \in G
  <2>1. IsFiniteSet(T)
    BY FS_Subset
  <2>2. /\ SumFunctionOnSet(f, T \union {x}) = f[x] + SumFunctionOnSet(f, T)
        /\ SumFunctionOnSet(g, T \union {x}) = g[x] + SumFunctionOnSet(g, T)
    BY <1>2, <2>1, SumAdd
  <2>3. SumFunctionOnSet(f, T) \in Int /\ SumFunctionOnSet(g, T) \in Int
    BY <2>1, SumType
  <2>4. SumFunctionOnSet(f, T) <= SumFunctionOnSet(g, T)
    BY <1>2
  <2> DEFINE a == SumFunctionOnSet(f, T)
             b == SumFunctionOnSet(g, T)
  <2>5. f[x] + a <= g[x] + b
    <3>1. a \in Int /\ b \in Int /\ a <= b /\ f[x] \in Int /\ g[x] \in Int /\ f[x] <= g[x]
      BY <2>3, <2>4
    <3> HIDE DEF a, b
    <3> QED BY <3>1
  <2> QED BY <2>2, <2>5
<1> HIDE DEF G
<1>3. S \in G
  BY <1>1, <1>2, FiniteInduction
<1> QED BY <1>3 DEF G

\* Numbers that are not negative.
LEMMA SumNat ==
  ASSUME NEW S, IsFiniteSet(S), NEW f, \A x \in S : f[x] \in Nat
  PROVE  SumFunctionOnSet(f, S) \in Nat
<1> DEFINE G == {T \in SUBSET S : SumFunctionOnSet(f, T) \in Nat}
<1>1. {} \in G
  BY SumEmpty
<1>2. ASSUME NEW T \in SUBSET S, NEW x \in S, T \in G, x \notin T PROVE T \union {x} \in G
  <2>1. IsFiniteSet(T) /\ \A y \in T \union {x} : f[y] \in Int
    BY FS_Subset
  <2>2. SumFunctionOnSet(f, T \union {x}) = f[x] + SumFunctionOnSet(f, T)
    BY <1>2, <2>1, SumAdd
  <2> QED BY <1>2, <2>2
<1> HIDE DEF G
<1>3. S \in G
  BY <1>1, <1>2, FiniteInduction
<1> QED BY <1>3 DEF G

\* The sum of two functions.
LEMMA SumPlus ==
  ASSUME NEW S, IsFiniteSet(S), NEW f, NEW g, NEW h,
         \A x \in S : f[x] \in Int /\ g[x] \in Int /\ h[x] = f[x] + g[x]
  PROVE  SumFunctionOnSet(h, S) = SumFunctionOnSet(f, S) + SumFunctionOnSet(g, S)
<1> DEFINE G == {T \in SUBSET S : SumFunctionOnSet(h, T) =
                                    SumFunctionOnSet(f, T) + SumFunctionOnSet(g, T)}
<1>1. {} \in G
  BY SumEmpty
<1>2. ASSUME NEW T \in SUBSET S, NEW x \in S, T \in G, x \notin T PROVE T \union {x} \in G
  <2>1. /\ IsFiniteSet(T)
        /\ \A y \in T \union {x} : f[y] \in Int /\ g[y] \in Int /\ h[y] \in Int
    BY FS_Subset
  <2>2. /\ SumFunctionOnSet(f, T \union {x}) = f[x] + SumFunctionOnSet(f, T)
        /\ SumFunctionOnSet(g, T \union {x}) = g[x] + SumFunctionOnSet(g, T)
        /\ SumFunctionOnSet(h, T \union {x}) = h[x] + SumFunctionOnSet(h, T)
    BY <1>2, <2>1, SumAdd
  <2>3. SumFunctionOnSet(f, T) \in Int /\ SumFunctionOnSet(g, T) \in Int
    BY <2>1, SumType
  <2> DEFINE a == SumFunctionOnSet(f, T)
             b == SumFunctionOnSet(g, T)
             s == SumFunctionOnSet(h, T)
  <2>5. h[x] + s = (f[x] + a) + (g[x] + b)
    <3>1. a \in Int /\ b \in Int /\ s = a + b /\ f[x] \in Int /\ g[x] \in Int /\ h[x] = f[x] + g[x]
      BY <1>2, <2>3
    <3> HIDE DEF a, b, s
    <3> QED BY <3>1
  <2> QED BY <2>2, <2>5
<1> HIDE DEF G
<1>3. S \in G
  BY <1>1, <1>2, FiniteInduction
<1> QED BY <1>3 DEF G

\* The sum over two sets that have nothing in common.
LEMMA SumUnion ==
  ASSUME NEW S, IsFiniteSet(S), NEW R, IsFiniteSet(R), R \intersect S = {}, NEW f,
         \A x \in R \union S : f[x] \in Int
  PROVE  SumFunctionOnSet(f, R \union S) = SumFunctionOnSet(f, R) + SumFunctionOnSet(f, S)
<1> DEFINE G == {T \in SUBSET S : SumFunctionOnSet(f, R \union T) =
                                    SumFunctionOnSet(f, R) + SumFunctionOnSet(f, T)}
<1>0. SumFunctionOnSet(f, R) \in Int
  BY SumType
<1>1. {} \in G
  <2>1. R \union {} = R
    OBVIOUS
  <2> QED BY <1>0, <2>1, SumEmpty
<1>2. ASSUME NEW T \in SUBSET S, NEW x \in S, T \in G, x \notin T PROVE T \union {x} \in G
  <2>1. IsFiniteSet(T) /\ IsFiniteSet(R \union T) /\ x \notin R \union T
    <3>1. IsFiniteSet(T)
      BY FS_Subset
    <3>2. IsFiniteSet(R \union T)
      BY <3>1, FS_Union
    <3> QED BY <1>2, <3>1, <3>2
  <2>2. /\ SumFunctionOnSet(f, T \union {x}) = f[x] + SumFunctionOnSet(f, T)
        /\ SumFunctionOnSet(f, (R \union T) \union {x}) = f[x] + SumFunctionOnSet(f, R \union T)
    BY <1>2, <2>1, SumAdd
  <2>3. SumFunctionOnSet(f, T) \in Int /\ f[x] \in Int
    BY <2>1, SumType
  <2>4. (R \union T) \union {x} = R \union (T \union {x})
    OBVIOUS
  <2> DEFINE a == SumFunctionOnSet(f, R)
             b == SumFunctionOnSet(f, T)
             s == SumFunctionOnSet(f, R \union T)
  <2>5. f[x] + s = a + (f[x] + b)
    <3>1. a \in Int /\ b \in Int /\ s = a + b /\ f[x] \in Int
      BY <1>0, <1>2, <2>3
    <3> HIDE DEF a, b, s
    <3> QED BY <3>1
  <2> QED BY <2>2, <2>4, <2>5
<1> HIDE DEF G
<1>3. S \in G
  BY <1>1, <1>2, FiniteInduction
<1> QED BY <1>3 DEF G

\* The sum over what an index set divides into parts: each part has its sum.
LEMMA SumOfParts ==
  ASSUME NEW I, IsFiniteSet(I), NEW part, NEW sum, NEW f,
         \A i \in I : /\ IsFiniteSet(part[i])
                      /\ \A x \in part[i] : f[x] \in Int
                      /\ sum[i] = SumFunctionOnSet(f, part[i]),
         \A i, j \in I : i # j => part[i] \intersect part[j] = {}
  PROVE  SumFunctionOnSet(f, UNION {part[i] : i \in I}) = SumFunctionOnSet(sum, I)
<1> DEFINE all(J) == UNION {part[i] : i \in J}
           G == {J \in SUBSET I : IsFiniteSet(all(J)) /\
                                  SumFunctionOnSet(f, all(J)) = SumFunctionOnSet(sum, J)}
<1>1. {} \in G
  <2>1. all({}) = {}
    OBVIOUS
  <2> QED BY <2>1, SumEmpty, FS_EmptySet
<1>2. ASSUME NEW J \in SUBSET I, NEW i \in I, J \in G, i \notin J PROVE J \union {i} \in G
  <2>1. IsFiniteSet(J)
    BY FS_Subset
  <2>2. all(J \union {i}) = all(J) \union part[i]
    OBVIOUS
  <2>3. all(J) \intersect part[i] = {}
    BY <1>2
  <2>4. \A x \in all(J) \union part[i] : f[x] \in Int
    OBVIOUS
  <2>5. IsFiniteSet(all(J)) /\ SumFunctionOnSet(f, all(J)) = SumFunctionOnSet(sum, J)
    BY <1>2
  <2> HIDE DEF all
  <2>6. IsFiniteSet(all(J) \union part[i])
    BY <2>5, FS_Union
  <2>7. SumFunctionOnSet(f, all(J) \union part[i]) =
          SumFunctionOnSet(f, all(J)) + SumFunctionOnSet(f, part[i])
    BY <2>3, <2>4, <2>5, SumUnion
  <2>8. \A k \in J \union {i} : sum[k] \in Int
    BY SumType
  <2>9. SumFunctionOnSet(sum, J \union {i}) = sum[i] + SumFunctionOnSet(sum, J)
    BY <1>2, <2>1, <2>8, SumAdd
  <2>10. sum[i] \in Int /\ SumFunctionOnSet(sum, J) \in Int
    BY <2>1, <2>8, SumType
  <2> DEFINE a == SumFunctionOnSet(sum, J)
  <2>11. SumFunctionOnSet(f, all(J) \union part[i]) = a + sum[i]
         /\ SumFunctionOnSet(sum, J \union {i}) = sum[i] + a
    BY <2>5, <2>7, <2>9
  <2>12. a + sum[i] = sum[i] + a
    <3>1. a \in Int /\ sum[i] \in Int
      BY <2>10
    <3> HIDE DEF a
    <3> QED BY <3>1
  <2> QED BY <2>2, <2>6, <2>11, <2>12
<1> HIDE DEF G
<1>3. I \in G
  BY <1>1, <1>2, FiniteInduction
<1> QED BY <1>3 DEF G

\* Only one of the values is not zero.
LEMMA SumOfOne ==
  ASSUME NEW S, IsFiniteSet(S), NEW f, NEW x \in S, f[x] \in Int,
         \A y \in S : y # x => f[y] = 0
  PROVE  SumFunctionOnSet(f, S) = f[x]
<1> DEFINE R == S \ {x}
           G == {T \in SUBSET R : SumFunctionOnSet(f, T) = 0}
<1>1. IsFiniteSet(R) /\ \A y \in R : f[y] = 0
  BY FS_Subset
<1>2. {} \in G
  BY SumEmpty
<1>3. ASSUME NEW T \in SUBSET R, NEW y \in R, T \in G, y \notin T PROVE T \union {y} \in G
  <2>1. IsFiniteSet(T) /\ \A z \in T \union {y} : f[z] \in Int
    BY <1>1, FS_Subset
  <2>2. SumFunctionOnSet(f, T \union {y}) = f[y] + SumFunctionOnSet(f, T)
    BY <1>3, <2>1, SumAdd
  <2> QED BY <1>1, <1>3, <2>2
<1>4. SumFunctionOnSet(f, R) = 0
  <2> HIDE DEF G, R
  <2>1. R \in G
    BY <1>1, <1>2, <1>3, FiniteInduction
  <2> QED BY <2>1 DEF G
<1>5. SumFunctionOnSet(f, S) = f[x] + SumFunctionOnSet(f, S \ {x})
  BY SumTakes
<1> QED BY <1>4, <1>5

\* Nothing is summed up.
LEMMA SumOfZeros ==
  ASSUME NEW S, IsFiniteSet(S), NEW f, \A x \in S : f[x] = 0
  PROVE  SumFunctionOnSet(f, S) = 0
<1>1. SumFunctionOnSet(f, S) = SumFunctionOnSet(f, S) + SumFunctionOnSet(f, S)
  BY SumPlus
<1>2. SumFunctionOnSet(f, S) \in Int
  BY SumType
<1> DEFINE s == SumFunctionOnSet(f, S)
<1>3. s = s + s /\ s \in Int
  BY <1>1, <1>2
<1> HIDE DEF s
<1>4. s = 0
  BY <1>3
<1> QED BY <1>4 DEF s

\* The sum over a set whose elements have other names.
LEMMA SumRenamed ==
  ASSUME NEW S, IsFiniteSet(S), NEW h, NEW f, NEW g,
         \A x \in S : f[x] = g[h[x]] /\ f[x] \in Int,
         \A x, y \in S : h[x] = h[y] => x = y
  PROVE  SumFunctionOnSet(g, {h[x] : x \in S}) = SumFunctionOnSet(f, S)
<1> DEFINE img(T) == {h[x] : x \in T}
           G == {T \in SUBSET S : /\ IsFiniteSet(img(T))
                                  /\ SumFunctionOnSet(g, img(T)) = SumFunctionOnSet(f, T)}
<1>1. {} \in G
  <2>1. img({}) = {}
    OBVIOUS
  <2> QED BY <2>1, SumEmpty, FS_EmptySet
<1>2. ASSUME NEW T \in SUBSET S, NEW x \in S, T \in G, x \notin T PROVE T \union {x} \in G
  <2>1. IsFiniteSet(T) /\ \A y \in T \union {x} : f[y] \in Int
    BY FS_Subset
  <2>2. img(T \union {x}) = img(T) \union {h[x]} /\ h[x] \notin img(T)
    BY <1>2
  <2>3. \A z \in img(T) \union {h[x]} : g[z] \in Int
    OBVIOUS
  <2>4. IsFiniteSet(img(T)) /\ SumFunctionOnSet(g, img(T)) = SumFunctionOnSet(f, T)
    BY <1>2
  <2> HIDE DEF img
  <2>5. SumFunctionOnSet(g, img(T) \union {h[x]}) = g[h[x]] + SumFunctionOnSet(g, img(T))
    BY <2>2, <2>3, <2>4, SumAdd
  <2>6. SumFunctionOnSet(f, T \union {x}) = f[x] + SumFunctionOnSet(f, T)
    BY <1>2, <2>1, SumAdd
  <2>7. IsFiniteSet(img(T) \union {h[x]})
    BY <2>4, FS_AddElement
  <2> QED BY <2>2, <2>4, <2>5, <2>6, <2>7
<1> HIDE DEF G
<1>3. S \in G
  BY <1>1, <1>2, FiniteInduction
<1> QED BY <1>3 DEF G

-----------------------------------------------------------------------------
(* Folds over lists: FoldLeft of module SequencesExt takes the elements by *)
(* the sets of indices that are left, the last one first.                  *)

\* Induction over the indices of a list.
LEMMA IndexInduction ==
  ASSUME NEW n \in Nat, NEW G, 0 \in G, \A i \in 1..n : i - 1 \in G => i \in G
  PROVE  \A i \in 0..n : i \in G
<1> DEFINE B == {i \in 0..n : i \notin G}
           Below(i) == {k \in 1..n : k <= i}
           T == {Below(i) : i \in B}
<1> SUFFICES ASSUME B # {} PROVE FALSE
  OBVIOUS
<1>1. PICK X \in T : \A Y \in T : ~(Y \subseteq X /\ Y # X)
  <2> DEFINE R == 1..n
  <2>1. T \subseteq SUBSET R /\ T # {}
    OBVIOUS
  <2>2. IsFiniteSet(R)
    BY FS_Interval
  <2> HIDE DEF T, R
  <2> QED BY <2>1, <2>2, MinimalSet
<1>2. PICK i \in B : X = Below(i)
  OBVIOUS
<1>3. i \in 1..n /\ i - 1 \in B
  OBVIOUS
<1>4. Below(i - 1) \subseteq Below(i) /\ i \in Below(i) /\ i \notin Below(i - 1)
  BY <1>3
<1>5. Below(i - 1) \in T
  BY <1>3
<1> HIDE DEF T, Below
<1> QED BY <1>1, <1>2, <1>4, <1>5

\* A set of indices has a last one.
LEMMA LastIndex ==
  ASSUME NEW n \in Nat, NEW S \in SUBSET (1..n), S # {}
  PROVE  Max(S) \in S /\ \A i \in S : i <= Max(S)
<1> DEFINE Above(i) == {k \in 1..n : k > i}
           T == {Above(i) : i \in S}
<1>1. PICK X \in T : \A Y \in T : ~(Y \subseteq X /\ Y # X)
  <2>1. T \subseteq SUBSET (1..n) /\ T # {}
    OBVIOUS
  <2> DEFINE R == 1..n
  <2>2. IsFiniteSet(R)
    BY FS_Interval
  <2>3. T \subseteq SUBSET R /\ T # {}
    BY <2>1
  <2> HIDE DEF T, R
  <2>4. \E X \in T : \A Y \in T : ~(Y \subseteq X /\ Y # X)
    BY <2>2, <2>3, MinimalSet
  <2> QED BY <2>4
<1>2. PICK i \in S : X = Above(i)
  OBVIOUS
<1>3. ASSUME NEW k \in S, k > i PROVE FALSE
  <2>1. \A j \in Above(k) : j \in Above(i)
    BY <1>3
  <2>2. k \in Above(i) /\ k \notin Above(k)
    BY <1>3
  <2>3. Above(k) \in T
    OBVIOUS
  <2> HIDE DEF Above, T
  <2> QED BY <2>1, <2>2, <2>3, <1>1, <1>2
<1>4. \A k \in S : i >= k
  BY <1>3
<1>5. Max(S) \in S /\ \A k \in S : Max(S) >= k
  BY <1>4 DEF Max
<1>6. \A k \in S : k \in Int
  OBVIOUS
<1> QED BY <1>5, <1>6

LEMMA LastOfInterval ==
  ASSUME NEW n \in Nat, NEW i \in 1..n
  PROVE  /\ Max(1..i) = i /\ (1..i) \ {i} = 1..(i - 1)
         /\ 1..i \in SUBSET (1..n) /\ 1..(i - 1) \in SUBSET (1..n)
<1>1. 1..i \in SUBSET (1..n) /\ i \in 1..i
  OBVIOUS
<1>2. Max(1..i) \in 1..i /\ i <= Max(1..i)
  BY <1>1, LastIndex
<1>3. Max(1..i) = i
  BY <1>2
<1>4. (1..i) \ {i} = 1..(i - 1) /\ 1..(i - 1) \in SUBSET (1..n)
  OBVIOUS
<1> QED BY <1>1, <1>3, <1>4

\* A fold over n elements, step i taking a state d to next[i][d].
Folding(g, n, base, next) ==
  \A s \in SUBSET (1..n) : g[s] = IF s = {} THEN base ELSE next[Max(s)][g[s \ {Max(s)}]]

\* E[s] is kept by the steps: the states after the steps of s are in E[s].
StepsInto(E, n, D, next) ==
  \A s \in SUBSET (1..n) :
    /\ E[s] \subseteq D
    /\ s # {} => \A d \in E[s \ {Max(s)}] : next[Max(s)][d] \in E[s]

\* Such a fold exists.
LEMMA FoldExists ==
  ASSUME NEW n \in Nat, NEW D, NEW base, NEW next, NEW E, base \in E[{}], StepsInto(E, n, D, next)
  PROVE  \E g \in [SUBSET (1..n) -> D] :
           Folding(g, n, base, next) /\ \A s \in SUBSET (1..n) : g[s] \in E[s]
<1> DEFINE Within(g, k) == /\ g \in [SUBSET (1..k) -> D] /\ Folding(g, k, base, next)
                           /\ \A s \in SUBSET (1..k) : g[s] \in E[s]
           G == {k \in 0..n : \E g : Within(g, k)}
<1>1. 0 \in G
  <2> DEFINE g == [s \in SUBSET (1..0) |-> base]
  <2>1. \A s \in SUBSET (1..0) : s = {} /\ s \in SUBSET (1..n)
    OBVIOUS
  <2>2. Within(g, 0)
    BY <2>1 DEF Folding, StepsInto
  <2>3. 0 \in 0..n
    OBVIOUS
  <2> HIDE DEF g, Within
  <2> QED BY <2>2, <2>3
<1>2. ASSUME NEW k \in 1..n, k - 1 \in G
      PROVE  k \in G
  <2>1. PICK h : Within(h, k - 1)
    BY <1>2
  <2> DEFINE g == [s \in SUBSET (1..k) |-> IF k \in s THEN next[k][h[s \ {k}]] ELSE h[s]]
  <2>2. \A s \in SUBSET (1..k) : /\ s \in SUBSET (1..n) /\ s \ {k} \in SUBSET (1..(k - 1))
                                 /\ (k \notin s => s \in SUBSET (1..(k - 1)))
    OBVIOUS
  <2>3. ASSUME NEW s \in SUBSET (1..k), k \in s
        PROVE  s # {} /\ Max(s) = k
    <3>1. k \in Nat /\ s # {}
      BY <2>3
    <3>2. Max(s) \in s /\ k <= Max(s)
      BY <2>3, <3>1, LastIndex
    <3>3. Max(s) \in 1..k
      BY <3>2
    <3> HIDE DEF g
    <3> QED BY <3>1, <3>2, <3>3
  <2>4. \A s \in SUBSET (1..k) : g[s] \in E[s]
    <3> SUFFICES ASSUME NEW s \in SUBSET (1..k) PROVE g[s] \in E[s]
      OBVIOUS
    <3>1. CASE k \in s
      <4>1. h[s \ {k}] \in E[s \ {k}]
        BY <2>1, <2>2
      <4>2. next[k][h[s \ {k}]] \in E[s]
        BY <2>2, <2>3, <3>1, <4>1 DEF StepsInto
      <4> QED BY <3>1, <4>2
    <3>2. CASE k \notin s
      BY <2>1, <2>2, <3>2
    <3> QED BY <3>1, <3>2
  <2>5. g \in [SUBSET (1..k) -> D]
    <3>1. \A s \in SUBSET (1..k) : g[s] \in D
      BY <2>2, <2>4 DEF StepsInto
    <3> QED BY <3>1
  <2>6. ASSUME NEW s \in SUBSET (1..k)
        PROVE  g[s] = IF s = {} THEN base ELSE next[Max(s)][g[s \ {Max(s)}]]
    <3>1. CASE k \in s
      <4>1. g[s] = next[k][h[s \ {k}]]
        BY <3>1
      <4>2. g[s \ {k}] = h[s \ {k}]
        OBVIOUS
      <4> HIDE DEF g
      <4> QED BY <2>3, <3>1, <4>1, <4>2
    <3>2. CASE k \notin s
      <4>1. s \in SUBSET (1..(k - 1))
        BY <2>2, <3>2
      <4>2. h[s] = IF s = {} THEN base ELSE next[Max(s)][h[s \ {Max(s)}]]
        BY <2>1, <4>1 DEF Folding
      <4>3. g[s] = h[s] /\ g[s \ {Max(s)}] = h[s \ {Max(s)}]
        BY <3>2
      <4> HIDE DEF g
      <4> QED BY <4>2, <4>3
    <3> QED BY <3>1, <3>2
  <2> HIDE DEF g
  <2>7. Folding(g, k, base, next)
    BY <2>6 DEF Folding
  <2>8. Within(g, k)
    BY <2>4, <2>5, <2>7
  <2> HIDE DEF Within
  <2> QED BY <2>8
<1> HIDE DEF G, Within
<1>3. n \in G
  <2>1. n \in 0..n
    OBVIOUS
  <2> QED BY <1>1, <1>2, <2>1, IndexInduction
<1> QED BY <1>3 DEF G, Within

\* g is a function of the sets of indices.
OfIndices(g, n) == g = [s \in SUBSET (1..n) |-> g[s]]
\* What g and h have in common before a step they have in common after it.
AgreeUpTo(g, h, n) ==
  \A s \in SUBSET (1..n) : s = {} \/ g[s \ {Max(s)}] = h[s \ {Max(s)}] => g[s] = h[s]

\* Two folds with the same steps are the same.
LEMMA FoldUnique ==
  ASSUME NEW n \in Nat, NEW g, NEW h, OfIndices(g, n), OfIndices(h, n), AgreeUpTo(g, h, n)
  PROVE  g = h
<1> DEFINE R == 1..n
           G == {s \in SUBSET R : g[s] = h[s]}
<1>1. ASSUME NEW T \in SUBSET R, \A U \in SUBSET T : U # T => U \in G
      PROVE  T \in G
  <2>1. T # {} => Max(T) \in T
    BY LastIndex
  <2>2. T # {} => g[T \ {Max(T)}] = h[T \ {Max(T)}]
    BY <1>1, <2>1
  <2> QED BY <2>2 DEF AgreeUpTo
<1>2. IsFiniteSet(R)
  BY FS_Interval
<1>3. \A T \in SUBSET R : T \in G
  <2> HIDE DEF R, G
  <2> QED BY <1>1, <1>2, SubsetInduction
<1>4. \A T \in SUBSET (1..n) : g[T] = h[T]
  BY <1>3
<1> QED BY <1>4 DEF OfIndices

\* The case of steps that can be taken in every state: the states after the
\* first k steps are in U[k].
LEMMA FoldSteps ==
  ASSUME NEW n \in Nat, NEW D, NEW base \in D, NEW next \in [1..n -> [D -> D]], NEW U, base \in U[0],
         \A k \in 1..n : \A d \in D : d \in U[k - 1] => next[k][d] \in U[k]
  PROVE  \E g \in [SUBSET (1..n) -> D] : Folding(g, n, base, next) /\ g[1..n] \in U[n]
<1> DEFINE E == [s \in SUBSET (1..n) |-> {d \in D : \A k \in 0..n : s = 1..k => d \in U[k]}]
<1>1. \A s \in SUBSET (1..n) : \A d : d \in E[s] <=> d \in D /\ \A k \in 0..n : s = 1..k => d \in U[k]
  OBVIOUS
<1> HIDE DEF E
<1>2. base \in E[{}]
  <2>1. \A k \in 0..n : {} = 1..k => k = 0
    <3> SUFFICES ASSUME NEW k \in 0..n, k # 0 PROVE {} # 1..k
      OBVIOUS
    <3>1. 1 \in 1..k
      OBVIOUS
    <3> QED BY <3>1
  <2> QED BY <1>1, <2>1
<1>3. ASSUME NEW s \in SUBSET (1..n), s # {}, NEW d \in E[s \ {Max(s)}]
      PROVE  next[Max(s)][d] \in E[s]
  <2>1. Max(s) \in 1..n /\ s \ {Max(s)} \in SUBSET (1..n)
    BY <1>3, LastIndex
  <2>2. d \in D
    BY <1>1, <1>3, <2>1
  <2>3. next[Max(s)][d] \in D
    BY <2>1, <2>2
  <2>4. ASSUME NEW k \in 0..n, s = 1..k PROVE next[Max(s)][d] \in U[k]
    <3>1. k \in 1..n
      <4>1. k # 0
        BY <1>3, <2>4
      <4> QED BY <4>1
    <3>2. Max(s) = k /\ s \ {Max(s)} = 1..(k - 1)
      BY <2>4, <3>1, LastOfInterval
    <3>3. k - 1 \in 0..n
      BY <3>1
    <3>4. d \in U[k - 1]
      BY <1>1, <1>3, <2>1, <3>2, <3>3
    <3> QED BY <2>2, <3>1, <3>2, <3>4
  <2> QED BY <1>1, <2>3, <2>4
<1>4. StepsInto(E, n, D, next)
  BY <1>1, <1>3 DEF StepsInto
<1>5. PICK g \in [SUBSET (1..n) -> D] : Folding(g, n, base, next) /\ \A s \in SUBSET (1..n) : g[s] \in E[s]
  BY <1>2, <1>4, FoldExists
<1>6. g[1..n] \in U[n]
  <2>1. 1..n \in SUBSET (1..n) /\ n \in 0..n
    OBVIOUS
  <2>2. g[1..n] \in E[1..n]
    BY <1>5, <2>1
  <2> QED BY <1>1, <2>1, <2>2
<1> QED BY <1>5, <1>6

-----------------------------------------------------------------------------
(* Numbering: prefix sums give ranges, and ranks the numbers in a range.   *)

\* The sums of the first entries of a list cut 0..total-1 into ranges.
LEMMA PrefixSums ==
  ASSUME NEW n \in Nat, NEW f, \A i \in 0..(n - 1) : f[i] \in Nat,
         NEW upto, \A i \in 0..n : upto[i] = SumFunctionOnSet(f, 0..(i - 1))
  PROVE  /\ \A i \in 0..n : upto[i] \in Nat
         /\ \A i \in 0..(n - 1) : upto[i + 1] = upto[i] + f[i]
         /\ \A i, j \in 0..n : i < j => upto[i] + f[i] <= upto[j]
         /\ \A c \in 0..(upto[n] - 1) : \E i \in 0..(n - 1) : upto[i] <= c /\ c < upto[i] + f[i]
<1>1. ASSUME NEW a \in 0..n, NEW b \in 0..n
      PROVE  /\ IsFiniteSet(a..(b - 1)) /\ \A x \in a..(b - 1) : f[x] \in Nat /\ f[x] \in Int
  <2>1. IsFiniteSet(a..(b - 1))
    BY FS_Interval
  <2>2. \A x \in a..(b - 1) : f[x] \in Nat
    OBVIOUS
  <2> QED BY <2>1, <2>2
<1>2. ASSUME NEW i \in 0..n PROVE upto[i] \in Nat
  <2>1. 0 \in 0..n
    OBVIOUS
  <2>2. SumFunctionOnSet(f, 0..(i - 1)) \in Nat
    BY <1>1, <2>1, SumNat
  <2> QED BY <2>2
<1>3. ASSUME NEW i \in 0..(n - 1) PROVE upto[i + 1] = upto[i] + f[i]
  <2>1. 0 \in 0..n /\ i \in 0..n /\ i + 1 \in 0..n /\ (i + 1) - 1 = i
    OBVIOUS
  <2>2. IsFiniteSet(0..i) /\ \A x \in 0..i : f[x] \in Int
    BY <1>1, <2>1
  <2>3. i \in 0..i /\ (0..i) \ {i} = 0..(i - 1)
    OBVIOUS
  <2>4. SumFunctionOnSet(f, 0..i) = f[i] + SumFunctionOnSet(f, (0..i) \ {i})
    BY <2>2, <2>3, SumTakes
  <2>5. upto[i + 1] = f[i] + upto[i]
    BY <2>1, <2>3, <2>4
  <2> QED BY <1>2, <2>1, <2>5
<1>4. ASSUME NEW i \in 0..n, NEW j \in 0..n, i < j PROVE upto[i] + f[i] <= upto[j]
  <2>1. 0 \in 0..n /\ i + 1 \in 0..n /\ (i + 1) - 1 = i /\ i \in 0..(n - 1)
    BY <1>4
  <2>2. /\ IsFiniteSet(0..i) /\ \A x \in 0..i : f[x] \in Int
        /\ IsFiniteSet((i + 1)..(j - 1)) /\ \A x \in (i + 1)..(j - 1) : f[x] \in Nat /\ f[x] \in Int
    BY <1>1, <2>1
  <2>3. (0..i) \intersect ((i + 1)..(j - 1)) = {} /\ (0..i) \union ((i + 1)..(j - 1)) = 0..(j - 1)
    BY <1>4
  <2> DEFINE A == 0..i
             B == (i + 1)..(j - 1)
  <2>4. upto[j] = SumFunctionOnSet(f, A \union B) /\ upto[i + 1] = SumFunctionOnSet(f, A)
    BY <2>1, <2>3
  <2>5. A \intersect B = {} /\ IsFiniteSet(A) /\ IsFiniteSet(B) /\ (\A x \in A \union B : f[x] \in Int)
        /\ \A x \in B : f[x] \in Nat
    BY <2>2, <2>3
  <2> HIDE DEF A, B
  <2>6. SumFunctionOnSet(f, A \union B) = SumFunctionOnSet(f, A) + SumFunctionOnSet(f, B)
    BY <2>5, SumUnion
  <2>7. SumFunctionOnSet(f, B) \in Nat
    BY <2>5, SumNat
  <2>8. upto[j] \in Nat /\ upto[i + 1] \in Nat /\ upto[i + 1] = upto[i] + f[i]
    BY <1>2, <1>3, <2>1
  <2> QED BY <2>4, <2>6, <2>7, <2>8
<1>5. ASSUME NEW c \in 0..(upto[n] - 1)
      PROVE  \E i \in 0..(n - 1) : upto[i] <= c /\ c < upto[i] + f[i]
  <2> DEFINE G == {i \in 0..n : c < upto[i] => \E k \in 0..(n - 1) : upto[k] <= c /\ c < upto[k] + f[k]}
  <2>1. 0 \in G
    <3>1. upto[0] = 0
      <4>1. 0 \in 0..n /\ 0..(0 - 1) = {}
        OBVIOUS
      <4> QED BY <4>1, SumEmpty
    <3> QED BY <3>1
  <2>2. ASSUME NEW i \in 1..n, i - 1 \in G PROVE i \in G
    <3>1. i - 1 \in 0..(n - 1) /\ (i - 1) + 1 = i /\ i - 1 \in 0..n /\ i \in 0..n
      OBVIOUS
    <3>2. upto[i] = upto[i - 1] + f[i - 1] /\ upto[i - 1] \in Nat /\ upto[i] \in Nat
      BY <1>2, <1>3, <3>1
    <3>3. CASE upto[i - 1] <= c
      BY <3>1, <3>2, <3>3
    <3>4. CASE c < upto[i - 1]
      BY <2>2, <3>1, <3>4
    <3>5. c \in Int
      <4>1. upto[n] \in Nat
        BY <1>2
      <4> QED BY <4>1
    <3> QED BY <3>2, <3>3, <3>4, <3>5
  <2> HIDE DEF G
  <2>3. \A i \in 0..n : i \in G
    BY <2>1, <2>2, IndexInduction
  <2>4. n \in G
    BY <2>3
  <2>5. c < upto[n]
    BY <1>2
  <2> QED BY <2>4, <2>5 DEF G
<1> QED BY <1>2, <1>3, <1>4, <1>5

\* How many are smaller: each member of a set has a rank of its own, and the
\* ranks are 0 and so on.
LEMMA Ranks ==
  ASSUME NEW C, IsFiniteSet(C), C \subseteq Int,
         NEW rank, \A v \in C : rank[v] = Cardinality({u \in C : u < v})
  PROVE  /\ Cardinality(C) \in Nat
         /\ \A v \in C : rank[v] \in 0..(Cardinality(C) - 1)
         /\ \A u, v \in C : rank[u] = rank[v] => u = v
         /\ \A m \in 0..(Cardinality(C) - 1) : \E v \in C : rank[v] = m
<1> DEFINE Below(v) == {u \in C : u < v}
           n == Cardinality(C)
           f == [v \in C |-> rank[v]]
<1>1. n \in Nat
  BY FS_CardinalityType
<1>2. ASSUME NEW v \in C PROVE rank[v] \in 0..(n - 1)
  <2>1. Below(v) \in SUBSET C /\ Below(v) # C
    OBVIOUS
  <2>2. rank[v] = Cardinality(Below(v))
    OBVIOUS
  <2> HIDE DEF Below
  <2>3. /\ IsFiniteSet(Below(v)) /\ Cardinality(Below(v)) <= n /\ Cardinality(Below(v)) # n
        /\ Cardinality(Below(v)) \in Nat
    BY <2>1, FS_Subset, FS_CardinalityType
  <2> QED BY <1>1, <2>2, <2>3
<1>3. ASSUME NEW u \in C, NEW v \in C, u < v PROVE rank[u] # rank[v]
  <2>1. u \in Int /\ v \in Int /\ ~(u < u) /\ \A i \in C : i < u => i < v
    <3>1. u \in Int /\ v \in Int /\ \A i \in C : i \in Int
      OBVIOUS
    <3> QED BY <1>3, <3>1
  <2>2. /\ Below(u) \in SUBSET Below(v) /\ Below(v) \in SUBSET C
        /\ u \in Below(v) /\ u \notin Below(u)
    BY <1>3, <2>1, Zenon
  <2>3. rank[u] = Cardinality(Below(u)) /\ rank[v] = Cardinality(Below(v))
    OBVIOUS
  <2> HIDE DEF Below
  <2>4. IsFiniteSet(Below(v))
    BY <2>2, FS_Subset
  <2>5. Cardinality(Below(v)) # Cardinality(Below(u))
    BY <2>2, <2>4, FS_Subset
  <2> QED BY <2>3, <2>5
<1>4. ASSUME NEW u \in C, NEW v \in C, rank[u] = rank[v] PROVE u = v
  <2>1. u \in Int /\ v \in Int /\ ~(u < v) /\ ~(v < u)
    BY <1>3, <1>4
  <2> QED BY <2>1
<1>5. f \in Injection(C, 0..(n - 1))
  BY <1>2, <1>4 DEF Injection, IsInjective
<1> HIDE DEF n, f
<1>6. IsFiniteSet(0..(n - 1)) /\ Cardinality(0..(n - 1)) = n
  BY <1>1, FS_Interval
<1>7. f \in Surjection(C, 0..(n - 1))
  BY <1>5, <1>6, FS_Injection DEF n
<1>8. \A m \in 0..(n - 1) : \E v \in C : f[v] = m
  BY <1>7 DEF Surjection
<1> QED BY <1>1, <1>2, <1>4, <1>8 DEF f, n
=============================================================================
