---------------------------- MODULE MatchGlobal ----------------------------
(***************************************************************************)
(* Match_Global of libparmetis/match.c: the PEs compute a heavy-edge       *)
(* matching of the distributed graph.  In each pass a PE visits its        *)
(* unmatched vertices in the order of perm, matches local pairs at once    *)
(* and asks for remote partners; then every PE serves the requests it got, *)
(* returns the same lists with the refused ones marked, and publishes the  *)
(* vertices whose match has changed.                                       *)
(*                                                                         *)
(* Every phase sends one message to each neighbour and takes one from each *)
(* (MPI_Waitall).                                                          *)
(*                                                                         *)
(* Match_Local, which Adaptive_Partition uses when the PEs and the parts   *)
(* are coupled, is the second half of the module: it matches local         *)
(* vertices only and publishes the result at the end.                      *)
(***************************************************************************)
EXTENDS Integers, Sequences, SequencesExt, Matching, PointToPoint

CONSTANTS
  Weight,    \* Weight[u][v]: adjwgt of the edge between u and v
  Home,      \* Home[v]: myhome of v
  Heavy,     \* the sets of vertices that may be marked TOO_HEAVY
  Orders,    \* Orders[p]: the traversal orders FastRandomPermute may return
  Levels,    \* the values of graph->level, which decides who asks first
  TwoHops,   \* the values of ctrl->twohop
  NPASSES,   \* NMATCH_PASSES of defs.h
  MTypes     \* the kinds of matching: Match_Global "global", Match_Local "local"

\* Every PE has a vertex over the weight limit, or marks a random one.
ASSUME HeavyAssumption == \A H \in Heavy : \A p \in PE : Own(p) \cap H # {}
\* The orders are permutations, and there are no loops: contraction drops them.
ASSUME OrdersAssumption == \A p \in PE : Orders[p] \subseteq SetToSeqs(Own(p))
ASSUME LoopAssumption == \A v \in Vertex : v \notin Adj[v]
ASSUME PassesAssumption == NPASSES \in Nat \ {0}

nvtxs  == [p \in PE |-> Cardinality(Own(p))]
degree == [v \in Vertex |-> Cardinality(Adj[v])]
avgdegree == [p \in PE |-> FoldSet(LAMBDA v, a : a + degree[v], 0, Own(p)) \div nvtxs[p]]

VARIABLES
  level,     \* graph->level, the same on all PEs
  twohop,    \* ctrl->twohop
  mtype,     \* graph->match_type
  heavy,     \* the vertices above maxnvwgt
  pc,        \* the phase a PE is in
  pass,      \* its pass, from 0
  match,     \* match[p][v] for p's own vertices and its ghosts
  perm,      \* the traversal order of p's own vertices
  iperm,     \* iperm[p][v]: the position of v in perm[p]
  nmatched,  \* how many leading positions of perm are no longer visited
  ii,        \* the next position of perm to visit
  last,      \* last_unmatched: where the search for an island's mate resumes
  changed,   \* own vertices matched in this pass, in order
  requests,  \* match_requests: pairs [key, val] to be sent
  nkept,     \* how many more coarse vertices p wants to keep
  chan       \* chan[p][q]: the messages in flight from p to q

vars == <<level, twohop, mtype, heavy, pc, pass, match, perm, iperm, nmatched, ii,
          last, changed, requests, nkept, chan>>

setup == <<level, twohop, mtype, heavy>>

\* match as it is at first.  Match_Global has exchanged it, with the marks of
\* heavy vertices; Match_Local fills in anything but UNMATCHED for ghosts.
Unmatched(p) == [v \in Own(p) \cup Ghosts(p) |->
  IF mtype = "local" THEN IF v \in Own(p) THEN UNMATCHED ELSE 0
  ELSE IF v \in heavy THEN TOO_HEAVY ELSE UNMATCHED]

\* The state after the first CommInterfaceData.
Init ==
  /\ level \in Levels
  /\ twohop \in TwoHops
  /\ mtype \in MTypes
  /\ heavy \in Heavy
  /\ pc = [p \in PE |-> IF mtype = "local" THEN "local" ELSE "visit"]
  /\ pass = [p \in PE |-> 0]
  /\ match = [p \in PE |-> Unmatched(p)]
  /\ perm \in {f \in [PE -> UNION {Orders[p] : p \in PE}] : \A p \in PE : f[p] \in Orders[p]}
  /\ iperm = [p \in PE |-> [v \in Own(p) |-> CHOOSE j \in 1..nvtxs[p] : perm[p][j] = v]]
  /\ nmatched = [p \in PE |-> 0]
  /\ ii = [p \in PE |-> 1]
  /\ last = [p \in PE |-> 1]
  /\ changed = [p \in PE |-> <<>>]
  /\ requests = [p \in PE |-> {}]
  /\ nkept = [p \in PE |-> Cardinality(Vertex) \div npes - nvtxs[p]]
  /\ chan = NoMessages

-----------------------------------------------------------------------------
\* Every phase goes on when it has a message from each neighbour.
ArrivedFromAll(p) == ArrivedFrom(chan, p, PE)
Arrived(p) == ArrivedFrom(chan, p, Nbrs(p))

-----------------------------------------------------------------------------
\* The pairs the vertices of p are matched to at once: both ends are local
\* and the smaller one keeps.
Pair(m, i, k) ==
  [m EXCEPT ![i] = k + (IF i <= k THEN KeepBit ELSE 0),
            ![k] = i + (IF i > k THEN KeepBit ELSE 0)]

\* Who may be asked: an unmatched neighbour of the same home over an edge of
\* maximal weight; equal weights are decided at random.
Candidates(p, i) == {k \in Adj[i] : match[p][k] = UNMATCHED /\ Home[k] = Home[i]}
Heaviest(p, i) == {k \in Candidates(p, i) :
                     \A l \in Candidates(p, i) : Weight[i][l] <= Weight[i][k]}

wside(p) == (level + pass[p]) % 2
Asks(p, i, k) == (wside(p) = 0 /\ i < k) \/ (wside(p) = 1 /\ i > k)

Visiting(p) == pc[p] = "visit" /\ ii[p] <= nvtxs[p]
Unvisited(p) == perm[p][ii[p]]
Advance(p) == ii' = [ii EXCEPT ![p] = @ + 1]

\* A vertex that has a match already, or no candidate.
Skip(p) ==
  /\ Visiting(p)
  /\ \/ match[p][Unvisited(p)] # UNMATCHED
     \/ Adj[Unvisited(p)] # {} /\ Candidates(p, Unvisited(p)) = {}
  /\ Advance(p)
  /\ UNCHANGED <<setup, pc, pass, match, perm, iperm, nmatched, last,
                 changed, requests, nkept, chan>>

\* An island takes the next unmatched vertex of its home in perm, whatever its
\* degree; the search never goes back.
MatchIsland(p) ==
  LET i    == Unvisited(p)
      from == (IF ii[p] > last[p] THEN ii[p] ELSE last[p]) + 1
      Fit  == {j \in from..nvtxs[p] : match[p][perm[p][j]] = UNMATCHED
                                      /\ Home[perm[p][j]] = Home[i]}
      j    == CHOOSE x \in Fit : \A y \in Fit : x <= y
  IN  /\ Visiting(p) /\ match[p][i] = UNMATCHED /\ Adj[i] = {}
      /\ IF Fit = {}
         THEN /\ last' = [last EXCEPT ![p] = IF from > nvtxs[p] THEN from ELSE nvtxs[p] + 1]
              /\ UNCHANGED <<match, changed>>
         ELSE /\ last' = [last EXCEPT ![p] = j]
              /\ match' = [match EXCEPT ![p] = Pair(@, i, perm[p][j])]
              /\ changed' = [changed EXCEPT ![p] = @ \o <<i, perm[p][j]>>]
      /\ Advance(p)
      /\ UNCHANGED <<setup, pc, pass, perm, iperm, nmatched, requests, nkept, chan>>

\* The heaviest candidate is local: the match is made right away.
MatchLocal(p) ==
  LET i == Unvisited(p) IN
  /\ Visiting(p) /\ match[p][i] = UNMATCHED
  /\ \E k \in Heaviest(p, i) \cap Own(p) :
       /\ match' = [match EXCEPT ![p] = Pair(@, i, k)]
       /\ changed' = [changed EXCEPT ![p] = @ \o <<i, k>>]
  /\ Advance(p)
  /\ UNCHANGED <<setup, pc, pass, perm, iperm, nmatched, last, requests, nkept, chan>>

AskAndStayFree(p) ==
  LET i == Unvisited(p) IN
  /\ Visiting(p) /\ match[p][i] = UNMATCHED
  /\ \E k \in Heaviest(p, i) \ Own(p) :
       /\ match' = [match EXCEPT ![p][k] = MAYBE_MATCHED]
       /\ requests' = [requests EXCEPT ![p] = @ \cup (IF Asks(p, i, k) THEN {[key |-> k, val |-> i]} ELSE {})]
  /\ Advance(p)
  /\ UNCHANGED <<setup, pc, pass, perm, iperm, nmatched, last, changed, nkept, chan>>

\* It is remote: it is not considered again in this pass, and asked for only
\* when it is this side's turn to ask.
AskRemote(p) ==
  LET i == Unvisited(p) IN
  /\ Visiting(p) /\ match[p][i] = UNMATCHED
  /\ \E k \in Heaviest(p, i) \ Own(p) :
       IF Asks(p, i, k)
       THEN /\ match' = [match EXCEPT ![p][k] = MAYBE_MATCHED, ![p][i] = MAYBE_MATCHED]
            /\ requests' = [requests EXCEPT ![p] = @ \cup {[key |-> k, val |-> i]}]
       ELSE /\ match' = [match EXCEPT ![p][k] = MAYBE_MATCHED]
            /\ UNCHANGED requests
  /\ Advance(p)
  /\ UNCHANGED <<setup, pc, pass, perm, iperm, nmatched, last, changed, nkept, chan>>

\* The elements of a set of numbers in ascending order.
InOrder(S) == CHOOSE s \in SetToSeqs(S) : \A i, j \in DOMAIN s : i < j => s[i] < s[j]

\* p's requests to q, sorted by the vertex asked for (ikvsorti).
RequestList(p, q) ==
  LET R    == {r \in requests[p] : Owner[r.key] = q}
      keys == InOrder({r.key : r \in R})
  IN  [i \in DOMAIN keys |-> CHOOSE r \in R : r.key = keys[i]]

\* All vertices visited: the requests go out.
SendRequests(p) ==
  /\ pc[p] = "visit" /\ ii[p] > nvtxs[p]
  /\ chan' = Post(chan, p, [q \in Nbrs(p) |-> RequestList(p, q)])
  /\ requests' = [requests EXCEPT ![p] = {}]
  /\ pc' = [pc EXCEPT ![p] = "serve"]
  /\ UNCHANGED <<setup, pass, match, perm, iperm, nmatched, ii, last, changed, nkept>>

-----------------------------------------------------------------------------
ServeNobodyKeeps(st, q, r) ==
  IF st.match[r.key] # UNMATCHED
  THEN [st EXCEPT !.list[q] = Append(@, [r EXCEPT !.key = UNMATCHED])]
  ELSE [st EXCEPT !.list[q] = Append(@, r), !.nkept = @ + (IF @ >= 0 THEN -1 ELSE 1),
                  !.match[r.key] = r.val + (IF st.nkept >= 0 THEN KeepBit ELSE 0),
                  !.changed = Append(@, r.key)]

ServeTheAskers(st, q, r) ==
  IF st.match[r.key] \notin {UNMATCHED, MAYBE_MATCHED}
  THEN [st EXCEPT !.list[q] = Append(@, [r EXCEPT !.key = UNMATCHED])]
  ELSE [st EXCEPT !.list[q] = Append(@, r), !.nkept = @ - 1,
                  !.match[r.key] = r.val + KeepBit, !.changed = Append(@, r.key)]

\* One request of neighbour q in the state st of the serving PE: granted when
\* the vertex is still unmatched.  The server keeps the coarse vertex while
\* it has too few, otherwise the asking PE does.
ServeOne(st, q, r) ==
  IF st.match[r.key] # UNMATCHED
  THEN [st EXCEPT !.list[q] = Append(@, [r EXCEPT !.key = UNMATCHED])]
  ELSE IF st.nkept >= 0
  THEN [st EXCEPT !.list[q] = Append(@, r), !.nkept = @ - 1,
                  !.match[r.key] = r.val + KeepBit, !.changed = Append(@, r.key)]
  ELSE [st EXCEPT !.list[q] = Append(@, [r EXCEPT !.key = @ + KeepBit]), !.nkept = @ + 1,
                  !.match[r.key] = r.val, !.changed = Append(@, r.key)]

ServeList(st, q, reqs) == FoldLeft(LAMBDA s, r : ServeOne(s, q, r), st, reqs)

\* The neighbours are served in a random order (nperm).
Serve(p) ==
  /\ pc[p] = "serve" /\ Arrived(p)
  /\ \E nperm \in SetToSeqs(Nbrs(p)) :
       LET st == FoldLeft(LAMBDA s, q : ServeList(s, q, Head(chan[q][p])),
                          [match |-> match[p], nkept |-> nkept[p], changed |-> changed[p],
                           list |-> [q \in Nbrs(p) |-> <<>>]], nperm)
       IN  /\ match' = [match EXCEPT ![p] = st.match]
           /\ nkept' = [nkept EXCEPT ![p] = st.nkept]
           /\ changed' = [changed EXCEPT ![p] = st.changed]
           /\ chan' = Post(Take(chan, p, Nbrs(p)), p, [q \in Nbrs(p) |-> st.list[q]])
  /\ pc' = [pc EXCEPT ![p] = "update"]
  /\ UNCHANGED <<setup, pass, perm, iperm, nmatched, ii, last, requests>>

-----------------------------------------------------------------------------

\* A granted or refused request comes back.
ApplyOne(st, r) ==
  [match   |-> [st.match EXCEPT ![r.val] = r.key],
   changed |-> IF r.key # UNMATCHED THEN Append(st.changed, r.val) ELSE st.changed]

ApplyList(st, replies) == FoldLeft(ApplyOne, st, replies)

RetireUnindexed(st, v) ==
  [st EXCEPT !.perm[st.iperm[v]] = st.perm[st.nmatched + 1], !.nmatched = @ + 1]

\* A changed vertex leaves the positions that are still visited: the first of
\* them takes its place.
Retire(st, v) ==
  LET j == st.iperm[v]
      w == st.perm[st.nmatched + 1]
  IN  [perm |-> [st.perm EXCEPT ![j] = w], iperm |-> [st.iperm EXCEPT ![w] = j],
       nmatched |-> st.nmatched + 1]

RetireAll(p, vs) ==
  FoldLeft(Retire, [perm |-> perm[p], iperm |-> iperm[p], nmatched |-> nmatched[p]], vs)

\* CommChangedInterfaceData of match: the changed vertices q has ghosts of.
News(p, q, m, vs) == [v \in Send(p, q) \cap ToSet(vs) |-> m[v]]

SetOrder(p, st) ==
  /\ perm' = [perm EXCEPT ![p] = st.perm]
  /\ iperm' = [iperm EXCEPT ![p] = st.iperm]
  /\ nmatched' = [nmatched EXCEPT ![p] = st.nmatched]

Update(p) ==
  LET st == FoldLeft(LAMBDA s, q : ApplyList(s, Head(chan[q][p])),
                     [match |-> match[p], changed |-> changed[p]], InOrder(Nbrs(p)))
  IN  /\ pc[p] = "update" /\ Arrived(p)
      /\ match' = [match EXCEPT ![p] = st.match]
      /\ changed' = [changed EXCEPT ![p] = st.changed]
      /\ SetOrder(p, RetireAll(p, st.changed))
      /\ chan' = Post(Take(chan, p, Nbrs(p)), p,
                      [q \in Nbrs(p) |-> News(p, q, st.match, st.changed)])
      /\ pc' = [pc EXCEPT ![p] = "refresh"]
      /\ UNCHANGED <<setup, pass, ii, last, requests, nkept>>

\* End of a pass: the next one, the two-hop matching or the end.
Refresh(p) ==
  /\ pc[p] = "refresh" /\ Arrived(p)
  /\ match' = [match EXCEPT ![p] = Exchanged(chan, p, @)]
  /\ chan' = Take(chan, p, Nbrs(p))
  /\ pass' = [pass EXCEPT ![p] = @ + 1]
  /\ pc' = [pc EXCEPT ![p] = IF pass[p] + 1 < NPASSES THEN "visit"
                             ELSE IF twohop THEN "hop" ELSE "finish"]
  /\ ii' = [ii EXCEPT ![p] = nmatched[p] + 1]
  /\ last' = [last EXCEPT ![p] = nmatched[p] + 1]
  /\ changed' = [changed EXCEPT ![p] = <<>>]
  /\ UNCHANGED <<setup, perm, iperm, nmatched, requests, nkept>>

-----------------------------------------------------------------------------

\* The two-hop matching pairs local vertices of small degree with a common
\* neighbour, local or not.
HopMates(p, i) ==
  {k \in Own(p) \ {i} : /\ match[p][k] = UNMATCHED /\ degree[k] <= avgdegree[p]
                        /\ Adj[i] \cap Adj[k] # {}}

Hop(p) ==
  LET i == Unvisited(p)
      Mates == IF match[p][i] = UNMATCHED /\ degree[i] <= avgdegree[p]
               THEN HopMates(p, i) ELSE {}
  IN  /\ pc[p] = "hop" /\ ii[p] <= nvtxs[p]
      /\ \/ Mates = {} /\ UNCHANGED <<match, changed>>
         \/ \E k \in Mates : /\ match' = [match EXCEPT ![p] = Pair(@, i, k)]
                             /\ changed' = [changed EXCEPT ![p] = @ \o <<i, k>>]
      /\ Advance(p)
      /\ UNCHANGED <<setup, pc, pass, perm, iperm, nmatched, last, requests, nkept, chan>>

HopPublish(p) ==
  /\ pc[p] = "hop" /\ ii[p] > nvtxs[p]
  /\ SetOrder(p, RetireAll(p, changed[p]))
  /\ chan' = Post(chan, p, [q \in Nbrs(p) |-> News(p, q, match[p], changed[p])])
  /\ pc' = [pc EXCEPT ![p] = "hopRefresh"]
  /\ UNCHANGED <<setup, pass, match, ii, last, changed, requests, nkept>>

HopRefresh(p) ==
  /\ pc[p] = "hopRefresh" /\ Arrived(p)
  /\ match' = [match EXCEPT ![p] = Exchanged(chan, p, @)]
  /\ chan' = Take(chan, p, Nbrs(p))
  /\ pc' = [pc EXCEPT ![p] = "finish"]
  /\ UNCHANGED <<setup, pass, perm, iperm, nmatched, ii, last, changed, requests, nkept>>

\* Whoever is left is matched with itself.
Finish(p) ==
  /\ pc[p] = "finish"
  /\ match' = [match EXCEPT ![p] = [v \in DOMAIN @ |->
                 IF v \in Own(p) /\ @[v] \in {UNMATCHED, TOO_HEAVY}
                 THEN v + KeepBit ELSE @[v]]]
  /\ pc' = [pc EXCEPT ![p] = "done"]
  /\ UNCHANGED <<setup, pass, perm, iperm, nmatched, ii, last, changed,
                 requests, nkept, chan>>

-----------------------------------------------------------------------------
\* Match_Local.

\* The unmatched local neighbours of the same home that are light enough.
LocalMates(p, i) ==
  {k \in Own(p) \cap Adj[i] : k \notin heavy /\ match[p][k] = UNMATCHED /\ Home[k] = Home[i]}

\* The vertex is matched over its heaviest edge or else with itself; heavy
\* vertices stay alone.
VisitLocal(p) ==
  LET i     == Unvisited(p)
      mates == IF i \in heavy THEN {} ELSE LocalMates(p, i)
  IN
  /\ pc[p] = "local" /\ ii[p] <= nvtxs[p]
  /\ \/ match[p][i] # UNMATCHED /\ UNCHANGED match
     \/ /\ match[p][i] = UNMATCHED /\ mates = {}
        /\ match' = [match EXCEPT ![p][i] = i + KeepBit]
     \/ /\ match[p][i] = UNMATCHED
        /\ \E k \in mates : /\ \A l \in mates : Weight[i][l] <= Weight[i][k]
                            /\ match' = [match EXCEPT ![p] = Pair(@, i, k)]
  /\ Advance(p)
  /\ UNCHANGED <<setup, pc, pass, perm, iperm, nmatched, last, changed, requests, nkept, chan>>

\* CommInterfaceData of match.
PublishLocal(p) ==
  /\ pc[p] = "local" /\ ii[p] > nvtxs[p]
  /\ chan' = Post(chan, p, [q \in Nbrs(p) |-> News(p, q, match[p], perm[p])])
  /\ pc' = [pc EXCEPT ![p] = "localRefresh"]
  /\ UNCHANGED <<setup, pass, match, perm, iperm, nmatched, ii, last, changed, requests, nkept>>

RefreshLocal(p) ==
  /\ pc[p] = "localRefresh" /\ Arrived(p)
  /\ match' = [match EXCEPT ![p] = Exchanged(chan, p, @)]
  /\ chan' = Take(chan, p, Nbrs(p))
  /\ pc' = [pc EXCEPT ![p] = "done"]
  /\ UNCHANGED <<setup, pass, perm, iperm, nmatched, ii, last, changed, requests, nkept>>

Step(p) == \/ Skip(p) \/ MatchIsland(p) \/ MatchLocal(p) \/ AskRemote(p)
           \/ SendRequests(p) \/ Serve(p) \/ Update(p) \/ Refresh(p)
           \/ Hop(p) \/ HopPublish(p) \/ HopRefresh(p) \/ Finish(p)
           \/ VisitLocal(p) \/ PublishLocal(p) \/ RefreshLocal(p)

Terminated == \A p \in PE : pc[p] = "done"

Next == (\E p \in PE : Step(p)) \/ (Terminated /\ UNCHANGED vars)

\* The PEs run code without unbounded loops: as long as one of them can go
\* on, one does.
Spec == Init /\ [][Next]_vars /\ WF_vars(Next)

-----------------------------------------------------------------------------
(* Properties *)

Values == Vertex \cup {v + KeepBit : v \in Vertex} \cup {UNMATCHED, MAYBE_MATCHED, TOO_HEAVY}

\* match only ever holds a partner, kept or not, or one of the three marks;
\* perm and iperm stay within p's own vertices, requests go from an own vertex
\* to a ghost.
TypeOK ==
  /\ level \in Levels /\ twohop \in TwoHops
  /\ pc \in [PE -> {"visit", "serve", "update", "refresh", "hop", "hopRefresh", "finish",
                     "local", "localRefresh", "done"}]
  /\ pass \in [PE -> 0..NPASSES]
  /\ \A p \in PE : /\ match[p] \in [Own(p) \cup Ghosts(p) -> Values]
                   /\ perm[p] \in [1..nvtxs[p] -> Own(p)]
                   /\ iperm[p] \in [Own(p) -> 1..nvtxs[p]]
                   /\ nmatched[p] \in 0..nvtxs[p]
                   /\ ii[p] \in 1..(nvtxs[p] + 1)
                   /\ changed[p] \in Seq(Own(p))
                   /\ requests[p] \subseteq [key : Ghosts(p), val : Own(p)]

Final == [v \in Vertex |-> match[Owner[v]][v]]

\* The PEs that decide about a vertex pair by messages agree in the end: the
\* matching is symmetric, exactly one PE keeps each coarse vertex, and no PE
\* ends up without one (comment at match.c:453).  Two vertices are matched only
\* within one home (myhome), but by the two-hop matching, which does not look at
\* it.
AgreedMatching == Terminated =>
  /\ IsMatching(Final)
  /\ ~twohop \/ mtype = "local" => \A v \in Vertex : Home[Partner(Final[v])] = Home[v]

\* No list outgrows its buffer: requests to q fit what q posted (recvptr),
\* the answers fit sendptr, and changed, allocated with nvtxs words, never
\* gets a vertex twice.
BuffersSuffice == \A p \in PE :
  /\ \A q \in Nbrs(p) :
       Cardinality({r \in requests[p] : Owner[r.key] = q}) <= Cardinality(Send(p, q))
  /\ Len(changed[p]) <= nvtxs[p]
  /\ Cardinality(ToSet(changed[p])) = Len(changed[p])

\* Retiring vertices from perm one by one never loses an unmatched vertex:
\* the positions that are still visited hold them all, none of them twice.
NobodyForgotten == \A p \in PE :
  pc[p] \in {"visit", "hop"} /\ changed[p] = <<>> =>
    LET Rest == (nmatched[p] + 1)..nvtxs[p] IN
    /\ \A v \in Own(p) : match[p][v] = UNMATCHED => \E j \in Rest : perm[p][j] = v
    /\ \A j, k \in Rest : perm[p][j] = perm[p][k] => j = k

\* Once matched, a vertex keeps its partner and its keeper.
MatchIsFinal == [][\A v \in Vertex : Matched(Final[v]) => Final'[v] = Final[v]]_vars

\* Every request is answered and every PE completes the matching.
AllMatched == <>Terminated
=============================================================================
