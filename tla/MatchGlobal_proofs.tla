------------------------- MODULE MatchGlobal_proofs -------------------------
(***************************************************************************)
(* What Match_Global and Match_Local keep, for every distributed graph,    *)
(* every number of PEs and passes, and all interleavings of the PEs: the   *)
(* two ends of a pair agree although one of them learns of it by a message *)
(* (IInv and AgreedMatching), no list outgrows its buffer                  *)
(* (BuffersSuffice), no vertex is lost from the traversal order            *)
(* (NobodyForgotten), and a match is never taken back (MatchIsFinal).      *)
(***************************************************************************)
EXTENDS MatchGlobal, GraphFacts, TLAPS

Passing == {"visit", "serve", "update", "refresh"}
Leaving == {"hop", "hopRefresh", "finish", "done"}
Locally == {"local", "localRefresh", "done"}

M(v) == match[Owner[v]][v]

\* v or v with KeepBit.
Kept(v, x) == v + (IF x THEN KeepBit ELSE 0)

-----------------------------------------------------------------------------
(* The invariant.                                                          *)

Request(q, p) == [key : Own(p), val : Own(q)]

Typed ==
  /\ pc \in [PE -> Passing \union Leaving \union Locally]
  /\ pass \in [PE -> Nat]
  /\ heavy \in Heavy
  /\ match = [p \in PE |-> [v \in Own(p) \union Ghosts(p) |-> match[p][v]]]
  /\ \A p \in PE : \A v \in Own(p) : match[p][v] \in Values
  /\ chan = [q \in PE |-> [p \in PE |-> chan[q][p]]]
  /\ requests = [p \in PE |-> requests[p]]
  /\ \A p \in PE : requests[p] \subseteq [key : Ghosts(p), val : Own(p)]
  /\ nkept \in [PE -> Int]

\* The two kinds of matching have phases of their own.
Together ==
  /\ \A p \in PE : IF mtype = "local" THEN pc[p] \in Locally ELSE pc[p] \in Passing \union Leaving
  /\ \A p \in PE : pc[p] \in {"hop", "hopRefresh"} => twohop

\* How far a neighbour may be.
Near(p, q) ==
  /\ pc[p] = "visit"  => pc[q] \in {"refresh", "visit", "serve"}
  /\ pc[p] = "serve"  => pc[q] \in {"refresh", "visit", "serve", "update"}
  /\ pc[p] = "update" => pc[q] \in {"serve", "update", "refresh"}
  /\ pc[p] \in Leaving => pc[q] \in Leaving \union {"refresh"}
\* p is in the next pass.
Later(p, q) == pc[q] = "refresh" /\ pc[p] \notin {"update", "refresh"}
SameTime(p, q) ==
  pass[p] = pass[q] + (IF Later(p, q) THEN 1 ELSE 0) - (IF Later(q, p) THEN 1 ELSE 0)
NotAhead ==
  mtype # "local" =>
    /\ \A p \in PE : \A q \in Nbrs(p) : Near(p, q) /\ SameTime(p, q)
    /\ \A p \in PE : IF pc[p] \in Passing THEN pass[p] < NPASSES ELSE pass[p] = NPASSES

\* What q has sent and p has not taken: requests, answers, news.
RequestsDue(q, p) ==
  \/ pc[q] = "serve" /\ pc[p] \in {"refresh", "visit", "serve"}
  \/ pc[q] = "update" /\ pc[p] = "serve"
AnswersDue(q, p) ==
  \/ pc[q] = "update" /\ pc[p] \in {"serve", "update"}
  \/ pc[q] = "refresh" /\ pc[p] = "update"
NewsDue(q, p) ==
  \/ pc[q] \in {"refresh", "visit", "serve"} /\ pc[p] = "refresh"
  \/ pc[q] = "refresh" /\ pc[p] = "update"

Box(q, p) ==
  IF \/ RequestsDue(q, p) /\ AnswersDue(q, p)
     \/ AnswersDue(q, p) /\ NewsDue(q, p)
     \/ NewsDue(q, p) /\ RequestsDue(q, p)
  THEN chan[q][p] = <<chan[q][p][1], chan[q][p][2]>>
  ELSE IF RequestsDue(q, p) \/ AnswersDue(q, p) \/ NewsDue(q, p)
  THEN chan[q][p] = <<chan[q][p][1]>>
  ELSE chan[q][p] = <<>>
Boxes == \A p \in PE : \A q \in Nbrs(p) : pc[p] \in Passing /\ pc[q] \in Passing => Box(q, p)

RequestsOf(q, p) == chan[q][p][IF pc[p] = "refresh" THEN 2 ELSE 1]
AnswersOf(q, p)  == chan[q][p][IF pc[p] = "serve" THEN 2 ELSE 1]

\* A vertex that waits for an answer is asked for once in the list.
Asks1(q, m) ==
  /\ m \in Seq([key : Values, val : Own(q)])
  /\ \A i \in 1..Len(m) : M(m[i].val) = MAYBE_MATCHED
  /\ \A i, j \in 1..Len(m) : m[i].val = m[j].val => i = j
Fits(k, v) == v \in Adj[k] /\ Home[v] = Home[k]

GoodRequests(q, p, m) ==
  /\ Asks1(q, m)
  /\ \A i \in 1..Len(m) : m[i].key \in Own(p) /\ Fits(m[i].key, m[i].val)

\* k has been given to val, and the answer says whether the asker keeps the coarse vertex.
Grants(p, r) ==
  LET k == Partner(r.key) IN
  k \in Own(p) /\ Fits(k, r.val) /\ M(k) = Kept(r.val, ~Keeps(r.key))
\* From p to q.
GoodAnswers(p, q, m) ==
  /\ Asks1(q, m)
  /\ \A i \in 1..Len(m) : m[i].key # UNMATCHED => Grants(p, m[i])

Messages ==
  \A p \in PE : \A q \in Nbrs(p) :
    /\ RequestsDue(q, p) => GoodRequests(q, p, RequestsOf(q, p))
    /\ AnswersDue(p, q) => GoodAnswers(p, q, AnswersOf(p, q))

\* The requests a PE has collected.
Collected ==
  \A q \in PE :
    /\ pc[q] # "visit" => requests[q] = {}
    /\ \A r \in requests[q] :
         /\ Fits(r.key, r.val)
         /\ match[q][r.key] = MAYBE_MATCHED /\ match[q][r.val] = MAYBE_MATCHED
    /\ \A r, s \in requests[q] : r.key = s.key \/ r.val = s.val => r = s

\* The vertices of q whose request p has to answer, or has answered.
Vals(m) == {m[i].val : i \in 1..Len(m)}
Asking(q, p) ==
  IF pc[q] = "visit" THEN {r.val : r \in {s \in requests[q] : Owner[s.key] = p}}
  ELSE IF RequestsDue(q, p) THEN Vals(RequestsOf(q, p))
  ELSE IF AnswersDue(p, q) THEN Vals(AnswersOf(p, q))
  ELSE {}

\* Every vertex that waits for an answer will get exactly one.
AskedOnce ==
  \A q \in PE : \A v \in Own(q) : M(v) = MAYBE_MATCHED =>
    \E p \in Nbrs(q) : /\ v \in Asking(q, p)
                       /\ \A o \in Nbrs(q) : v \in Asking(q, o) => o = p

Agreed(v) ==
  LET u == Partner(M(v)) IN
  /\ u \in Vertex /\ Matched(M(u)) /\ Partner(M(u)) = v
  /\ u = v => Keeps(M(v))
  /\ u # v => Keeps(M(u)) = ~Keeps(M(v))
  /\ u # v /\ Local(u, v) => (Keeps(M(v)) <=> v < u)
  /\ ~Local(u, v) => u \in Adj[v]
  /\ ~twohop \/ mtype = "local" => Home[u] = Home[v]

\* v has been given to its partner, which the answer has not reached yet.
Granted(v) ==
  LET u == Partner(M(v)) IN
  /\ u \in Vertex /\ ~Local(u, v) /\ Owner[u] \in Nbrs(Owner[v])
  /\ AnswersDue(Owner[v], Owner[u])
  /\ \E i \in 1..Len(AnswersOf(Owner[v], Owner[u])) :
       AnswersOf(Owner[v], Owner[u])[i] = [key |-> Kept(v, ~Keeps(M(v))), val |-> u]

Mated == \A v \in Vertex : Matched(M(v)) => Agreed(v) \/ Granted(v)

\* Heavy vertices stay alone.
Alone ==
  \A v \in heavy \intersect Vertex :
    IF mtype = "local" THEN M(v) \in {UNMATCHED, v + KeepBit}
    ELSE M(v) = TOO_HEAVY \/ (pc[Owner[v]] = "done" /\ M(v) = v + KeepBit)
Over == \A p \in PE : pc[p] = "done" => \A v \in Own(p) : Matched(M(v))

\* The traversal order: who is still in it knows its place.
Live(p) == {perm[p][j] : j \in (nmatched[p] + 1)..nvtxs[p]}
Placed ==
  /\ perm = [p \in PE |-> perm[p]] /\ iperm = [p \in PE |-> iperm[p]]
  /\ nmatched \in [PE -> Nat] /\ ii \in [PE -> Nat \ {0}] /\ last \in [PE -> Nat \ {0}]
  /\ \A p \in PE :
       /\ perm[p] \in [1..nvtxs[p] -> Own(p)]
       /\ iperm[p] \in [Own(p) -> 1..nvtxs[p]]
       /\ pc[p] \in {"visit", "hop"} => ii[p] > nmatched[p] /\ last[p] > nmatched[p]
       /\ \A j \in (nmatched[p] + 1)..nvtxs[p] : iperm[p][perm[p][j]] = j

\* changed lists matched vertices, none of them twice.
Listed ==
  /\ changed = [p \in PE |-> changed[p]]
  /\ \A p \in PE :
       /\ changed[p] \in Seq(Own(p))
       /\ \A i \in 1..Len(changed[p]) : Matched(M(changed[p][i]))
       /\ \A i, j \in 1..Len(changed[p]) : changed[p][i] = changed[p][j] => i = j

\* Who is not matched is still in the order, and until the order is brought up
\* to date so is who has been matched in this pass.
Remembered ==
  \A p \in PE :
    /\ pc[p] \in Passing \union {"hop"} => \A v \in Own(p) : ~Matched(M(v)) => v \in Live(p)
    /\ pc[p] \in {"visit", "serve", "update", "hop"} =>
         \A i \in 1..Len(changed[p]) : changed[p][i] \in Live(p)
    /\ pc[p] \in {"local", "localRefresh"} =>
         /\ Live(p) = Own(p) /\ nmatched[p] = 0
         /\ \A j \in 1..nvtxs[p] : j < ii[p] \/ pc[p] = "localRefresh" => Matched(M(perm[p][j]))
         /\ \A v \in Own(p) : M(v) = UNMATCHED \/ Matched(M(v))

IInv ==
  /\ Typed
  /\ Together
  /\ NotAhead
  /\ Boxes
  /\ Messages
  /\ Collected
  /\ AskedOnce
  /\ Mated
  /\ Alone
  /\ Over
  /\ Placed
  /\ Listed
  /\ Remembered

-----------------------------------------------------------------------------
(* The values of match.                                                    *)

LEMMA VertexIs == \A v \in Vertex : v \in Nat /\ v < KeepBit /\ KeepBit \in Nat
BY VertexAssumption, KeepAssumption

LEMMA KeptIs ==
  ASSUME NEW v \in Vertex, NEW b \in BOOLEAN
  PROVE  /\ Kept(v, b) \in Values /\ Kept(v, b) \in Int /\ Matched(Kept(v, b))
         /\ Partner(Kept(v, b)) = v /\ Keeps(Kept(v, b)) = b
         /\ Kept(v, b) \notin {UNMATCHED, MAYBE_MATCHED, TOO_HEAVY}
<1>1. v \in Nat /\ v < KeepBit /\ KeepBit \in Nat
  BY VertexIs
<1>2. v + 0 = v /\ v + KeepBit >= KeepBit /\ (v + KeepBit) - KeepBit = v
  BY <1>1
<1>3. CASE b
  <2> DEFINE x == v + KeepBit
  <2>1. x \in Int /\ x >= KeepBit /\ x >= 0 /\ x - KeepBit = v /\ x # -1 /\ x # -2 /\ x # -3
    BY <1>1
  <2>2. Kept(v, b) = x /\ b = TRUE /\ x \in Values
    BY <1>3 DEF Kept, Values
  <2> HIDE DEF x
  <2>3. Keeps(x) = TRUE /\ Partner(x) = v /\ Matched(x) /\ x \notin {UNMATCHED, MAYBE_MATCHED, TOO_HEAVY}
    BY <2>1 DEF Matched, Partner, Keeps, UNMATCHED, MAYBE_MATCHED, TOO_HEAVY
  <2> QED BY <2>1, <2>2, <2>3
<1>4. CASE ~b
  BY <1>1, <1>2, <1>4 DEF Kept, Values, Matched, Partner, Keeps, UNMATCHED, MAYBE_MATCHED, TOO_HEAVY
<1> QED BY <1>3, <1>4

LEMMA MarksAre ==
  /\ ~Matched(UNMATCHED) /\ ~Matched(MAYBE_MATCHED) /\ ~Matched(TOO_HEAVY)
  /\ UNMATCHED # MAYBE_MATCHED /\ UNMATCHED # TOO_HEAVY /\ MAYBE_MATCHED # TOO_HEAVY
  /\ UNMATCHED \in Values /\ MAYBE_MATCHED \in Values /\ TOO_HEAVY \in Values
BY DEF Matched, UNMATCHED, MAYBE_MATCHED, TOO_HEAVY, Values

\* What is not matched is one of the marks.
LEMMA ValuesAre ==
  ASSUME NEW x \in Values
  PROVE  Matched(x) \/ x \in {UNMATCHED, MAYBE_MATCHED, TOO_HEAVY}
BY VertexIs DEF Matched, Values

-----------------------------------------------------------------------------
(* Serving: the loop over the requests of one neighbour and the loop over  *)
(* the neighbours.                                                         *)

Due(q, p) == Head(chan[q][p])
Held(p) == Values \union {match[p][v] : v \in Ghosts(p)}
Answer == [key : Values, val : Vertex]
Serving(p) == [match : [Own(p) \union Ghosts(p) -> Held(p)], nkept : Int,
               changed : Seq(Own(p)), list : [Nbrs(p) -> Seq(Answer)]]

\* What one request does.
Refused(st, new, q, r) ==
  /\ st.match[r.key] # UNMATCHED /\ new.match = st.match /\ new.changed = st.changed
  /\ new.list = [st.list EXCEPT ![q] = Append(@, [key |-> UNMATCHED, val |-> r.val])]
Given(st, new, q, r, b) ==
  /\ st.match[r.key] = UNMATCHED /\ new.match = [st.match EXCEPT ![r.key] = Kept(r.val, b)]
  /\ new.changed = Append(st.changed, r.key)
  /\ new.list = [st.list EXCEPT ![q] = Append(@, [key |-> Kept(r.key, ~b), val |-> r.val])]

LEMMA ServeOneIs ==
  ASSUME NEW p \in PE, NEW st \in Serving(p), NEW q \in Nbrs(p), NEW r \in [key : Own(p), val : Vertex]
  PROVE  /\ ServeOne(st, q, r) \in Serving(p)
         /\ \/ Refused(st, ServeOne(st, q, r), q, r)
            \/ \E b \in BOOLEAN : Given(st, ServeOne(st, q, r), q, r, b)
<1> DEFINE new == ServeOne(st, q, r)
<1>1. /\ r.key \in Own(p) /\ r.key \in Vertex /\ r.val \in Vertex /\ r = [key |-> r.key, val |-> r.val]
      /\ st = [match |-> st.match, nkept |-> st.nkept, changed |-> st.changed, list |-> st.list]
      /\ st.match \in [Own(p) \union Ghosts(p) -> Held(p)] /\ st.nkept \in Int
      /\ st.changed \in Seq(Own(p)) /\ st.list \in [Nbrs(p) -> Seq(Answer)]
  BY OwnIs DEF Serving
<1> HIDE DEF Serving
<1>2. \A a \in Answer : [st.list EXCEPT ![q] = Append(@, a)] \in [Nbrs(p) -> Seq(Answer)]
  BY <1>1, AppendProperties
<1>3. \A b \in BOOLEAN : /\ [st.match EXCEPT ![r.key] = Kept(r.val, b)] \in [Own(p) \union Ghosts(p) -> Held(p)]
                         /\ [key |-> Kept(r.key, ~b), val |-> r.val] \in Answer
  <2> SUFFICES ASSUME NEW b \in BOOLEAN
               PROVE  /\ [st.match EXCEPT ![r.key] = Kept(r.val, b)] \in [Own(p) \union Ghosts(p) -> Held(p)]
                      /\ [key |-> Kept(r.key, ~b), val |-> r.val] \in Answer
    OBVIOUS
  <2>1. Kept(r.val, b) \in Values /\ Kept(r.key, ~b) \in Values
    BY <1>1, KeptIs
  <2>2. Kept(r.val, b) \in Held(p)
    BY <2>1 DEF Held
  <2> QED BY <1>1, <2>1, <2>2 DEF Answer
<1>4. Append(st.changed, r.key) \in Seq(Own(p))
  BY <1>1, AppendProperties
<1>5. ASSUME NEW m, NEW k, NEW c, NEW l,
             m \in [Own(p) \union Ghosts(p) -> Held(p)], k \in Int,
             c \in Seq(Own(p)), l \in [Nbrs(p) -> Seq(Answer)]
      PROVE  [match |-> m, nkept |-> k, changed |-> c, list |-> l] \in Serving(p)
  BY <1>5 DEF Serving
<1>6. CASE st.match[r.key] # UNMATCHED
  <2> DEFINE l == [st.list EXCEPT ![q] = Append(@, [key |-> UNMATCHED, val |-> r.val])]
  <2>1. new = [match |-> st.match, nkept |-> st.nkept, changed |-> st.changed, list |-> l]
    <3>1. [r EXCEPT !.key = UNMATCHED] = [key |-> UNMATCHED, val |-> r.val]
      BY <1>1
    <3> HIDE DEF Answer
    <3>2. new = [st EXCEPT !.list[q] = Append(@, [key |-> UNMATCHED, val |-> r.val])]
      BY <1>6, <3>1 DEF ServeOne
    <3> QED BY <1>1, <3>2
  <2>2. l \in [Nbrs(p) -> Seq(Answer)]
    <3>1. [key |-> UNMATCHED, val |-> r.val] \in Answer
      BY <1>1, MarksAre DEF Answer
    <3> QED BY <1>2, <3>1
  <2> HIDE DEF l, new
  <2>3. new \in Serving(p)
    BY <1>1, <1>5, <2>1, <2>2
  <2>4. Refused(st, new, q, r)
    BY <1>6, <2>1 DEF Refused, l
  <2> QED BY <2>3, <2>4 DEF new
<1>7. ASSUME NEW b \in BOOLEAN, NEW k \in Int,
             new = [match |-> [st.match EXCEPT ![r.key] = Kept(r.val, b)], nkept |-> k,
                    changed |-> Append(st.changed, r.key),
                    list |-> [st.list EXCEPT ![q] = Append(@, [key |-> Kept(r.key, ~b), val |-> r.val])]],
             st.match[r.key] = UNMATCHED
      PROVE  new \in Serving(p) /\ Given(st, new, q, r, b)
  <2> DEFINE m == [st.match EXCEPT ![r.key] = Kept(r.val, b)]
             l == [st.list EXCEPT ![q] = Append(@, [key |-> Kept(r.key, ~b), val |-> r.val])]
             c == Append(st.changed, r.key)
  <2>1. m \in [Own(p) \union Ghosts(p) -> Held(p)] /\ l \in [Nbrs(p) -> Seq(Answer)] /\ c \in Seq(Own(p))
    BY <1>2, <1>3, <1>4
  <2>2. new = [match |-> m, nkept |-> k, changed |-> c, list |-> l]
    BY <1>7
  <2> HIDE DEF m, l, c, new
  <2>3. new \in Serving(p)
    BY <1>5, <2>1, <2>2
  <2>4. Given(st, new, q, r, b)
    BY <1>7, <2>2 DEF Given, m, l, c
  <2> QED BY <2>3, <2>4
<1>8. CASE st.match[r.key] = UNMATCHED /\ st.nkept >= 0
  <2>1. new = [st EXCEPT !.list[q] = Append(@, r), !.nkept = @ - 1,
                  !.match[r.key] = r.val + KeepBit, !.changed = Append(@, r.key)]
    BY <1>8 DEF ServeOne
  <2>2. Kept(r.val, TRUE) = r.val + KeepBit /\ Kept(r.key, ~TRUE) = r.key
    BY <1>1, VertexIs DEF Kept
  <2>3. new = [match |-> [st.match EXCEPT ![r.key] = Kept(r.val, TRUE)], nkept |-> st.nkept - 1,
               changed |-> Append(st.changed, r.key),
               list |-> [st.list EXCEPT ![q] = Append(@, [key |-> Kept(r.key, ~TRUE), val |-> r.val])]]
    BY <1>1, <2>1, <2>2
  <2> HIDE DEF new
  <2>4. st.nkept - 1 \in Int
    BY <1>1
  <2> QED BY <1>7, <1>8, <2>3, <2>4 DEF new
<1>9. CASE st.match[r.key] = UNMATCHED /\ ~(st.nkept >= 0)
  <2>1. new = [st EXCEPT !.list[q] = Append(@, [r EXCEPT !.key = @ + KeepBit]), !.nkept = @ + 1,
                  !.match[r.key] = r.val, !.changed = Append(@, r.key)]
    BY <1>9 DEF ServeOne
  <2>2. Kept(r.val, FALSE) = r.val /\ Kept(r.key, ~FALSE) = r.key + KeepBit
        /\ [r EXCEPT !.key = @ + KeepBit] = [key |-> r.key + KeepBit, val |-> r.val]
    <3>1. Kept(r.val, FALSE) = r.val /\ Kept(r.key, ~FALSE) = r.key + KeepBit
      BY <1>1, VertexIs DEF Kept
    <3>2. [r EXCEPT !.key = @ + KeepBit] = [key |-> r.key + KeepBit, val |-> r.val]
      BY <1>1
    <3> QED BY <3>1, <3>2
  <2>3. new = [match |-> [st.match EXCEPT ![r.key] = Kept(r.val, FALSE)], nkept |-> st.nkept + 1,
               changed |-> Append(st.changed, r.key),
               list |-> [st.list EXCEPT ![q] = Append(@, [key |-> Kept(r.key, ~FALSE), val |-> r.val])]]
    <3> DEFINE a == [r EXCEPT !.key = @ + KeepBit]
    <3>1. a = [key |-> Kept(r.key, ~FALSE), val |-> r.val]
      BY <2>2
    <3>2. new = [st EXCEPT !.list[q] = Append(@, a), !.nkept = @ + 1,
                    !.match[r.key] = r.val, !.changed = Append(@, r.key)]
      BY <2>1
    <3> HIDE DEF a, new
    <3>3. new = [match |-> [st.match EXCEPT ![r.key] = r.val], nkept |-> st.nkept + 1,
                 changed |-> Append(st.changed, r.key), list |-> [st.list EXCEPT ![q] = Append(@, a)]]
      BY <1>1, <3>2
    <3> QED BY <2>2, <3>1, <3>3
  <2> HIDE DEF new
  <2>4. st.nkept + 1 \in Int
    BY <1>1
  <2> QED BY <1>7, <1>9, <2>3, <2>4 DEF new
<1> QED BY <1>6, <1>8, <1>9

-----------------------------------------------------------------------------
(* The lists of changed vertices.                                          *)

\* A list c of matched vertices that are still in the order, none of them twice.
Fresh(p, m, c) ==
  /\ c \in Seq(Own(p))
  /\ \A i \in 1..Len(c) : Matched(m[c[i]]) /\ c[i] \in Live(p)
  /\ \A i, j \in 1..Len(c) : c[i] = c[j] => i = j

LEMMA FreshAdds ==
  ASSUME NEW p, NEW m, NEW c, Fresh(p, m, c), NEW v \in Own(p), v \in Live(p), ~Matched(m[v]),
         NEW new, Matched(new[v]), \A u \in Own(p) : u # v => new[u] = m[u]
  PROVE  Fresh(p, new, Append(c, v))
<1> DEFINE d == Append(c, v)
<1>1. /\ Len(c) \in Nat /\ d \in Seq(Own(p)) /\ Len(d) = Len(c) + 1 /\ d[Len(c) + 1] = v
      /\ \A i \in 1..Len(c) : d[i] = c[i] /\ c[i] \in Own(p) /\ c[i] # v
  BY AppendProperties, LenProperties, ElementOfSeq DEF Fresh
<1> HIDE DEF d
<1>2. \A i \in 1..Len(d) : i \in 1..Len(c) \/ (i = Len(c) + 1 /\ d[i] = v)
  BY <1>1
<1>3. \A i \in 1..Len(d) : Matched(new[d[i]]) /\ d[i] \in Live(p)
  BY <1>1, <1>2 DEF Fresh
<1>4. \A i, j \in 1..Len(d) : d[i] = d[j] => i = j
  BY <1>1, <1>2 DEF Fresh
<1> QED BY <1>1, <1>3, <1>4 DEF Fresh, d

-----------------------------------------------------------------------------
(* What holds while p serves.                                              *)

\* The answer a to request r, when p's own vertices have the matches m.
Answered(m, a, r) ==
  /\ a.val = r.val
  /\ a.key = UNMATCHED \/ \E b \in BOOLEAN : a.key = Kept(r.key, ~b) /\ m[r.key] = Kept(r.val, b)

Served(p, st) ==
  /\ st \in Serving(p)
  /\ \A q \in Nbrs(p) :
       /\ Len(st.list[q]) <= Len(Due(q, p))
       /\ \A i \in 1..Len(st.list[q]) : Answered(st.match, st.list[q][i], Due(q, p)[i])
  /\ \A v \in Own(p) : st.match[v] # match[p][v] =>
       /\ match[p][v] = UNMATCHED
       /\ \E q \in Nbrs(p) : \E i \in 1..Len(st.list[q]) :
            st.list[q][i].key # UNMATCHED /\ Due(q, p)[i].key = v
  /\ \A v \in Ghosts(p) : st.match[v] = match[p][v]
  /\ Fresh(p, st.match, st.changed)

\* What p can count on when it starts to serve.
CanServe(p) ==
  /\ \A q \in Nbrs(p) : Due(q, p) \in Seq([key : Own(p), val : Vertex])
  /\ \A v \in Own(p) : match[p][v] = UNMATCHED => v \in Live(p)

LEMMA OwnNotGhost == \A p \in PE : Own(p) \intersect Ghosts(p) = {}
BY GhostsAre, OwnIs

LEMMA ServedStep ==
  ASSUME NEW p \in PE, CanServe(p), NEW st, Served(p, st), NEW q \in Nbrs(p),
         NEW k, k = Len(st.list[q]) + 1, k \in 1..Len(Due(q, p)), NEW r, r = Due(q, p)[k],
         NEW new, new = ServeOne(st, q, r)
  PROVE  /\ Served(p, new)
         /\ \A o \in Nbrs(p) : Len(new.list[o]) = IF o = q THEN k ELSE Len(st.list[o])
<1> DEFINE n == Len(st.list[q])
<1>1. /\ st \in Serving(p) /\ st.list \in [Nbrs(p) -> Seq(Answer)]
      /\ st.match \in [Own(p) \union Ghosts(p) -> Held(p)]
      /\ \A o \in Nbrs(p) : st.list[o] \in Seq(Answer) /\ Len(st.list[o]) \in Nat /\ Len(Due(o, p)) \in Nat
  BY LenProperties DEF Served, Serving, CanServe
<1>2. n \in Nat /\ k \in 1..Len(Due(q, p)) /\ k = n + 1
  BY <1>1
<1>3. r \in [key : Own(p), val : Vertex] /\ r.key \in Own(p) /\ r.key \in Vertex /\ r.val \in Vertex
  <2>1. r \in [key : Own(p), val : Vertex]
    BY <1>2, ElementOfSeq DEF CanServe
  <2> QED BY <2>1, OwnIs
<1>4. new \in Serving(p) /\ (Refused(st, new, q, r) \/ \E b \in BOOLEAN : Given(st, new, q, r, b))
  BY <1>1, <1>3, ServeOneIs
<1>5. ASSUME NEW a \in Answer, new.list = [st.list EXCEPT ![q] = Append(@, a)]
      PROVE  /\ \A o \in Nbrs(p) : Len(new.list[o]) = IF o = q THEN k ELSE Len(st.list[o])
             /\ \A o \in Nbrs(p) : Len(new.list[o]) <= Len(Due(o, p))
             /\ \A o \in Nbrs(p) : \A i \in 1..Len(new.list[o]) :
                  i \in 1..Len(st.list[o]) \/ (o = q /\ i = k)
             /\ \A o \in Nbrs(p) : \A i \in 1..Len(st.list[o]) :
                  i \in 1..Len(new.list[o]) /\ new.list[o][i] = st.list[o][i]
             /\ k \in 1..Len(new.list[q]) /\ new.list[q][k] = a
  <2>1. /\ Len(Append(st.list[q], a)) = k /\ Append(st.list[q], a)[k] = a
        /\ \A i \in 1..n : Append(st.list[q], a)[i] = st.list[q][i]
    BY <1>1, AppendProperties
  <2>2. new.list[q] = Append(st.list[q], a) /\ \A o \in Nbrs(p) : o # q => new.list[o] = st.list[o]
    BY <1>1, <1>5
  <2>3. \A o \in Nbrs(p) : Len(st.list[o]) <= Len(Due(o, p))
    BY DEF Served
  <2> HIDE DEF n
  <2>4. Len(new.list[q]) = k /\ new.list[q][k] = a /\ k \in 1..Len(new.list[q])
        /\ \A i \in 1..n : new.list[q][i] = st.list[q][i]
    BY <1>2, <2>1, <2>2
  <2>5. n = Len(st.list[q])
    BY DEF n
  <2>6. \A o \in Nbrs(p) : Len(new.list[o]) = (IF o = q THEN k ELSE Len(st.list[o]))
                          /\ Len(new.list[o]) <= Len(Due(o, p))
    <3> SUFFICES ASSUME NEW o \in Nbrs(p)
                 PROVE  Len(new.list[o]) = (IF o = q THEN k ELSE Len(st.list[o]))
                        /\ Len(new.list[o]) <= Len(Due(o, p))
      OBVIOUS
    <3>1. CASE o = q
      BY <1>2, <2>4, <2>5, <3>1
    <3>2. CASE o # q
      BY <1>1, <2>2, <2>3, <3>2
    <3> QED BY <3>1, <3>2
  <2>7. ASSUME NEW o \in Nbrs(p)
        PROVE  /\ \A i \in 1..Len(new.list[o]) : i \in 1..Len(st.list[o]) \/ (o = q /\ i = k)
               /\ \A i \in 1..Len(st.list[o]) :
                    i \in 1..Len(new.list[o]) /\ new.list[o][i] = st.list[o][i]
    <3>1. CASE o = q
      BY <1>2, <2>4, <2>5, <3>1
    <3>2. CASE o # q
      BY <2>2, <3>2
    <3> QED BY <3>1, <3>2
  <2> QED BY <2>4, <2>6, <2>7
<1>6. CASE Refused(st, new, q, r)
  <2> DEFINE a == [key |-> UNMATCHED, val |-> r.val]
  <2>1. a \in Answer /\ new.list = [st.list EXCEPT ![q] = Append(@, a)] /\ Answered(new.match, a, r)
        /\ a.key = UNMATCHED
    BY <1>3, <1>6, MarksAre DEF Answer, Refused, Answered
  <2>2. new.match = st.match /\ new.changed = st.changed
    BY <1>6 DEF Refused
  <2> HIDE DEF a
  <2>3. \A o \in Nbrs(p) : \A i \in 1..Len(new.list[o]) : Answered(new.match, new.list[o][i], Due(o, p)[i])
    BY <1>5, <2>1, <2>2 DEF Served
  <2>4. \A v \in Own(p) : new.match[v] # match[p][v] =>
          /\ match[p][v] = UNMATCHED
          /\ \E o \in Nbrs(p) : \E i \in 1..Len(new.list[o]) :
               new.list[o][i].key # UNMATCHED /\ Due(o, p)[i].key = v
    <3> SUFFICES ASSUME NEW v \in Own(p), new.match[v] # match[p][v]
                 PROVE  /\ match[p][v] = UNMATCHED
                        /\ \E o \in Nbrs(p) : \E i \in 1..Len(new.list[o]) :
                             new.list[o][i].key # UNMATCHED /\ Due(o, p)[i].key = v
      OBVIOUS
    <3>1. match[p][v] = UNMATCHED
          /\ \E o \in Nbrs(p) : \E i \in 1..Len(st.list[o]) :
               st.list[o][i].key # UNMATCHED /\ Due(o, p)[i].key = v
      BY <2>2 DEF Served
    <3> QED BY <3>1, <1>5, <2>1
  <2>5. Fresh(p, new.match, new.changed) /\ \A v \in Ghosts(p) : new.match[v] = match[p][v]
    BY <2>2 DEF Served
  <2> QED BY <1>4, <1>5, <2>1, <2>3, <2>4, <2>5 DEF Served
<1>7. ASSUME NEW b \in BOOLEAN, Given(st, new, q, r, b)
      PROVE  Served(p, new) /\ \A o \in Nbrs(p) : Len(new.list[o]) = IF o = q THEN k ELSE Len(st.list[o])
  <2> DEFINE a == [key |-> Kept(r.key, ~b), val |-> r.val]
  <2>1. new.list = [st.list EXCEPT ![q] = Append(@, a)] /\ a \in Answer /\ a.key = Kept(r.key, ~b)
        /\ a.val = r.val /\ a.key # UNMATCHED
    <3>1. Kept(r.key, ~b) \in Values /\ Kept(r.key, ~b) # UNMATCHED
      BY <1>3, KeptIs
    <3> QED BY <1>3, <1>7, <3>1 DEF Answer, Given
  <2>2. /\ st.match[r.key] = UNMATCHED /\ new.match[r.key] = Kept(r.val, b)
        /\ \A v \in Own(p) \union Ghosts(p) : v # r.key => new.match[v] = st.match[v]
        /\ new.changed = Append(st.changed, r.key)
    BY <1>1, <1>3, <1>7 DEF Given
  <2> HIDE DEF a
  <2>3. Answered(new.match, a, r)
    BY <2>1, <2>2 DEF Answered
  <2>4. \A o \in Nbrs(p) : \A i \in 1..Len(new.list[o]) : Answered(new.match, new.list[o][i], Due(o, p)[i])
    <3> SUFFICES ASSUME NEW o \in Nbrs(p), NEW i \in 1..Len(st.list[o])
                 PROVE  Answered(new.match, st.list[o][i], Due(o, p)[i])
      BY <1>5, <2>1, <2>3
    <3> DEFINE s == Due(o, p)[i]
    <3>1. Answered(st.match, st.list[o][i], s)
      BY DEF Served
    <3>2. s \in [key : Own(p), val : Vertex]
      <4>1. i \in 1..Len(Due(o, p))
        BY <1>1 DEF Served
      <4> QED BY <4>1, ElementOfSeq DEF CanServe
    <3> HIDE DEF s
    <3>3. ASSUME NEW c \in BOOLEAN, st.match[s.key] = Kept(s.val, c)
          PROVE  new.match[s.key] = Kept(s.val, c)
      <4>1. st.match[s.key] # UNMATCHED
        BY <3>2, <3>3, KeptIs
      <4> QED BY <2>2, <3>2, <3>3, <4>1
    <3>4. Answered(new.match, st.list[o][i], s)
      BY <3>1, <3>3 DEF Answered
    <3> QED BY <3>4 DEF s
  <2>5. r.key \in Live(p) /\ match[p][r.key] = UNMATCHED
    <3>1. match[p][r.key] = UNMATCHED
      BY <1>3, <2>2 DEF Served
    <3> QED BY <1>3, <3>1 DEF CanServe
  <2>6. \A v \in Own(p) : new.match[v] # match[p][v] =>
          /\ match[p][v] = UNMATCHED
          /\ \E o \in Nbrs(p) : \E i \in 1..Len(new.list[o]) :
               new.list[o][i].key # UNMATCHED /\ Due(o, p)[i].key = v
    <3> SUFFICES ASSUME NEW v \in Own(p), new.match[v] # match[p][v]
                 PROVE  /\ match[p][v] = UNMATCHED
                        /\ \E o \in Nbrs(p) : \E i \in 1..Len(new.list[o]) :
                             new.list[o][i].key # UNMATCHED /\ Due(o, p)[i].key = v
      OBVIOUS
    <3>1. CASE v = r.key
      <4>1. q \in Nbrs(p) /\ k \in 1..Len(new.list[q]) /\ new.list[q][k].key # UNMATCHED
            /\ Due(q, p)[k].key = v
        BY <1>5, <2>1, <3>1
      <4>2. match[p][v] = UNMATCHED
        BY <2>5, <3>1
      <4>3. \E i \in 1..Len(new.list[q]) : new.list[q][i].key # UNMATCHED /\ Due(q, p)[i].key = v
        BY <4>1, Zenon
      <4> QED BY <4>1, <4>2, <4>3, Zenon
    <3>2. CASE v # r.key
      <4>1. match[p][v] = UNMATCHED
            /\ \E o \in Nbrs(p) : \E i \in 1..Len(st.list[o]) :
                 st.list[o][i].key # UNMATCHED /\ Due(o, p)[i].key = v
        BY <2>2, <3>2 DEF Served
      <4> QED BY <4>1, <1>5, <2>1
    <3> QED BY <3>1, <3>2
  <2>7. \A v \in Ghosts(p) : new.match[v] = match[p][v]
    BY <1>3, <2>2, OwnNotGhost DEF Served
  <2>8. Fresh(p, new.match, new.changed)
    <3>1. Fresh(p, st.match, st.changed)
      BY DEF Served
    <3>2. ~Matched(st.match[r.key]) /\ Matched(new.match[r.key])
      BY <1>3, <2>2, MarksAre, KeptIs
    <3>3. \A u \in Own(p) : u # r.key => new.match[u] = st.match[u]
      BY <2>2
    <3>4. Fresh(p, new.match, Append(st.changed, r.key))
      BY <1>3, <2>5, <3>1, <3>2, <3>3, FreshAdds
    <3> QED BY <2>2, <3>4
  <2> QED BY <1>4, <1>5, <2>1, <2>4, <2>6, <2>7, <2>8 DEF Served
<1> QED BY <1>4, <1>6, <1>7

\* The states of the loop over the requests of q, by the requests it has been at.
ServeStates(g, q, base, reqs, S) ==
  g = [s \in SUBSET S |-> IF s = {} THEN base ELSE ServeOne(g[s \ {Max(s)}], q, reqs[Max(s)])]

LEMMA ServeStatesAre ==
  \A g, q, base, reqs, S : ServeStates(g, q, base, reqs, S) <=>
    /\ g = [s \in SUBSET S |-> g[s]]
    /\ \A s \in SUBSET S : g[s] = IF s = {} THEN base ELSE ServeOne(g[s \ {Max(s)}], q, reqs[Max(s)])
BY DEF ServeStates

LEMMA ServeListIsFold ==
  \A st, q, reqs :
    ServeList(st, q, reqs) = (CHOOSE g : ServeStates(g, q, st, reqs, DOMAIN reqs))[DOMAIN reqs]
BY DEF ServeList, FoldLeft, MapThenFoldSet, ServeStates

LEMMA ServeListFound ==
  ASSUME NEW n \in Nat, NEW g, NEW q, NEW st, NEW reqs, DOMAIN reqs = 1..n, ServeStates(g, q, st, reqs, 1..n)
  PROVE  ServeList(st, q, reqs) = g[1..n]
<1>1. ASSUME NEW h, ServeStates(h, q, st, reqs, 1..n) PROVE h = g
  <2>1. OfIndices(h, n) /\ OfIndices(g, n)
    BY <1>1, ServeStatesAre DEF OfIndices
  <2>2. ASSUME NEW s \in SUBSET (1..n), s = {} \/ h[s \ {Max(s)}] = g[s \ {Max(s)}] PROVE h[s] = g[s]
    <3>1. /\ h[s] = IF s = {} THEN st ELSE ServeOne(h[s \ {Max(s)}], q, reqs[Max(s)])
          /\ g[s] = IF s = {} THEN st ELSE ServeOne(g[s \ {Max(s)}], q, reqs[Max(s)])
      BY <1>1, ServeStatesAre
    <3> QED BY <2>2, <3>1
  <2>3. AgreeUpTo(h, g, n)
    BY <2>2 DEF AgreeUpTo
  <2> QED BY <2>1, <2>3, FoldUnique
<1>2. (CHOOSE h : ServeStates(h, q, st, reqs, 1..n)) = g
  BY <1>1, Zenon
<1> QED BY <1>2, ServeListIsFold

LEMMA ServeListIs ==
  ASSUME NEW p \in PE, CanServe(p), NEW st, Served(p, st), NEW q \in Nbrs(p), Len(st.list[q]) = 0
  PROVE  LET new == ServeList(st, q, Due(q, p)) IN
         /\ Served(p, new)
         /\ \A o \in Nbrs(p) : Len(new.list[o]) = IF o = q THEN Len(Due(q, p)) ELSE Len(st.list[o])
<1> DEFINE reqs == Due(q, p)
           n == Len(reqs)
           D == Serving(p)
           next == [i \in 1..n |-> [d \in D |-> ServeOne(d, q, reqs[i])]]
           Upto(d, k) == /\ Served(p, d)
                         /\ \A o \in Nbrs(p) : Len(d.list[o]) = IF o = q THEN k ELSE Len(st.list[o])
           U == [k \in 0..n |-> {d \in D : Upto(d, k)}]
<1>1. n \in Nat /\ DOMAIN reqs = 1..n /\ \A i \in 1..n : reqs[i] \in [key : Own(p), val : Vertex]
  <2>1. reqs \in Seq([key : Own(p), val : Vertex])
    BY DEF CanServe
  <2> HIDE DEF reqs
  <2> QED BY <2>1, LenProperties, ElementOfSeq
<1>2. \A k \in 0..n : \A d : d \in U[k] <=> d \in D /\ Upto(d, k)
  OBVIOUS
<1>3. \A i \in 1..n : \A d \in D : ServeOne(d, q, reqs[i]) \in D
  BY <1>1, ServeOneIs
<1>4. next \in [1..n -> [D -> D]] /\ \A i \in 1..n : \A d \in D : next[i][d] = ServeOne(d, q, reqs[i])
  BY <1>3
<1>5. st \in D /\ Upto(st, 0)
  BY DEF Served
<1>6. \A o \in Nbrs(p) : Len(st.list[o]) \in Nat
  BY LenProperties DEF Served, Serving
<1> HIDE DEF U, next, n, D
<1>8. ASSUME NEW k \in 1..n, NEW d \in D, Upto(d, k - 1)
      PROVE  Upto(ServeOne(d, q, reqs[k]), k)
  <2>1. Served(p, d) /\ \A o \in Nbrs(p) : Len(d.list[o]) = IF o = q THEN k - 1 ELSE Len(st.list[o])
    BY <1>8
  <2>2. k = Len(d.list[q]) + 1 /\ k \in 1..Len(Due(q, p))
    BY <1>1, <2>1 DEF n
  <2> DEFINE new == ServeOne(d, q, reqs[k])
  <2>3. Served(p, new) /\ \A o \in Nbrs(p) : Len(new.list[o]) = IF o = q THEN k ELSE Len(d.list[o])
    BY <2>1, <2>2, ServedStep
  <2> QED BY <2>1, <2>3
<1> HIDE DEF Upto
<1>9. \A k \in 1..n : \A d \in D : d \in U[k - 1] => next[k][d] \in U[k]
  <2>1. \A k \in 1..n : k \in 0..n /\ k - 1 \in 0..n
    BY <1>1
  <2> QED BY <1>2, <1>3, <1>4, <1>8, <2>1
<1>10. st \in U[0]
  <2>1. 0 \in 0..n
    BY <1>1
  <2> QED BY <1>2, <1>5, <2>1
<1>11. PICK g \in [SUBSET (1..n) -> D] : Folding(g, n, st, next) /\ g[1..n] \in U[n]
  BY <1>1, <1>4, <1>5, <1>9, <1>10, FoldSteps
<1>12. ServeStates(g, q, st, reqs, 1..n)
  <2>1. g = [s \in SUBSET (1..n) |-> g[s]]
    OBVIOUS
  <2>2. ASSUME NEW s \in SUBSET (1..n)
        PROVE  g[s] = IF s = {} THEN st ELSE ServeOne(g[s \ {Max(s)}], q, reqs[Max(s)])
    <3>1. g[s] = IF s = {} THEN st ELSE next[Max(s)][g[s \ {Max(s)}]]
      BY <1>11 DEF Folding
    <3>2. s # {} => Max(s) \in 1..n /\ g[s \ {Max(s)}] \in D
      BY <1>1, LastIndex
    <3> QED BY <1>4, <3>1, <3>2
  <2> QED BY <2>1, <2>2, ServeStatesAre
<1>13. ServeList(st, q, reqs) = g[1..n]
  BY <1>1, <1>12, ServeListFound
<1>14. Upto(g[1..n], n)
  <2>1. n \in 0..n
    BY <1>1
  <2> QED BY <1>2, <1>11, <2>1
<1> QED BY <1>13, <1>14 DEF n, Upto

-----------------------------------------------------------------------------
(* Lists of the elements of a set.                                         *)

LEMMA SeqsAre ==
  ASSUME NEW S, IsFiniteSet(S), NEW s \in SetToSeqs(S)
  PROVE  /\ Cardinality(S) \in Nat /\ Len(s) = Cardinality(S) /\ DOMAIN s = 1..Cardinality(S)
         /\ s \in [1..Cardinality(S) -> S] /\ s \in Seq(S)
         /\ \A i, j \in 1..Cardinality(S) : s[i] = s[j] => i = j
         /\ \A x \in S : \E i \in 1..Cardinality(S) : s[i] = x
<1> DEFINE n == Cardinality(S)
<1>1. n \in Nat
  BY FS_CardinalityType
<1>2. s \in [1..n -> S] /\ \A i, j \in 1..n : s[i] = s[j] => i = j
  BY DEF SetToSeqs
<1>3. s \in Seq(S) /\ Len(s) = n
  BY <1>1, <1>2, SeqDef
<1>4. \A x \in S : \E i \in 1..n : s[i] = x
  <2>1. s \in Injection(1..n, S)
    BY <1>2 DEF Injection, IsInjective
  <2>2. Cardinality(1..n) = n
    BY <1>1, FS_Interval
  <2>3. s \in Surjection(1..n, S)
    BY <2>1, <2>2, FS_Injection
  <2> QED BY <2>3 DEF Surjection
<1> QED BY <1>1, <1>2, <1>3, <1>4

LEMMA Greatest ==
  ASSUME NEW S, IsFiniteSet(S), S \subseteq Int, S # {}
  PROVE  \E m \in S : \A k \in S : k <= m
<1> DEFINE Above(i) == {k \in S : k > i}
           T == {Above(i) : i \in S}
<1>1. PICK X \in T : \A Y \in T : ~(Y \subseteq X /\ Y # X)
  <2> DEFINE R == S
  <2>1. IsFiniteSet(R) /\ T \subseteq SUBSET R /\ T # {}
    OBVIOUS
  <2> HIDE DEF T, R
  <2>2. \E X \in T : \A Y \in T : ~(Y \subseteq X /\ Y # X)
    BY <2>1, MinimalSet
  <2> QED BY <2>2
<1>2. PICK m \in S : X = Above(m)
  OBVIOUS
<1>3. ASSUME NEW k \in S, k > m PROVE FALSE
  <2>1. \A j \in Above(k) : j \in Above(m)
    BY <1>3
  <2>2. k \in Above(m) /\ k \notin Above(k)
    BY <1>3
  <2>3. Above(k) \in T
    OBVIOUS
  <2> HIDE DEF Above, T
  <2> QED BY <2>1, <2>2, <2>3, <1>1, <1>2
<1>4. \A k \in S : k <= m
  BY <1>3
<1> QED BY <1>4

Sorted(s) == \A i, j \in DOMAIN s : i < j => s[i] < s[j]

LEMMA SortedExists ==
  ASSUME NEW S, IsFiniteSet(S), S \subseteq Int
  PROVE  \E s \in SetToSeqs(S) : Sorted(s)
<1> DEFINE G == {T \in SUBSET S : \E s \in SetToSeqs(T) : Sorted(s)}
<1>1. ASSUME NEW T \in SUBSET S, \A U \in SUBSET T : U # T => U \in G
      PROVE  T \in G
  <2>1. IsFiniteSet(T)
    BY FS_Subset
  <2>2. CASE T = {}
    <3>1. Cardinality(T) = 0
      BY <2>2, FS_EmptySet
    <3>2. <<>> \in SetToSeqs(T) /\ Sorted(<<>>)
      BY <3>1 DEF SetToSeqs, Sorted
    <3> QED BY <3>2
  <2>3. CASE T # {}
    <3>1. PICK m \in T : \A k \in T : k <= m
      BY <2>1, <2>3, Greatest
    <3> DEFINE R == T \ {m}
               n == Cardinality(R)
    <3>2. IsFiniteSet(R) /\ n \in Nat /\ Cardinality(T) = n + 1
      <4>1. IsFiniteSet(R) /\ Cardinality(R) = Cardinality(T) - 1
        BY <2>1, FS_RemoveElement
      <4>2. Cardinality(R) \in Nat /\ Cardinality(T) \in Nat
        BY <2>1, <4>1, FS_CardinalityType
      <4> QED BY <4>1, <4>2
    <3>3. PICK s \in SetToSeqs(R) : Sorted(s)
      BY <1>1
    <3>4. s \in [1..n -> R] /\ DOMAIN s = 1..n /\ \A i, j \in 1..n : s[i] = s[j] => i = j
      BY DEF SetToSeqs
    <3> DEFINE t == [i \in 1..(n + 1) |-> IF i = n + 1 THEN m ELSE s[i]]
    <3>5. \A k \in R : k \in Int /\ k < m /\ m \in Int
      BY <3>1
    <3> HIDE DEF n, R
    <3>6. \A i \in 1..(n + 1) : i \in 1..n \/ i = n + 1
      BY <3>2
    <3>7. \A i \in 1..n : t[i] = s[i] /\ s[i] \in R /\ i < n + 1 /\ i \in Int /\ i # n + 1
      BY <3>2, <3>4
    <3>8. t[n + 1] = m /\ DOMAIN t = 1..(n + 1)
      BY <3>2
    <3> HIDE DEF t
    <3>9. t \in [1..(n + 1) -> T]
      <4>1. \A i \in 1..(n + 1) : t[i] \in T
        BY <3>6, <3>7, <3>8 DEF R
      <4>2. t = [i \in 1..(n + 1) |-> t[i]]
        BY DEF t
      <4> QED BY <4>1, <4>2
    <3>10. \A i, j \in 1..(n + 1) : i # j => t[i] # t[j]
      BY <3>4, <3>5, <3>6, <3>7, <3>8
    <3>11. Sorted(t)
      BY <3>2, <3>3, <3>4, <3>5, <3>6, <3>7, <3>8 DEF Sorted
    <3>12. t \in SetToSeqs(T)
      BY <3>2, <3>9, <3>10 DEF SetToSeqs
    <3> QED BY <3>11, <3>12
  <2> QED BY <2>2, <2>3
<1> HIDE DEF G
<1>2. S \in G
  <2>1. \A T \in SUBSET S : (\A U \in SUBSET T : U # T => U \in G) => T \in G
    BY <1>1
  <2> QED BY <2>1, SubsetInduction
<1> QED BY <1>2 DEF G

LEMMA InOrderIs ==
  ASSUME NEW S, IsFiniteSet(S), S \subseteq Int
  PROVE  InOrder(S) \in SetToSeqs(S)
BY SortedExists DEF InOrder, Sorted

LEMMA NbrsFinite == \A p \in PE : IsFiniteSet(Nbrs(p)) /\ Nbrs(p) \subseteq Int
<1>1. IsFiniteSet(PE) /\ PE \subseteq Int
  BY NpesAssumption, FS_Interval DEF PE
<1> QED BY <1>1, NbrsIn, FS_Subset

-----------------------------------------------------------------------------
(* Serving all neighbours.                                                 *)

Start(p) == [match |-> match[p], nkept |-> nkept[p], changed |-> changed[p],
             list |-> [q \in Nbrs(p) |-> <<>>]]
ServeAll(p, nperm) == FoldLeft(LAMBDA s, q : ServeList(s, q, Head(chan[q][p])), Start(p), nperm)

ServeAllStates(g, p, base, nperm, S) ==
  g = [s \in SUBSET S |-> IF s = {} THEN base
                          ELSE ServeList(g[s \ {Max(s)}], nperm[Max(s)], Due(nperm[Max(s)], p))]

LEMMA ServeAllStatesAre ==
  \A g, p, base, nperm, S : ServeAllStates(g, p, base, nperm, S) <=>
    /\ g = [s \in SUBSET S |-> g[s]]
    /\ \A s \in SUBSET S : g[s] = IF s = {} THEN base
                                  ELSE ServeList(g[s \ {Max(s)}], nperm[Max(s)], Due(nperm[Max(s)], p))
BY DEF ServeAllStates

LEMMA ServeAllIsFold ==
  \A p, nperm : ServeAll(p, nperm) =
    (CHOOSE g : ServeAllStates(g, p, Start(p), nperm, DOMAIN nperm))[DOMAIN nperm]
BY DEF ServeAll, FoldLeft, MapThenFoldSet, ServeAllStates, Due

LEMMA ServeAllFound ==
  ASSUME NEW n \in Nat, NEW g, NEW p, NEW nperm, DOMAIN nperm = 1..n,
         ServeAllStates(g, p, Start(p), nperm, 1..n)
  PROVE  ServeAll(p, nperm) = g[1..n]
<1>1. ASSUME NEW h, ServeAllStates(h, p, Start(p), nperm, 1..n) PROVE h = g
  <2>1. OfIndices(h, n) /\ OfIndices(g, n)
    BY <1>1, ServeAllStatesAre DEF OfIndices
  <2>2. ASSUME NEW s \in SUBSET (1..n), s = {} \/ h[s \ {Max(s)}] = g[s \ {Max(s)}] PROVE h[s] = g[s]
    <3>1. /\ h[s] = IF s = {} THEN Start(p)
                    ELSE ServeList(h[s \ {Max(s)}], nperm[Max(s)], Due(nperm[Max(s)], p))
          /\ g[s] = IF s = {} THEN Start(p)
                    ELSE ServeList(g[s \ {Max(s)}], nperm[Max(s)], Due(nperm[Max(s)], p))
      BY <1>1, ServeAllStatesAre
    <3> QED BY <2>2, <3>1
  <2>3. AgreeUpTo(h, g, n)
    BY <2>2 DEF AgreeUpTo
  <2> QED BY <2>1, <2>3, FoldUnique
<1>2. (CHOOSE h : ServeAllStates(h, p, Start(p), nperm, 1..n)) = g
  BY <1>1, Zenon
<1> QED BY <1>2, ServeAllIsFold

LEMMA ServeAllIs ==
  ASSUME NEW p \in PE, CanServe(p), Fresh(p, match[p], changed[p]), nkept[p] \in Int,
         match[p] \in [Own(p) \union Ghosts(p) -> Held(p)], NEW nperm \in SetToSeqs(Nbrs(p))
  PROVE  /\ Served(p, ServeAll(p, nperm))
         /\ \A q \in Nbrs(p) : Len(ServeAll(p, nperm).list[q]) = Len(Due(q, p))
<1> DEFINE n == Cardinality(Nbrs(p))
           D == Serving(p)
           Gone(d, s) == \A q \in Nbrs(p) : Len(d.list[q]) = IF \E l \in s : nperm[l] = q THEN Len(Due(q, p)) ELSE 0
           E == [s \in SUBSET (1..n) |-> {d \in D : Served(p, d) /\ Gone(d, s)}]
           next == [i \in 1..n |-> [d \in D |-> ServeList(d, nperm[i], Due(nperm[i], p))]]
<1>1. /\ n \in Nat /\ DOMAIN nperm = 1..n /\ \A i \in 1..n : nperm[i] \in Nbrs(p)
      /\ \A i, j \in 1..n : nperm[i] = nperm[j] => i = j
      /\ \A q \in Nbrs(p) : \E i \in 1..n : nperm[i] = q
  BY SeqsAre, NbrsFinite
<1>2. \A s \in SUBSET (1..n) : \A d : d \in E[s] <=> d \in D /\ Served(p, d) /\ Gone(d, s)
  OBVIOUS
<1>3. \A i \in 1..n : \A d \in D : next[i][d] = ServeList(d, nperm[i], Due(nperm[i], p))
  OBVIOUS
<1> HIDE DEF E, next, n
<1>4. Start(p) \in E[{}]
  <2> DEFINE st == Start(p)
  <2>1. /\ st.match = match[p] /\ st.changed = changed[p] /\ st.nkept = nkept[p]
        /\ \A q \in Nbrs(p) : st.list[q] = <<>>
    BY DEF Start
  <2>2. st \in Serving(p)
    <3>1. [q \in Nbrs(p) |-> <<>>] \in [Nbrs(p) -> Seq(Answer)]
      BY EmptySeq
    <3>2. changed[p] \in Seq(Own(p))
      BY DEF Fresh
    <3> QED BY <3>1, <3>2 DEF Start, Serving
  <2> HIDE DEF st
  <2>3. \A q \in Nbrs(p) : Len(st.list[q]) = 0 /\ Len(Due(q, p)) \in Nat
    BY <2>1, EmptySeq, LenProperties DEF CanServe
  <2>4. Served(p, st)
    BY <2>1, <2>2, <2>3 DEF Served
  <2>5. Gone(st, {})
    BY <2>3
  <2> QED BY <1>2, <2>2, <2>4, <2>5 DEF st
<1>5. ASSUME NEW s \in SUBSET (1..n), s # {}, NEW d \in E[s \ {Max(s)}]
      PROVE  next[Max(s)][d] \in E[s]
  <2> DEFINE m == Max(s)
             q == nperm[m]
             new == ServeList(d, q, Due(q, p))
  <2>1. m \in s /\ m \in 1..n /\ s \ {m} \in SUBSET (1..n)
    BY <1>1, <1>5, LastIndex
  <2>2. d \in D /\ Served(p, d) /\ Gone(d, s \ {m})
    BY <1>2, <2>1
  <2>3. next[m][d] = new
    BY <1>3, <2>1, <2>2
  <2>4. q \in Nbrs(p) /\ \A l \in s \ {m} : nperm[l] # q
    BY <1>1, <2>1
  <2> HIDE DEF q, m
  <2>5. Len(d.list[q]) = 0
    BY <2>2, <2>4
  <2>6. /\ Served(p, new)
        /\ \A o \in Nbrs(p) : Len(new.list[o]) = IF o = q THEN Len(Due(q, p)) ELSE Len(d.list[o])
    BY <2>2, <2>4, <2>5, ServeListIs
  <2> HIDE DEF new
  <2>7. ASSUME NEW o \in Nbrs(p)
        PROVE  Len(new.list[o]) = IF \E l \in s : nperm[l] = o THEN Len(Due(o, p)) ELSE 0
    <3>1. CASE o = q
      BY <2>1, <2>6, <3>1 DEF q
    <3>2. CASE o # q
      <4>1. (\E l \in s : nperm[l] = o) <=> \E l \in s \ {m} : nperm[l] = o
        BY <2>1, <3>2 DEF q
      <4> QED BY <2>2, <2>6, <3>2, <4>1
    <3> QED BY <3>1, <3>2
  <2>8. new \in D
    BY <2>6 DEF Served
  <2> QED BY <1>2, <2>3, <2>6, <2>7, <2>8 DEF m
<1>6. StepsInto(E, n, D, next)
  BY <1>2, <1>5 DEF StepsInto
<1> HIDE DEF D, Gone
<1>7. PICK g \in [SUBSET (1..n) -> D] :
        Folding(g, n, Start(p), next) /\ \A s \in SUBSET (1..n) : g[s] \in E[s]
  BY <1>1, <1>4, <1>6, FoldExists
<1>8. ServeAllStates(g, p, Start(p), nperm, 1..n)
  <2>1. g = [s \in SUBSET (1..n) |-> g[s]]
    OBVIOUS
  <2>2. ASSUME NEW s \in SUBSET (1..n)
        PROVE  g[s] = IF s = {} THEN Start(p)
                      ELSE ServeList(g[s \ {Max(s)}], nperm[Max(s)], Due(nperm[Max(s)], p))
    <3>1. g[s] = IF s = {} THEN Start(p) ELSE next[Max(s)][g[s \ {Max(s)}]]
      BY <1>7 DEF Folding
    <3>2. s # {} => Max(s) \in 1..n /\ g[s \ {Max(s)}] \in D
      BY <1>1, LastIndex
    <3> QED BY <1>3, <3>1, <3>2
  <2> QED BY <2>1, <2>2, ServeAllStatesAre
<1>9. ServeAll(p, nperm) = g[1..n]
  BY <1>1, <1>8, ServeAllFound
<1>10. Served(p, g[1..n]) /\ Gone(g[1..n], 1..n)
  <2>1. 1..n \in SUBSET (1..n)
    OBVIOUS
  <2>2. g[1..n] \in E[1..n]
    BY <1>7, <2>1
  <2> QED BY <1>2, <2>1, <2>2
<1> QED BY <1>1, <1>9, <1>10 DEF Gone

-----------------------------------------------------------------------------
(* Updating: the loops over the answers.                                   *)

LEMMA FreshStays ==
  ASSUME NEW p, NEW m, NEW c, Fresh(p, m, c), NEW new,
         \A u \in Own(p) : Matched(m[u]) => Matched(new[u])
  PROVE  Fresh(p, new, c)
<1>1. \A i \in 1..Len(c) : c[i] \in Own(p)
  BY ElementOfSeq DEF Fresh
<1> QED BY <1>1 DEF Fresh

Applying(p) == [match : [Own(p) \union Ghosts(p) -> Held(p)], changed : Seq(Own(p))]

\* What p can count on when it gets the answers.
CanApply(p) ==
  /\ \A q \in Nbrs(p) : Due(q, p) \in Seq([key : Values, val : Own(p)])
  /\ \A q \in Nbrs(p) : \A i \in 1..Len(Due(q, p)) :
       /\ match[p][Due(q, p)[i].val] = MAYBE_MATCHED
       /\ Due(q, p)[i].key # UNMATCHED => Matched(Due(q, p)[i].key)
  /\ \A q, o \in Nbrs(p) : \A i \in 1..Len(Due(q, p)) : \A j \in 1..Len(Due(o, p)) :
       Due(q, p)[i].val = Due(o, p)[j].val => q = o /\ i = j
  /\ \A v \in Own(p) : ~Matched(match[p][v]) => v \in Live(p)

\* The answers with indices in n[q] have been applied.
Applied(p, st, n) ==
  /\ st \in Applying(p)
  /\ \A q \in Nbrs(p) : \A i \in 1..Len(Due(q, p)) :
       st.match[Due(q, p)[i].val] = IF i \in n[q] THEN Due(q, p)[i].key ELSE MAYBE_MATCHED
  /\ \A v \in Own(p) : st.match[v] # match[p][v] =>
       \E q \in Nbrs(p) : \E i \in 1..Len(Due(q, p)) : Due(q, p)[i].val = v
  /\ \A v \in Ghosts(p) : st.match[v] = match[p][v]
  /\ Fresh(p, st.match, st.changed)

LEMMA ApplyOneIs ==
  ASSUME NEW p \in PE, NEW st \in Applying(p), NEW r \in [key : Values, val : Own(p)]
  PROVE  ApplyOne(st, r) \in Applying(p)
<1>1. /\ st.match \in [Own(p) \union Ghosts(p) -> Held(p)] /\ st.changed \in Seq(Own(p))
      /\ r.key \in Held(p) /\ r.val \in Own(p)
  BY DEF Applying, Held
<1>2. [st.match EXCEPT ![r.val] = r.key] \in [Own(p) \union Ghosts(p) -> Held(p)]
  BY <1>1
<1>3. Append(st.changed, r.val) \in Seq(Own(p))
  BY <1>1, AppendProperties
<1>4. (IF r.key # UNMATCHED THEN Append(st.changed, r.val) ELSE st.changed) \in Seq(Own(p))
  BY <1>1, <1>3
<1> QED BY <1>2, <1>4 DEF ApplyOne, Applying

LEMMA AppliedStep ==
  ASSUME NEW p \in PE, CanApply(p), NEW st, NEW n, Applied(p, st, n), NEW q \in Nbrs(p),
         NEW k \in 1..Len(Due(q, p)), k \notin n[q],
         NEW m, \A o \in Nbrs(p) : m[o] = IF o = q THEN n[q] \union {k} ELSE n[o]
  PROVE  Applied(p, ApplyOne(st, Due(q, p)[k]), m)
<1> DEFINE r == Due(q, p)[k]
           new == ApplyOne(st, r)
<1>1. r \in [key : Values, val : Own(p)] /\ r.val \in Own(p)
  <2>1. r \in [key : Values, val : Own(p)]
    BY ElementOfSeq DEF CanApply
  <2> HIDE DEF r
  <2> QED BY <2>1
<1>2. /\ match[p][r.val] = MAYBE_MATCHED /\ st.match[r.val] = MAYBE_MATCHED
      /\ r.key # UNMATCHED => Matched(r.key)
      /\ r.val \in Live(p)
  BY <1>1, MarksAre DEF CanApply, Applied
<1>3. st \in Applying(p) /\ new \in Applying(p) /\ st.match \in [Own(p) \union Ghosts(p) -> Held(p)]
  BY <1>1, ApplyOneIs DEF Applied, Applying
<1>4. /\ new.match = [st.match EXCEPT ![r.val] = r.key]
      /\ new.changed = IF r.key # UNMATCHED THEN Append(st.changed, r.val) ELSE st.changed
  BY DEF ApplyOne
<1>5. new.match[r.val] = r.key /\ \A v \in Own(p) \union Ghosts(p) : v # r.val => new.match[v] = st.match[v]
  BY <1>1, <1>3, <1>4
<1>6. \A o \in Nbrs(p) : \A i \in 1..Len(Due(o, p)) :
        Due(o, p)[i].val \in Own(p) /\ (Due(o, p)[i].val = r.val => o = q /\ i = k)
  <2>1. \A o \in Nbrs(p) : \A i \in 1..Len(Due(o, p)) : Due(o, p)[i] \in [key : Values, val : Own(p)]
    BY ElementOfSeq DEF CanApply
  <2> QED BY <2>1 DEF CanApply
<1> HIDE DEF new
<1>7. ASSUME NEW o \in Nbrs(p), NEW i \in 1..Len(Due(o, p))
      PROVE  new.match[Due(o, p)[i].val] = IF i \in m[o] THEN Due(o, p)[i].key ELSE MAYBE_MATCHED
  <2>1. st.match[Due(o, p)[i].val] = IF i \in n[o] THEN Due(o, p)[i].key ELSE MAYBE_MATCHED
    BY DEF Applied
  <2>2. CASE o = q /\ i = k
    BY <1>5, <2>2
  <2>3. CASE ~(o = q /\ i = k)
    <3>1. i \in m[o] <=> i \in n[o]
      BY <2>3
    <3> QED BY <1>5, <1>6, <2>1, <2>3, <3>1
  <2> QED BY <2>2, <2>3
<1>8. ASSUME NEW v \in Own(p), new.match[v] # match[p][v]
      PROVE  \E o \in Nbrs(p) : \E i \in 1..Len(Due(o, p)) : Due(o, p)[i].val = v
  <2>1. CASE v = r.val
    BY <2>1
  <2>2. CASE v # r.val
    BY <1>5, <1>8, <2>2 DEF Applied
  <2> QED BY <2>1, <2>2
<1>9. \A v \in Ghosts(p) : new.match[v] = match[p][v]
  BY <1>1, <1>5, OwnNotGhost DEF Applied
<1>10. Fresh(p, new.match, new.changed)
  <2>1. Fresh(p, st.match, st.changed) /\ ~Matched(st.match[r.val])
    BY <1>2, MarksAre DEF Applied
  <2>2. CASE r.key # UNMATCHED
    <3>1. Matched(new.match[r.val]) /\ \A u \in Own(p) : u # r.val => new.match[u] = st.match[u]
      BY <1>2, <1>5, <2>2
    <3>2. Fresh(p, new.match, Append(st.changed, r.val))
      BY <1>1, <1>2, <2>1, <3>1, FreshAdds
    <3> QED BY <1>4, <2>2, <3>2
  <2>3. CASE r.key = UNMATCHED
    <3>1. \A u \in Own(p) : Matched(st.match[u]) => Matched(new.match[u])
      BY <1>5, <2>1
    <3>2. Fresh(p, new.match, st.changed)
      BY <2>1, <3>1, FreshStays
    <3> QED BY <1>4, <2>3, <3>2
  <2> QED BY <2>2, <2>3
<1> QED BY <1>3, <1>7, <1>8, <1>9, <1>10 DEF Applied, new

\* The loop over the answers of one neighbour.
ApplyStates(g, st, replies, S) ==
  g = [s \in SUBSET S |-> IF s = {} THEN st ELSE ApplyOne(g[s \ {Max(s)}], replies[Max(s)])]

LEMMA ApplyStatesAre ==
  \A g, st, replies, S : ApplyStates(g, st, replies, S) <=>
    /\ g = [s \in SUBSET S |-> g[s]]
    /\ \A s \in SUBSET S : g[s] = IF s = {} THEN st ELSE ApplyOne(g[s \ {Max(s)}], replies[Max(s)])
BY DEF ApplyStates

LEMMA ApplyStatesFold ==
  \A st, replies : ApplyList(st, replies) = (CHOOSE g : ApplyStates(g, st, replies, DOMAIN replies))[DOMAIN replies]
BY DEF ApplyList, FoldLeft, MapThenFoldSet, ApplyStates

LEMMA ApplyStatesFound ==
  ASSUME NEW n \in Nat, NEW g, NEW st, NEW replies, DOMAIN replies = 1..n, ApplyStates(g, st, replies, 1..n)
  PROVE  ApplyList(st, replies) = g[1..n]
<1>1. ASSUME NEW h, ApplyStates(h, st, replies, 1..n) PROVE h = g
  <2>1. OfIndices(h, n) /\ OfIndices(g, n)
    BY <1>1, ApplyStatesAre DEF OfIndices
  <2>2. ASSUME NEW s \in SUBSET (1..n), s = {} \/ h[s \ {Max(s)}] = g[s \ {Max(s)}] PROVE h[s] = g[s]
    <3>1. /\ h[s] = IF s = {} THEN st ELSE ApplyOne(h[s \ {Max(s)}], replies[Max(s)])
          /\ g[s] = IF s = {} THEN st ELSE ApplyOne(g[s \ {Max(s)}], replies[Max(s)])
      BY <1>1, ApplyStatesAre
    <3> QED BY <2>2, <3>1
  <2>3. AgreeUpTo(h, g, n)
    BY <2>2 DEF AgreeUpTo
  <2> QED BY <2>1, <2>3, FoldUnique
<1>2. (CHOOSE h : ApplyStates(h, st, replies, 1..n)) = g
  BY <1>1, Zenon
<1> QED BY <1>2, ApplyStatesFold

LEMMA ApplyListIs ==
  ASSUME NEW p \in PE, CanApply(p), NEW st, NEW n, Applied(p, st, n), NEW q \in Nbrs(p), n[q] = {},
         NEW m, \A o \in Nbrs(p) : m[o] = IF o = q THEN 1..Len(Due(q, p)) ELSE n[o]
  PROVE  Applied(p, ApplyList(st, Due(q, p)), m)
<1> DEFINE replies == Due(q, p)
           l == Len(replies)
           D == Applying(p)
           at(s) == [o \in Nbrs(p) |-> IF o = q THEN s ELSE n[o]]
           E == [s \in SUBSET (1..l) |-> {d \in D : Applied(p, d, at(s))}]
           next == [i \in 1..l |-> [d \in D |-> ApplyOne(d, replies[i])]]
<1>1. l \in Nat /\ DOMAIN replies = 1..l
  <2>1. replies \in Seq([key : Values, val : Own(p)])
    BY DEF CanApply
  <2> HIDE DEF replies
  <2> QED BY <2>1, LenProperties
<1>2. \A s \in SUBSET (1..l) : \A d : d \in E[s] <=> d \in D /\ Applied(p, d, at(s))
  OBVIOUS
<1>3. \A i \in 1..l : \A d \in D : next[i][d] = ApplyOne(d, replies[i])
  OBVIOUS
<1>4. \A d, a, b : Applied(p, d, a) /\ (\A o \in Nbrs(p) : a[o] = b[o]) => Applied(p, d, b)
  BY DEF Applied
<1>5. \A s : \A o \in Nbrs(p) : at(s)[o] = IF o = q THEN s ELSE n[o]
  OBVIOUS
<1> HIDE DEF E, next, at
<1>6. st \in E[{}]
  <2>1. Applied(p, st, at({}))
    BY <1>4, <1>5
  <2>2. st \in D
    BY DEF Applied
  <2> QED BY <1>2, <2>1, <2>2
<1>7. ASSUME NEW s \in SUBSET (1..l), s # {}, NEW d \in E[s \ {Max(s)}]
      PROVE  next[Max(s)][d] \in E[s]
  <2> DEFINE k == Max(s)
             new == ApplyOne(d, replies[k])
  <2>1. k \in s /\ k \in 1..l /\ s \ {k} \in SUBSET (1..l)
    BY <1>1, <1>7, LastIndex
  <2>2. d \in D /\ Applied(p, d, at(s \ {k}))
    BY <1>2, <2>1
  <2>3. next[k][d] = new
    BY <1>3, <2>1, <2>2
  <2> HIDE DEF k
  <2>4. k \notin at(s \ {k})[q] /\ \A o \in Nbrs(p) : at(s)[o] = IF o = q THEN at(s \ {k})[q] \union {k} ELSE at(s \ {k})[o]
    BY <1>5, <2>1
  <2>5. k \in 1..Len(Due(q, p))
    BY <2>1
  <2>6. Applied(p, new, at(s))
    BY <2>2, <2>4, <2>5, AppliedStep
  <2>7. new \in D
    BY <2>6 DEF Applied
  <2> QED BY <1>2, <2>3, <2>6, <2>7 DEF k
<1>8. StepsInto(E, l, D, next)
  BY <1>2, <1>7 DEF StepsInto
<1> HIDE DEF l, D
<1>9. PICK g \in [SUBSET (1..l) -> D] : Folding(g, l, st, next) /\ \A s \in SUBSET (1..l) : g[s] \in E[s]
  BY <1>1, <1>6, <1>8, FoldExists
<1>10. ApplyStates(g, st, replies, 1..l)
  <2>1. g = [s \in SUBSET (1..l) |-> g[s]]
    OBVIOUS
  <2>2. ASSUME NEW s \in SUBSET (1..l)
        PROVE  g[s] = IF s = {} THEN st ELSE ApplyOne(g[s \ {Max(s)}], replies[Max(s)])
    <3>1. g[s] = IF s = {} THEN st ELSE next[Max(s)][g[s \ {Max(s)}]]
      BY <1>9 DEF Folding
    <3>2. s # {} => Max(s) \in 1..l /\ g[s \ {Max(s)}] \in D
      BY <1>1, LastIndex
    <3> QED BY <1>3, <3>1, <3>2
  <2> QED BY <2>1, <2>2, ApplyStatesAre
<1>11. ApplyList(st, replies) = g[1..l]
  BY <1>1, <1>10, ApplyStatesFound
<1>12. Applied(p, g[1..l], at(1..l))
  <2>1. 1..l \in SUBSET (1..l)
    OBVIOUS
  <2> QED BY <1>2, <1>9, <2>1
<1>13. \A o \in Nbrs(p) : at(1..l)[o] = m[o]
  BY <1>5 DEF l
<1> QED BY <1>4, <1>11, <1>12, <1>13

\* The loop over the neighbours.
Updating(p) == [match |-> match[p], changed |-> changed[p]]
UpdateAll(p, order) == FoldLeft(LAMBDA s, q : ApplyList(s, Head(chan[q][p])), Updating(p), order)

UpdateStates(g, p, order, S) ==
  g = [s \in SUBSET S |-> IF s = {} THEN Updating(p) ELSE ApplyList(g[s \ {Max(s)}], Due(order[Max(s)], p))]

LEMMA UpdateStatesAre ==
  \A g, p, order, S : UpdateStates(g, p, order, S) <=>
    /\ g = [s \in SUBSET S |-> g[s]]
    /\ \A s \in SUBSET S : g[s] = IF s = {} THEN Updating(p) ELSE ApplyList(g[s \ {Max(s)}], Due(order[Max(s)], p))
BY DEF UpdateStates

LEMMA UpdateStatesFold ==
  \A p, order : UpdateAll(p, order) = (CHOOSE g : UpdateStates(g, p, order, DOMAIN order))[DOMAIN order]
BY DEF UpdateAll, FoldLeft, MapThenFoldSet, UpdateStates, Due

LEMMA UpdateStatesFound ==
  ASSUME NEW n \in Nat, NEW g, NEW p, NEW order, DOMAIN order = 1..n, UpdateStates(g, p, order, 1..n)
  PROVE  UpdateAll(p, order) = g[1..n]
<1>1. ASSUME NEW h, UpdateStates(h, p, order, 1..n) PROVE h = g
  <2>1. OfIndices(h, n) /\ OfIndices(g, n)
    BY <1>1, UpdateStatesAre DEF OfIndices
  <2>2. ASSUME NEW s \in SUBSET (1..n), s = {} \/ h[s \ {Max(s)}] = g[s \ {Max(s)}] PROVE h[s] = g[s]
    <3>1. /\ h[s] = IF s = {} THEN Updating(p) ELSE ApplyList(h[s \ {Max(s)}], Due(order[Max(s)], p))
          /\ g[s] = IF s = {} THEN Updating(p) ELSE ApplyList(g[s \ {Max(s)}], Due(order[Max(s)], p))
      BY <1>1, UpdateStatesAre
    <3> QED BY <2>2, <3>1
  <2>3. AgreeUpTo(h, g, n)
    BY <2>2 DEF AgreeUpTo
  <2> QED BY <2>1, <2>3, FoldUnique
<1>2. (CHOOSE h : UpdateStates(h, p, order, 1..n)) = g
  BY <1>1, Zenon
<1> QED BY <1>2, UpdateStatesFold

LEMMA UpdateAllIs ==
  ASSUME NEW p \in PE, CanApply(p), Fresh(p, match[p], changed[p]),
         match[p] \in [Own(p) \union Ghosts(p) -> Held(p)], NEW order \in SetToSeqs(Nbrs(p))
  PROVE  Applied(p, UpdateAll(p, order), [q \in Nbrs(p) |-> 1..Len(Due(q, p))])
<1> DEFINE n == Cardinality(Nbrs(p))
           D == Applying(p)
           at(s) == [q \in Nbrs(p) |-> IF \E l \in s : order[l] = q THEN 1..Len(Due(q, p)) ELSE {}]
           E == [s \in SUBSET (1..n) |-> {d \in D : Applied(p, d, at(s))}]
           next == [i \in 1..n |-> [d \in D |-> ApplyList(d, Due(order[i], p))]]
<1>1. /\ n \in Nat /\ DOMAIN order = 1..n /\ \A i \in 1..n : order[i] \in Nbrs(p)
      /\ \A i, j \in 1..n : order[i] = order[j] => i = j
      /\ \A q \in Nbrs(p) : \E i \in 1..n : order[i] = q
  BY SeqsAre, NbrsFinite
<1>2. \A s \in SUBSET (1..n) : \A d : d \in E[s] <=> d \in D /\ Applied(p, d, at(s))
  OBVIOUS
<1>3. \A i \in 1..n : \A d \in D : next[i][d] = ApplyList(d, Due(order[i], p))
  OBVIOUS
<1>4. \A d, a, b : Applied(p, d, a) /\ (\A q \in Nbrs(p) : a[q] = b[q]) => Applied(p, d, b)
  BY DEF Applied
<1>5. \A s : \A q \in Nbrs(p) : at(s)[q] = IF \E l \in s : order[l] = q THEN 1..Len(Due(q, p)) ELSE {}
  OBVIOUS
<1> HIDE DEF E, next, at, n
<1>6. Updating(p) \in E[{}]
  <2> DEFINE st == Updating(p)
  <2>1. st.match = match[p] /\ st.changed = changed[p] /\ st \in Applying(p)
    BY DEF Updating, Applying, Fresh
  <2> HIDE DEF st
  <2>2. Applied(p, st, at({}))
    <3>1. \A q \in Nbrs(p) : at({})[q] = {}
      BY <1>5
    <3> QED BY <2>1, <3>1 DEF Applied, CanApply
  <2> QED BY <1>2, <2>1, <2>2 DEF st
<1>7. ASSUME NEW s \in SUBSET (1..n), s # {}, NEW d \in E[s \ {Max(s)}]
      PROVE  next[Max(s)][d] \in E[s]
  <2> DEFINE k == Max(s)
             q == order[k]
             new == ApplyList(d, Due(q, p))
  <2>1. k \in s /\ k \in 1..n /\ s \ {k} \in SUBSET (1..n)
    BY <1>1, <1>7, LastIndex
  <2>2. d \in D /\ Applied(p, d, at(s \ {k}))
    BY <1>2, <2>1
  <2>3. next[k][d] = new
    BY <1>3, <2>1, <2>2
  <2>4. q \in Nbrs(p) /\ \A l \in s \ {k} : order[l] # q
    BY <1>1, <2>1
  <2>5. at(s \ {k})[q] = {}
    BY <1>5, <2>4
  <2>6. ASSUME NEW o \in Nbrs(p)
        PROVE  at(s)[o] = IF o = q THEN 1..Len(Due(q, p)) ELSE at(s \ {k})[o]
    <3>1. CASE o = q
      BY <1>5, <2>1, <3>1
    <3>2. CASE o # q
      <4>1. (\E l \in s : order[l] = o) <=> \E l \in s \ {k} : order[l] = o
        BY <2>1, <3>2
      <4>2. /\ at(s)[o] = IF \E l \in s : order[l] = o THEN 1..Len(Due(o, p)) ELSE {}
            /\ at(s \ {k})[o] = IF \E l \in s \ {k} : order[l] = o THEN 1..Len(Due(o, p)) ELSE {}
        BY <1>5
      <4> HIDE DEF k, q
      <4> QED BY <3>2, <4>1, <4>2
    <3> QED BY <3>1, <3>2
  <2> HIDE DEF q, k
  <2>7. Applied(p, new, at(s))
    BY <2>2, <2>4, <2>5, <2>6, ApplyListIs
  <2>8. new \in D
    BY <2>7 DEF Applied
  <2> QED BY <1>2, <2>3, <2>7, <2>8 DEF k
<1>8. StepsInto(E, n, D, next)
  BY <1>2, <1>7 DEF StepsInto
<1> HIDE DEF D
<1>9. PICK g \in [SUBSET (1..n) -> D] :
        Folding(g, n, Updating(p), next) /\ \A s \in SUBSET (1..n) : g[s] \in E[s]
  BY <1>1, <1>6, <1>8, FoldExists
<1>10. UpdateStates(g, p, order, 1..n)
  <2>1. g = [s \in SUBSET (1..n) |-> g[s]]
    OBVIOUS
  <2>2. ASSUME NEW s \in SUBSET (1..n)
        PROVE  g[s] = IF s = {} THEN Updating(p) ELSE ApplyList(g[s \ {Max(s)}], Due(order[Max(s)], p))
    <3>1. g[s] = IF s = {} THEN Updating(p) ELSE next[Max(s)][g[s \ {Max(s)}]]
      BY <1>9 DEF Folding
    <3>2. s # {} => Max(s) \in 1..n /\ g[s \ {Max(s)}] \in D
      BY <1>1, LastIndex
    <3> QED BY <1>3, <3>1, <3>2
  <2> QED BY <2>1, <2>2, UpdateStatesAre
<1>11. UpdateAll(p, order) = g[1..n]
  BY <1>1, <1>10, UpdateStatesFound
<1>12. Applied(p, g[1..n], at(1..n))
  <2>1. 1..n \in SUBSET (1..n)
    OBVIOUS
  <2> QED BY <1>2, <1>9, <2>1
<1>13. \A q \in Nbrs(p) : at(1..n)[q] = [o \in Nbrs(p) |-> 1..Len(Due(o, p))][q]
  BY <1>1, <1>5
<1> QED BY <1>4, <1>11, <1>12, <1>13

-----------------------------------------------------------------------------
(* Retiring vertices from the traversal order.                             *)

Order(p) == [perm |-> perm[p], iperm |-> iperm[p], nmatched |-> nmatched[p]]
Retiring(p) == [perm : [1..nvtxs[p] -> Own(p)], iperm : [Own(p) -> 1..nvtxs[p]], nmatched : Nat]
Positions(p, st) == (st.nmatched + 1)..nvtxs[p]
LiveIn(p, st) == {st.perm[j] : j \in Positions(p, st)}
InPlace(p, st) == \A j \in Positions(p, st) : st.iperm[st.perm[j]] = j

LEMMA OwnFinite == \A p \in PE : IsFiniteSet(Own(p)) /\ nvtxs[p] = Cardinality(Own(p)) /\ nvtxs[p] \in Nat
<1> SUFFICES ASSUME NEW p \in PE
             PROVE  IsFiniteSet(Own(p)) /\ nvtxs[p] = Cardinality(Own(p)) /\ nvtxs[p] \in Nat
  OBVIOUS
<1>1. Own(p) \subseteq Vertex
  BY OwnIs
<1>2. IsFiniteSet(Own(p))
  BY <1>1, FiniteAssumption, FS_Subset
<1> QED BY <1>2, FS_CardinalityType DEF nvtxs

LEMMA RetireStep ==
  ASSUME NEW p \in PE, NEW st \in Retiring(p), InPlace(p, st), NEW v \in LiveIn(p, st),
         NEW new, new = Retire(st, v)
  PROVE  /\ new \in Retiring(p) /\ InPlace(p, new) /\ LiveIn(p, new) = LiveIn(p, st) \ {v}
<1> DEFINE n == nvtxs[p]
           a == st.nmatched + 1
           j == st.iperm[v]
           w == st.perm[a]
<1>1. /\ st.perm \in [1..n -> Own(p)] /\ st.iperm \in [Own(p) -> 1..n] /\ st.nmatched \in Nat
      /\ n \in Nat
  BY OwnFinite DEF Retiring
<1>2. a \in Nat \ {0} /\ Positions(p, st) = a..n
  BY <1>1 DEF Positions
<1>3. j \in a..n /\ st.perm[j] = v
  BY <1>2 DEF LiveIn, InPlace
<1>4. w \in Own(p) /\ a \in a..n /\ a \in 1..n /\ j \in 1..n
  BY <1>1, <1>2, <1>3
<1>5. /\ new.perm = [st.perm EXCEPT ![j] = w] /\ new.iperm = [st.iperm EXCEPT ![w] = j]
      /\ new.nmatched = a /\ new = [perm |-> new.perm, iperm |-> new.iperm, nmatched |-> new.nmatched]
  BY DEF Retire
<1>6. new \in Retiring(p)
  <2>1. new.perm \in [1..n -> Own(p)] /\ new.iperm \in [Own(p) -> 1..n] /\ new.nmatched \in Nat
    BY <1>1, <1>2, <1>4, <1>5
  <2> QED BY <1>5, <2>1 DEF Retiring
<1>7. Positions(p, new) = (a + 1)..n
  BY <1>5 DEF Positions
<1>8. \A i \in a..n : st.iperm[st.perm[i]] = i
  BY <1>2 DEF InPlace
<1>9. /\ new.perm[j] = w /\ \A i \in a..n : i # j => new.perm[i] = st.perm[i]
      /\ new.iperm[w] = j /\ \A u \in Own(p) : u # w => new.iperm[u] = st.iperm[u]
  BY <1>1, <1>2, <1>4, <1>5
<1>10. \A i \in (a + 1)..n : i \in a..n /\ i # a /\ st.perm[i] \in Own(p)
  BY <1>1, <1>2
<1> HIDE DEF a, j, w, n
<1>11. \A i \in (a + 1)..n : new.iperm[new.perm[i]] = i
  <2> SUFFICES ASSUME NEW i \in (a + 1)..n PROVE new.iperm[new.perm[i]] = i
    OBVIOUS
  <2>1. CASE i = j
    BY <1>9, <2>1
  <2>2. CASE i # j
    <3>1. st.perm[i] # w
      BY <1>4, <1>8, <1>10 DEF w
    <3> QED BY <1>8, <1>9, <1>10, <2>2, <3>1
  <2> QED BY <2>1, <2>2
<1>12. LiveIn(p, new) = {new.perm[i] : i \in (a + 1)..n} /\ LiveIn(p, st) = {st.perm[i] : i \in a..n}
  BY <1>2, <1>7 DEF LiveIn
<1>13. LiveIn(p, new) \subseteq LiveIn(p, st) \ {v}
  <2> SUFFICES ASSUME NEW i \in (a + 1)..n PROVE new.perm[i] \in LiveIn(p, st) \ {v}
    BY <1>12
  <2>1. CASE i = j
    <3>1. w # v
      BY <1>3, <1>4, <1>8, <1>10, <2>1 DEF w
    <3> QED BY <1>4, <1>9, <1>12, <2>1, <3>1 DEF w
  <2>2. CASE i # j
    BY <1>3, <1>8, <1>9, <1>10, <1>12, <2>2
  <2> QED BY <2>1, <2>2
<1>14. LiveIn(p, st) \ {v} \subseteq LiveIn(p, new)
  <2> SUFFICES ASSUME NEW i \in a..n, st.perm[i] # v PROVE st.perm[i] \in LiveIn(p, new)
    BY <1>12
  <2>1. i # j
    BY <1>3
  <2>2. CASE i = a
    <3>1. j \in (a + 1)..n
      BY <1>1, <1>2, <1>3, <2>1, <2>2 DEF n
    <3> QED BY <1>9, <1>12, <2>2, <3>1 DEF w
  <2>3. CASE i # a
    <3>1. i \in (a + 1)..n
      BY <1>1, <1>2, <2>3 DEF n
    <3> QED BY <1>9, <1>12, <2>1, <3>1
  <2> QED BY <2>2, <2>3
<1> QED BY <1>6, <1>7, <1>11, <1>13, <1>14 DEF InPlace

RetireStates(g, p, vs, S) ==
  g = [s \in SUBSET S |-> IF s = {} THEN Order(p) ELSE Retire(g[s \ {Max(s)}], vs[Max(s)])]

LEMMA RetireStatesAre ==
  \A g, p, vs, S : RetireStates(g, p, vs, S) <=>
    /\ g = [s \in SUBSET S |-> g[s]]
    /\ \A s \in SUBSET S : g[s] = IF s = {} THEN Order(p) ELSE Retire(g[s \ {Max(s)}], vs[Max(s)])
BY DEF RetireStates

LEMMA RetireStatesFold ==
  \A p, vs : RetireAll(p, vs) = (CHOOSE g : RetireStates(g, p, vs, DOMAIN vs))[DOMAIN vs]
BY DEF RetireAll, FoldLeft, MapThenFoldSet, RetireStates, Order

LEMMA RetireStatesFound ==
  ASSUME NEW n \in Nat, NEW g, NEW p, NEW vs, DOMAIN vs = 1..n, RetireStates(g, p, vs, 1..n)
  PROVE  RetireAll(p, vs) = g[1..n]
<1>1. ASSUME NEW h, RetireStates(h, p, vs, 1..n) PROVE h = g
  <2>1. OfIndices(h, n) /\ OfIndices(g, n)
    BY <1>1, RetireStatesAre DEF OfIndices
  <2>2. ASSUME NEW s \in SUBSET (1..n), s = {} \/ h[s \ {Max(s)}] = g[s \ {Max(s)}] PROVE h[s] = g[s]
    <3>1. /\ h[s] = IF s = {} THEN Order(p) ELSE Retire(h[s \ {Max(s)}], vs[Max(s)])
          /\ g[s] = IF s = {} THEN Order(p) ELSE Retire(g[s \ {Max(s)}], vs[Max(s)])
      BY <1>1, RetireStatesAre
    <3> QED BY <2>2, <3>1
  <2>3. AgreeUpTo(h, g, n)
    BY <2>2 DEF AgreeUpTo
  <2> QED BY <2>1, <2>3, FoldUnique
<1>2. (CHOOSE h : RetireStates(h, p, vs, 1..n)) = g
  BY <1>1, Zenon
<1> QED BY <1>2, RetireStatesFold

LEMMA RetireAllIs ==
  ASSUME NEW p \in PE, Order(p) \in Retiring(p), InPlace(p, Order(p)), NEW vs \in Seq(Own(p)),
         \A i \in 1..Len(vs) : vs[i] \in Live(p),
         \A i, j \in 1..Len(vs) : vs[i] = vs[j] => i = j
  PROVE  /\ RetireAll(p, vs) \in Retiring(p) /\ InPlace(p, RetireAll(p, vs))
         /\ LiveIn(p, RetireAll(p, vs)) = Live(p) \ {vs[i] : i \in 1..Len(vs)}
<1> DEFINE n == Len(vs)
           D == Retiring(p)
           Gone(s) == {vs[i] : i \in s}
           E == [s \in SUBSET (1..n) |-> {d \in D : InPlace(p, d) /\ LiveIn(p, d) = Live(p) \ Gone(s)}]
           next == [i \in 1..n |-> [d \in D |-> Retire(d, vs[i])]]
<1>1. n \in Nat /\ DOMAIN vs = 1..n
  BY LenProperties
<1>2. \A s \in SUBSET (1..n) : \A d : d \in E[s] <=> d \in D /\ InPlace(p, d) /\ LiveIn(p, d) = Live(p) \ Gone(s)
  OBVIOUS
<1>3. \A i \in 1..n : \A d \in D : next[i][d] = Retire(d, vs[i])
  OBVIOUS
<1> HIDE DEF E, next, D
<1>4. Order(p) \in E[{}]
  <2>1. LiveIn(p, Order(p)) = Live(p)
    BY DEF LiveIn, Live, Order, Positions
  <2> QED BY <1>2, <2>1 DEF D
<1>5. ASSUME NEW s \in SUBSET (1..n), s # {}, NEW d \in E[s \ {Max(s)}]
      PROVE  next[Max(s)][d] \in E[s]
  <2> DEFINE k == Max(s)
  <2>1. k \in s /\ k \in 1..n /\ s \ {k} \in SUBSET (1..n)
    BY <1>1, <1>5, LastIndex
  <2>2. d \in D /\ InPlace(p, d) /\ LiveIn(p, d) = Live(p) \ Gone(s \ {k})
    BY <1>2, <2>1
  <2>3. next[k][d] = Retire(d, vs[k])
    BY <1>3, <2>1, <2>2
  <2> HIDE DEF k
  <2>4. vs[k] \in LiveIn(p, d)
    BY <2>1, <2>2
  <2>5. /\ Retire(d, vs[k]) \in D /\ InPlace(p, Retire(d, vs[k]))
        /\ LiveIn(p, Retire(d, vs[k])) = LiveIn(p, d) \ {vs[k]}
    BY <2>2, <2>4, RetireStep DEF D
  <2>6. Gone(s) = Gone(s \ {k}) \union {vs[k]}
    BY <2>1
  <2> HIDE DEF Gone
  <2>7. LiveIn(p, Retire(d, vs[k])) = Live(p) \ Gone(s)
    BY <2>2, <2>5, <2>6
  <2> QED BY <1>2, <2>3, <2>5, <2>7 DEF k
<1>6. StepsInto(E, n, D, next)
  BY <1>2, <1>5 DEF StepsInto
<1> HIDE DEF Gone
<1>7. PICK g \in [SUBSET (1..n) -> D] :
        Folding(g, n, Order(p), next) /\ \A s \in SUBSET (1..n) : g[s] \in E[s]
  BY <1>1, <1>4, <1>6, FoldExists
<1>8. RetireStates(g, p, vs, 1..n)
  <2>1. g = [s \in SUBSET (1..n) |-> g[s]]
    OBVIOUS
  <2>2. ASSUME NEW s \in SUBSET (1..n)
        PROVE  g[s] = IF s = {} THEN Order(p) ELSE Retire(g[s \ {Max(s)}], vs[Max(s)])
    <3>1. g[s] = IF s = {} THEN Order(p) ELSE next[Max(s)][g[s \ {Max(s)}]]
      BY <1>7 DEF Folding
    <3>2. s # {} => Max(s) \in 1..n /\ g[s \ {Max(s)}] \in D
      BY <1>1, LastIndex
    <3> QED BY <1>3, <3>1, <3>2
  <2> QED BY <2>1, <2>2, RetireStatesAre
<1>9. RetireAll(p, vs) = g[1..n]
  BY <1>1, <1>8, RetireStatesFound
<1>10. g[1..n] \in D /\ InPlace(p, g[1..n]) /\ LiveIn(p, g[1..n]) = Live(p) \ Gone(1..n)
  <2>1. 1..n \in SUBSET (1..n)
    OBVIOUS
  <2> QED BY <1>2, <1>7, <2>1
<1> QED BY <1>9, <1>10 DEF D, Gone
\* The least element of a set that is not empty.
LEMMA Least ==
  ASSUME NEW S, IsFiniteSet(S), S \subseteq Int, S # {}
  PROVE  \E m \in S : \A k \in S : m <= k
<1>1. PICK s \in SetToSeqs(S) : Sorted(s)
  BY SortedExists
<1>2. /\ DOMAIN s = 1..Cardinality(S) /\ Cardinality(S) \in Nat
      /\ \A i \in 1..Cardinality(S) : s[i] \in S
      /\ \A x \in S : \E i \in 1..Cardinality(S) : s[i] = x
  BY SeqsAre
<1> DEFINE n == Cardinality(S)
<1>3. 1 \in 1..n
  <2>1. PICK x \in S : TRUE
    OBVIOUS
  <2>2. PICK i \in 1..n : s[i] = x
    BY <1>2
  <2>3. n \in Nat
    BY <1>2
  <2> HIDE DEF n
  <2>4. i \in Nat /\ 1 <= i /\ i <= n
    BY <2>3
  <2> QED BY <2>3, <2>4
<1>4. ASSUME NEW k \in S PROVE s[1] <= k
  <2>1. PICK i \in 1..n : s[i] = k
    BY <1>2
  <2>2. i > 1 => s[1] < s[i]
    BY <1>1, <1>2, <1>3 DEF Sorted
  <2>3. i = 1 \/ i > 1
    OBVIOUS
  <2>4. s[1] \in Int /\ k \in Int
    BY <1>2, <1>3
  <2> QED BY <2>1, <2>2, <2>3, <2>4
<1> QED BY <1>2, <1>3, <1>4

\* The requests p has for q; l lists the elements of R.
Wanted(p, q) == {r \in requests[p] : Owner[r.key] = q}
Lists(l, R) ==
  /\ l \in Seq(R) /\ \A i \in 1..Len(l) : l[i] \in R
  /\ \A i, j \in 1..Len(l) : l[i] = l[j] => i = j
  /\ \A r \in R : \E i \in 1..Len(l) : l[i] = r

LEMMA RequestListIs ==
  ASSUME NEW p \in PE, requests[p] \subseteq [key : Ghosts(p), val : Own(p)],
         \A r, s \in requests[p] : r.key = s.key => r = s, NEW q
  PROVE  Lists(RequestList(p, q), Wanted(p, q))
<1> SUFFICES ASSUME NEW R, R = {r \in requests[p] : Owner[r.key] = q}, NEW l, l = RequestList(p, q)
             PROVE  Lists(l, R)
  BY DEF Wanted
<1> DEFINE keys == {r.key : r \in R}
           n == Cardinality(keys)
           s == InOrder(keys)
           at(i) == CHOOSE r \in R : r.key = s[i]
<1>1. \A r \in R : r.key \in Ghosts(p) /\ r.key \in keys
  OBVIOUS
<1>2. keys \subseteq Vertex
  BY <1>1, GhostsAre
<1>3. IsFiniteSet(keys) /\ keys \subseteq Int
  BY <1>2, FiniteAssumption, FS_Subset, VertexIs
<1>4. l = [i \in DOMAIN s |-> at(i)]
  BY DEF RequestList
<1> HIDE DEF keys, s, n
<1>5. s \in SetToSeqs(keys)
  BY <1>3, InOrderIs DEF s
<1>6. /\ n \in Nat /\ DOMAIN s = 1..n /\ \A i \in 1..n : s[i] \in keys
      /\ \A i, j \in 1..n : s[i] = s[j] => i = j
      /\ \A x \in keys : \E i \in 1..n : s[i] = x
  BY <1>3, <1>5, SeqsAre DEF n
<1>7. \A i \in 1..n : at(i) \in R /\ at(i).key = s[i]
  <2> SUFFICES ASSUME NEW i \in 1..n PROVE at(i) \in R /\ at(i).key = s[i]
    OBVIOUS
  <2>1. \E r \in R : r.key = s[i]
    BY <1>6 DEF keys
  <2> QED BY <2>1
<1> HIDE DEF at
<1>8. l \in [1..n -> R] /\ \A i \in 1..n : l[i] = at(i)
  BY <1>4, <1>6, <1>7
<1>9. l \in Seq(R) /\ Len(l) = n
  BY <1>6, <1>8, SeqDef
<1>10. \A i, j \in 1..n : l[i] = l[j] => i = j
  BY <1>6, <1>7, <1>8
<1>11. ASSUME NEW r \in R PROVE \E i \in 1..n : l[i] = r
  <2>1. PICK i \in 1..n : s[i] = r.key
    BY <1>1, <1>6
  <2>2. l[i] \in R /\ l[i].key = r.key
    BY <1>7, <1>8, <2>1
  <2> QED BY <2>1, <2>2
<1> QED BY <1>8, <1>9, <1>10, <1>11 DEF Lists

-----------------------------------------------------------------------------
(* The state of one PE.                                                    *)

LEMMA MatchIs ==
  ASSUME IInv, NEW p \in PE
  PROVE  /\ match[p] \in [Own(p) \union Ghosts(p) -> Held(p)]
         /\ \A v \in Own(p) : v \in Vertex /\ Owner[v] = p /\ M(v) = match[p][v] /\ M(v) \in Values
<1>1. match[p] = [v \in Own(p) \union Ghosts(p) |-> match[p][v]] /\ \A v \in Own(p) : match[p][v] \in Values
  BY DEF IInv, Typed
<1>2. \A v \in Own(p) \union Ghosts(p) : match[p][v] \in Held(p)
  BY <1>1 DEF Held
<1>3. match[p] \in [Own(p) \union Ghosts(p) -> Held(p)]
  BY <1>1, <1>2
<1> QED BY <1>1, <1>3, OwnIs DEF M

LEMMA FreshNow ==
  ASSUME IInv, NEW p \in PE, pc[p] \in {"visit", "serve", "update", "hop"}
  PROVE  Fresh(p, match[p], changed[p])
<1>1. \A i \in 1..Len(changed[p]) : changed[p][i] \in Own(p)
  BY ElementOfSeq DEF IInv, Listed
<1>2. \A i \in 1..Len(changed[p]) : match[p][changed[p][i]] = M(changed[p][i])
  BY <1>1, MatchIs
<1> QED BY <1>2 DEF IInv, Listed, Remembered, Fresh

LEMMA OrderIs ==
  ASSUME IInv, NEW p \in PE
  PROVE  /\ nvtxs[p] \in Nat /\ nmatched[p] \in Nat /\ ii[p] \in Nat \ {0} /\ last[p] \in Nat \ {0}
         /\ perm[p] \in [1..nvtxs[p] -> Own(p)] /\ iperm[p] \in [Own(p) -> 1..nvtxs[p]]
         /\ Order(p) \in Retiring(p) /\ InPlace(p, Order(p)) /\ LiveIn(p, Order(p)) = Live(p)
<1>1. /\ nvtxs[p] \in Nat /\ nmatched[p] \in Nat /\ ii[p] \in Nat \ {0} /\ last[p] \in Nat \ {0}
      /\ perm[p] \in [1..nvtxs[p] -> Own(p)] /\ iperm[p] \in [Own(p) -> 1..nvtxs[p]]
      /\ \A j \in (nmatched[p] + 1)..nvtxs[p] : iperm[p][perm[p][j]] = j
  BY OwnFinite DEF IInv, Placed
<1> QED BY <1>1 DEF Order, Retiring, InPlace, LiveIn, Live, Positions

\* The vertex that is visited, and the others that are still in the order.
LEMMA UnvisitedIs ==
  ASSUME IInv, NEW p \in PE, pc[p] \in {"visit", "hop", "local"}, NEW j \in ii[p]..nvtxs[p]
  PROVE  /\ perm[p][j] \in Own(p) /\ perm[p][j] \in Live(p)
         /\ j > ii[p] => perm[p][j] # perm[p][ii[p]]
<1>1. nvtxs[p] \in Nat /\ nmatched[p] \in Nat /\ ii[p] \in Nat \ {0} /\ perm[p] \in [1..nvtxs[p] -> Own(p)]
  BY OrderIs
<1>2. ii[p] > nmatched[p]
  BY <1>1 DEF IInv, Placed, Remembered
<1>3. j \in 1..nvtxs[p] /\ j \in (nmatched[p] + 1)..nvtxs[p]
  BY <1>1, <1>2
<1>4. perm[p][j] \in Own(p) /\ perm[p][j] \in Live(p)
  BY <1>1, <1>3 DEF Live
<1>5. ii[p] \in (nmatched[p] + 1)..nvtxs[p]
  BY <1>1, <1>2
<1>6. iperm[p][perm[p][j]] = j /\ iperm[p][perm[p][ii[p]]] = ii[p]
  BY <1>3, <1>5 DEF IInv, Placed
<1> QED BY <1>1, <1>4, <1>6

LEMMA TwoMore ==
  ASSUME NEW S, NEW c \in Seq(S), NEW i \in S, NEW k \in S
  PROVE  c \o <<i, k>> = Append(Append(c, i), k)
<1> DEFINE n == Len(c)
           a == Append(c, i)
           b == Append(a, k)
           d == c \o <<i, k>>
<1>1. n \in Nat /\ <<i, k>> \in Seq(S) /\ Len(<<i, k>>) = 2 /\ <<i, k>>[1] = i /\ <<i, k>>[2] = k
  BY LenProperties
<1>2. a \in Seq(S) /\ Len(a) = n + 1 /\ a[n + 1] = i /\ \A j \in 1..n : a[j] = c[j]
  BY AppendProperties
<1>3. b \in Seq(S) /\ Len(b) = n + 2 /\ b[n + 2] = k /\ \A j \in 1..(n + 1) : b[j] = a[j]
  <2> HIDE DEF a, n
  <2>1. b \in Seq(S) /\ Len(b) = Len(a) + 1 /\ b[Len(a) + 1] = k /\ \A j \in 1..Len(a) : b[j] = a[j]
    BY <1>2, AppendProperties
  <2> HIDE DEF b
  <2> QED BY <1>1, <1>2, <2>1
<1>4. d \in Seq(S) /\ Len(d) = n + 2 /\ (\A j \in 1..n : d[j] = c[j]) /\ d[n + 1] = i /\ d[n + 2] = k
  <2> HIDE DEF n
  <2>1. d \in Seq(S) /\ Len(d) = Len(c) + 2
    BY <1>1, ConcatProperties
  <2>2. \A j \in 1..Len(d) : d[j] = IF j <= Len(c) THEN c[j] ELSE <<i, k>>[j - Len(c)]
    BY <1>1, ConcatProperties
  <2> HIDE DEF d
  <2>3. n + 1 \in 1..Len(d) /\ n + 2 \in 1..Len(d) /\ \A j \in 1..n : j \in 1..Len(d) /\ j <= Len(c)
    BY <1>1, <2>1 DEF n
  <2>4. (n + 1) - n = 1 /\ (n + 2) - n = 2 /\ ~(n + 1 <= n) /\ ~(n + 2 <= n)
    BY <1>1
  <2> QED BY <1>1, <2>1, <2>2, <2>3, <2>4 DEF n
<1> HIDE DEF a, b, d, n
<1>5. \A j \in 1..(n + 2) : b[j] = d[j]
  <2>1. \A j \in 1..(n + 2) : j \in 1..n \/ j = n + 1 \/ j = n + 2
    BY <1>1
  <2>2. \A j \in 1..n : b[j] = d[j]
    BY <1>1, <1>2, <1>3, <1>4
  <2>3. b[n + 1] = d[n + 1] /\ b[n + 2] = d[n + 2]
    BY <1>1, <1>2, <1>3, <1>4
  <2> QED BY <2>1, <2>2, <2>3
<1>6. b = d
  BY <1>3, <1>4, <1>5, SeqEqual
<1> QED BY <1>6 DEF a, b, d
-----------------------------------------------------------------------------
(* The invariant consists of what concerns one PE and what relates PEs.    *)

Lone(v) ==
  IF mtype = "local" THEN M(v) \in {UNMATCHED, v + KeepBit}
  ELSE M(v) = TOO_HEAVY \/ (pc[Owner[v]] = "done" /\ M(v) = v + KeepBit)

Values1(p) ==
  /\ match[p] = [v \in Own(p) \union Ghosts(p) |-> match[p][v]]
  /\ \A v \in Own(p) : M(v) \in Values
Phase1(p) ==
  /\ pc[p] \in Passing \union Leaving \union Locally /\ pass[p] \in Nat /\ nkept[p] \in Int
  /\ IF mtype = "local" THEN pc[p] \in Locally ELSE pc[p] \in Passing \union Leaving
  /\ pc[p] \in {"hop", "hopRefresh"} => twohop
Collected1(q) ==
  /\ requests[q] \subseteq [key : Ghosts(q), val : Own(q)]
  /\ pc[q] # "visit" => requests[q] = {}
  /\ \A r \in requests[q] :
       /\ Fits(r.key, r.val)
       /\ match[q][r.key] = MAYBE_MATCHED /\ match[q][r.val] = MAYBE_MATCHED
  /\ \A r, s \in requests[q] : r.key = s.key \/ r.val = s.val => r = s
Single1(p) ==
  /\ \A v \in heavy \intersect Own(p) : Lone(v)
  /\ pc[p] = "done" => \A v \in Own(p) : Matched(M(v))
Placed1(p) ==
  /\ nmatched[p] \in Nat /\ ii[p] \in Nat \ {0} /\ last[p] \in Nat \ {0}
  /\ perm[p] \in [1..nvtxs[p] -> Own(p)]
  /\ iperm[p] \in [Own(p) -> 1..nvtxs[p]]
  /\ pc[p] \in {"visit", "hop"} => ii[p] > nmatched[p] /\ last[p] > nmatched[p]
  /\ \A j \in (nmatched[p] + 1)..nvtxs[p] : iperm[p][perm[p][j]] = j
Listed1(p) ==
  /\ changed[p] \in Seq(Own(p))
  /\ \A i \in 1..Len(changed[p]) : Matched(M(changed[p][i]))
  /\ \A i, j \in 1..Len(changed[p]) : changed[p][i] = changed[p][j] => i = j
Remembered1(p) ==
  /\ pc[p] \in Passing \union {"hop"} => \A v \in Own(p) : ~Matched(M(v)) => v \in Live(p)
  /\ pc[p] \in {"visit", "serve", "update", "hop"} =>
       \A i \in 1..Len(changed[p]) : changed[p][i] \in Live(p)
  /\ pc[p] \in {"local", "localRefresh"} =>
       /\ Live(p) = Own(p) /\ nmatched[p] = 0
       /\ \A j \in 1..nvtxs[p] : j < ii[p] \/ pc[p] = "localRefresh" => Matched(M(perm[p][j]))
       /\ \A v \in Own(p) : M(v) = UNMATCHED \/ Matched(M(v))

Private(p) == /\ Values1(p) /\ Phase1(p) /\ Collected1(p) /\ Single1(p)
              /\ Placed1(p) /\ Listed1(p) /\ Remembered1(p)

Shape ==
  /\ heavy \in Heavy
  /\ chan = [q \in PE |-> [p \in PE |-> chan[q][p]]]
  /\ pc = [p \in PE |-> pc[p]] /\ pass = [p \in PE |-> pass[p]] /\ match = [p \in PE |-> match[p]]
  /\ perm = [p \in PE |-> perm[p]] /\ iperm = [p \in PE |-> iperm[p]]
  /\ nmatched = [p \in PE |-> nmatched[p]] /\ ii = [p \in PE |-> ii[p]]
  /\ last = [p \in PE |-> last[p]] /\ changed = [p \in PE |-> changed[p]]
  /\ requests = [p \in PE |-> requests[p]] /\ nkept = [p \in PE |-> nkept[p]]

Shared == NotAhead /\ Boxes /\ Messages /\ AskedOnce /\ Mated

LEMMA PrivateFrom ==
  ASSUME IInv
  PROVE  Shape /\ Shared /\ \A p \in PE : Private(p)
<1>1. Shape
  BY DEF IInv, Typed, Placed, Listed, Shape
<1>2. ASSUME NEW p \in PE PROVE Private(p)
  <2>1. \A v \in Own(p) : v \in Vertex /\ Owner[v] = p /\ M(v) = match[p][v]
    BY MatchIs
  <2>2. Values1(p)
    <3>1. match = [r \in PE |-> [v \in Own(r) \union Ghosts(r) |-> match[r][v]]]
      BY DEF IInv, Typed
    <3>2. match[p] = [v \in Own(p) \union Ghosts(p) |-> match[p][v]]
      BY <3>1
    <3> QED BY <3>2, <2>1 DEF IInv, Typed, Values1
  <2>3. Phase1(p)
    BY DEF IInv, Typed, Together, Phase1
  <2>4. Collected1(p)
    BY DEF IInv, Typed, Collected, Collected1
  <2>5. Single1(p)
    BY <2>1 DEF IInv, Alone, Over, Single1, Lone
  <2>6. Placed1(p) /\ Listed1(p) /\ Remembered1(p)
    BY DEF IInv, Placed, Listed, Remembered, Placed1, Listed1, Remembered1
  <2> QED BY <2>2, <2>3, <2>4, <2>5, <2>6 DEF Private
<1> QED BY <1>1, <1>2 DEF IInv, Shared

LEMMA PrivateTo ==
  ASSUME Shape, Shared, \A p \in PE : Private(p)
  PROVE  IInv
<1>1. \A p \in PE : \A v \in Own(p) : v \in Vertex /\ Owner[v] = p /\ M(v) = match[p][v]
  BY OwnIs DEF M
<1>2. Typed
  <2>1. pc \in [PE -> Passing \union Leaving \union Locally] /\ pass \in [PE -> Nat] /\ nkept \in [PE -> Int]
    BY DEF Shape, Private, Phase1
  <2>2. \A p \in PE : match[p] = [v \in Own(p) \union Ghosts(p) |-> match[p][v]]
    BY DEF Private, Values1
  <2>3. match = [p \in PE |-> match[p]]
    BY DEF Shape
  <2>4. match = [p \in PE |-> [v \in Own(p) \union Ghosts(p) |-> match[p][v]]]
    BY <2>2, <2>3
  <2>5. \A p \in PE : \A v \in Own(p) : match[p][v] \in Values
    BY <1>1 DEF Private, Values1
  <2>6. \A p \in PE : requests[p] \subseteq [key : Ghosts(p), val : Own(p)]
    BY DEF Private, Collected1
  <2> QED BY <2>1, <2>4, <2>5, <2>6 DEF Shape, Typed
<1>3. Together
  BY DEF Private, Phase1, Together
<1>4. Collected
  BY DEF Private, Collected1, Collected
<1>5. Alone
  BY OwnerIn DEF Private, Single1, Lone, Alone
<1>6. Over
  BY DEF Private, Single1, Over
<1>7. Placed
  <2>1. nmatched \in [PE -> Nat] /\ ii \in [PE -> Nat \ {0}] /\ last \in [PE -> Nat \ {0}]
    BY DEF Private, Placed1, Shape
  <2> QED BY <2>1 DEF Private, Placed1, Shape, Placed
<1>8. Listed
  BY DEF Private, Listed1, Shape, Listed
<1>9. Remembered
  BY DEF Private, Remembered1, Remembered
<1> QED BY <1>2, <1>3, <1>4, <1>5, <1>6, <1>7, <1>8, <1>9 DEF IInv, Shared

AllPrivate == \A p \in PE : Private(p)

LEMMA PrivateIs == Shape /\ Shared /\ AllPrivate => IInv
BY PrivateTo DEF AllPrivate

\* A step of p touches no other PE's variables.
Elsewhere(p) ==
  /\ UNCHANGED setup
  /\ \A q \in PE : q # p =>
       /\ pc'[q] = pc[q] /\ pass'[q] = pass[q] /\ match'[q] = match[q] /\ perm'[q] = perm[q]
       /\ iperm'[q] = iperm[q] /\ nmatched'[q] = nmatched[q] /\ ii'[q] = ii[q] /\ last'[q] = last[q]
       /\ changed'[q] = changed[q] /\ requests'[q] = requests[q] /\ nkept'[q] = nkept[q]

\* Without the channels.
Rows == 
  /\ pc = [p \in PE |-> pc[p]] /\ pass = [p \in PE |-> pass[p]] /\ match = [p \in PE |-> match[p]]
  /\ perm = [p \in PE |-> perm[p]] /\ iperm = [p \in PE |-> iperm[p]]
  /\ nmatched = [p \in PE |-> nmatched[p]] /\ ii = [p \in PE |-> ii[p]]
  /\ last = [p \in PE |-> last[p]] /\ changed = [p \in PE |-> changed[p]]
  /\ requests = [p \in PE |-> requests[p]] /\ nkept = [p \in PE |-> nkept[p]]

LEMMA ServeDoes ==
  ASSUME NEW p \in PE, Serve(p)
  PROVE  /\ pc[p] = "serve" /\ Arrived(p)
         /\ \E nperm \in SetToSeqs(Nbrs(p)) :
              /\ match' = [match EXCEPT ![p] = ServeAll(p, nperm).match]
              /\ nkept' = [nkept EXCEPT ![p] = ServeAll(p, nperm).nkept]
              /\ changed' = [changed EXCEPT ![p] = ServeAll(p, nperm).changed]
              /\ chan' = Post(Take(chan, p, Nbrs(p)), p, [q \in Nbrs(p) |-> ServeAll(p, nperm).list[q]])
         /\ pc' = [pc EXCEPT ![p] = "update"]
         /\ UNCHANGED <<setup, pass, perm, iperm, nmatched, ii, last, requests>>
BY Zenon DEF Serve, ServeAll, Start

LEMMA UpdateDoes ==
  ASSUME NEW p \in PE, Update(p), NEW st, st = UpdateAll(p, InOrder(Nbrs(p)))
  PROVE  /\ pc[p] = "update" /\ Arrived(p)
         /\ match' = [match EXCEPT ![p] = st.match]
         /\ changed' = [changed EXCEPT ![p] = st.changed]
         /\ SetOrder(p, RetireAll(p, st.changed))
         /\ chan' = Post(Take(chan, p, Nbrs(p)), p,
                         [q \in Nbrs(p) |-> News(p, q, st.match, st.changed)])
         /\ pc' = [pc EXCEPT ![p] = "refresh"]
         /\ UNCHANGED <<setup, pass, ii, last, requests, nkept>>
BY Zenon DEF Update, UpdateAll, Updating

LEMMA StepElsewhere ==
  ASSUME Shape, NEW p \in PE, Step(p)
  PROVE  Elsewhere(p) /\ Rows'
<1> USE DEF Shape
<1>1. CASE Skip(p)
  BY <1>1 DEF Skip, Advance, setup, Elsewhere, Rows
<1>2. CASE MatchIsland(p)
  BY <1>2 DEF MatchIsland, Advance, setup, Elsewhere, Rows
<1>3. CASE MatchLocal(p)
  BY <1>3 DEF MatchLocal, Advance, setup, Elsewhere, Rows
<1>4. CASE AskRemote(p)
  BY <1>4 DEF AskRemote, Advance, setup, Elsewhere, Rows
<1>5. CASE SendRequests(p)
  BY <1>5 DEF SendRequests, setup, Elsewhere, Rows
<1>6. CASE Serve(p)
  <2>1. PICK st :
          /\ match' = [match EXCEPT ![p] = st.match]
          /\ nkept' = [nkept EXCEPT ![p] = st.nkept]
          /\ changed' = [changed EXCEPT ![p] = st.changed]
    BY <1>6, ServeDoes
  <2>2. pc' = [pc EXCEPT ![p] = "update"] /\ UNCHANGED <<setup, pass, perm, iperm, nmatched, ii, last, requests>>
    BY <1>6, ServeDoes
  <2> QED BY <2>1, <2>2 DEF setup, Elsewhere, Rows
<1>7. CASE Update(p)
  <2> DEFINE st == UpdateAll(p, InOrder(Nbrs(p)))
             order == RetireAll(p, st.changed)
  <2>1. /\ match' = [match EXCEPT ![p] = st.match]
        /\ changed' = [changed EXCEPT ![p] = st.changed]
        /\ SetOrder(p, order)
        /\ pc' = [pc EXCEPT ![p] = "refresh"] /\ UNCHANGED <<setup, pass, ii, last, requests, nkept>>
    BY <1>7, UpdateDoes
  <2> HIDE DEF order, st
  <2> QED BY <2>1 DEF SetOrder, setup, Elsewhere, Rows
<1>8. CASE Refresh(p)
  BY <1>8 DEF Refresh, setup, Elsewhere, Rows
<1>9. CASE Hop(p)
  BY <1>9 DEF Hop, Advance, setup, Elsewhere, Rows
<1>10. CASE HopPublish(p)
  BY <1>10 DEF HopPublish, SetOrder, setup, Elsewhere, Rows
<1>11. CASE HopRefresh(p)
  BY <1>11 DEF HopRefresh, setup, Elsewhere, Rows
<1>12. CASE Finish(p)
  BY <1>12 DEF Finish, setup, Elsewhere, Rows
<1>13. CASE VisitLocal(p)
  BY <1>13 DEF VisitLocal, Advance, setup, Elsewhere, Rows
<1>14. CASE PublishLocal(p)
  BY <1>14 DEF PublishLocal, setup, Elsewhere, Rows
<1>15. CASE RefreshLocal(p)
  BY <1>15 DEF RefreshLocal, setup, Elsewhere, Rows
<1> QED BY <1>1, <1>2, <1>3, <1>4, <1>5, <1>6, <1>7, <1>8, <1>9, <1>10, <1>11, <1>12, <1>13,
           <1>14, <1>15 DEF Step

LEMMA OthersPrivate ==
  ASSUME NEW p \in PE, Elsewhere(p), NEW q \in PE, q # p, Private(q)
  PROVE  Private(q)'
<1>1. /\ pc'[q] = pc[q] /\ pass'[q] = pass[q] /\ match'[q] = match[q] /\ perm'[q] = perm[q]
      /\ iperm'[q] = iperm[q] /\ nmatched'[q] = nmatched[q] /\ ii'[q] = ii[q] /\ last'[q] = last[q]
      /\ changed'[q] = changed[q] /\ requests'[q] = requests[q] /\ nkept'[q] = nkept[q]
      /\ mtype' = mtype /\ twohop' = twohop /\ heavy' = heavy
  BY DEF Elsewhere, setup
<1>2. \A v \in Own(q) : Owner[v] = q /\ M(v)' = M(v)
  BY <1>1, OwnIs DEF M
<1>3. Live(q)' = Live(q)
  BY <1>1 DEF Live
<1>4. Values1(q)'
  BY <1>1, <1>2 DEF Private, Values1
<1>5. Phase1(q)'
  BY <1>1 DEF Private, Phase1
<1>6. Collected1(q)'
  BY <1>1 DEF Private, Collected1
<1>7. Single1(q)'
  <2>1. \A v \in heavy \intersect Own(q) : Lone(v)'
    BY <1>1, <1>2 DEF Private, Single1, Lone
  <2> QED BY <1>1, <1>2, <2>1 DEF Private, Single1
<1>8. Placed1(q)'
  BY <1>1 DEF Private, Placed1
<1>9. Listed1(q)'
  <2>1. \A i \in 1..Len(changed[q]) : changed[q][i] \in Own(q)
    BY ElementOfSeq DEF Private, Listed1
  <2> QED BY <1>1, <1>2, <2>1 DEF Private, Listed1
<1>10. Remembered1(q)'
  <2>1. \A j \in 1..nvtxs[q] : perm[q][j] \in Own(q)
    BY DEF Private, Placed1
  <2> QED BY <1>1, <1>2, <1>3, <2>1 DEF Private, Remembered1
<1> QED BY <1>4, <1>5, <1>6, <1>7, <1>8, <1>9, <1>10 DEF Private
-----------------------------------------------------------------------------
(* Steps that have nothing to do with the messages.                        *)

\* The messages between PEs in a pass are left alone.
Calm ==
  /\ \A q \in PE : pc'[q] = pc[q] \/ (pc[q] \notin Passing /\ pc'[q] \notin Passing)
  /\ \A q, r \in PE : pc[q] \in Passing /\ pc[r] \in Passing => chan'[q][r] = chan[q][r]

\* Who is matched or waits for an answer keeps the value of match.
SteadyOn(S) == \A v \in S : Matched(M(v)) \/ M(v) = MAYBE_MATCHED => M(v)' = M(v)
Firm == \A v \in Vertex : Matched(M(v)) => M(v)' = M(v)

MessagesAt(p, q) ==
  /\ RequestsDue(q, p) => GoodRequests(q, p, RequestsOf(q, p))
  /\ AnswersDue(p, q) => GoodAnswers(p, q, AnswersOf(p, q))
BoxAt(q, p) == pc[p] \in Passing /\ pc[q] \in Passing => Box(q, p)

LEMMA DueIs ==
  ASSUME NEW q \in PE, NEW p \in PE
  PROVE  /\ RequestsDue(q, p) \/ AnswersDue(q, p) \/ NewsDue(q, p) => pc[q] \in Passing /\ pc[p] \in Passing
BY DEF RequestsDue, AnswersDue, NewsDue, Passing

LEMMA MessagesStay ==
  ASSUME NEW q \in PE, NEW p \in PE, pc'[q] = pc[q], pc'[p] = pc[p],
         chan'[q][p] = chan[q][p], chan'[p][q] = chan[p][q]
  PROVE  /\ RequestsDue(q, p)' <=> RequestsDue(q, p)
         /\ AnswersDue(q, p)' <=> AnswersDue(q, p)
         /\ AnswersDue(p, q)' <=> AnswersDue(p, q)
         /\ BoxAt(q, p) <=> BoxAt(q, p)'
         /\ RequestsOf(q, p)' = RequestsOf(q, p) /\ AnswersOf(q, p)' = AnswersOf(q, p)
         /\ AnswersOf(p, q)' = AnswersOf(p, q)
<1>1. /\ RequestsDue(q, p)' <=> RequestsDue(q, p)
      /\ AnswersDue(q, p)' <=> AnswersDue(q, p)
      /\ AnswersDue(p, q)' <=> AnswersDue(p, q)
      /\ NewsDue(q, p)' <=> NewsDue(q, p)
  BY DEF RequestsDue, AnswersDue, NewsDue
<1>2. BoxAt(q, p) <=> BoxAt(q, p)'
  BY <1>1 DEF Box, BoxAt
<1>3. RequestsOf(q, p)' = RequestsOf(q, p) /\ AnswersOf(q, p)' = AnswersOf(q, p)
      /\ AnswersOf(p, q)' = AnswersOf(p, q)
  BY DEF RequestsOf, AnswersOf
<1> QED BY <1>1, <1>2, <1>3

LEMMA GoodStays ==
  ASSUME NEW q \in PE, NEW p \in PE, SteadyOn(Own(q)), Firm, NEW m
  PROVE  /\ GoodRequests(q, p, m) => GoodRequests(q, p, m)'
         /\ GoodAnswers(p, q, m) => GoodAnswers(p, q, m)'
<1>1. ASSUME Asks1(q, m) PROVE Asks1(q, m)'
  <2>1. \A i \in 1..Len(m) : m[i].val \in Own(q)
    <3>1. \A i \in 1..Len(m) : m[i] \in [key : Values, val : Own(q)]
      BY <1>1, ElementOfSeq DEF Asks1
    <3> QED BY <3>1
  <2> QED BY <1>1, <2>1 DEF Asks1, SteadyOn
<1>2. ASSUME NEW i \in 1..Len(m), Grants(p, m[i]), m[i].val \in Own(q) PROVE Grants(p, m[i])'
  <2> DEFINE k == Partner(m[i].key)
             b == ~Keeps(m[i].key)
  <2>1. k \in Own(p) /\ k \in Vertex /\ M(k) = Kept(m[i].val, b) /\ Fits(k, m[i].val) /\ b \in BOOLEAN
        /\ m[i].val \in Vertex
    BY <1>2, OwnIs DEF Grants
  <2>2. Matched(M(k))
    BY <2>1, KeptIs
  <2>3. M(k)' = M(k)
    BY <2>1, <2>2 DEF Firm
  <2> QED BY <2>1, <2>3 DEF Grants
<1>3. ASSUME GoodRequests(q, p, m) PROVE GoodRequests(q, p, m)'
  BY <1>1, <1>3 DEF GoodRequests
<1>4. ASSUME GoodAnswers(p, q, m) PROVE GoodAnswers(p, q, m)'
  <2>1. \A i \in 1..Len(m) : m[i].val \in Own(q)
    <3>1. \A i \in 1..Len(m) : m[i] \in [key : Values, val : Own(q)]
      BY <1>4, ElementOfSeq DEF GoodAnswers, Asks1
    <3> QED BY <3>1
  <2> QED BY <1>1, <1>2, <1>4, <2>1 DEF GoodAnswers
<1> QED BY <1>3, <1>4

\* Partners that agree go on to do so.
LEMMA AgreedStays ==
  ASSUME NEW v \in Vertex, Agreed(v), Matched(M(v)), Firm, mtype' = mtype, twohop' = twohop
  PROVE  Agreed(v)'
<1> DEFINE u == Partner(M(v))
<1>1. u \in Vertex /\ Matched(M(u)) /\ M(v)' = M(v)
  BY DEF Agreed, Firm
<1>2. M(u)' = M(u)
  BY <1>1 DEF Firm
<1> QED BY <1>1, <1>2 DEF Agreed

LEMMA GrantedStays ==
  ASSUME NEW v \in Vertex, Granted(v), M(v)' = M(v),
         NEW u, u = Partner(M(v)), NEW q, q = Owner[v], NEW o, o = Owner[u],
         pc'[q] = pc[q], pc'[o] = pc[o], chan'[q][o] = chan[q][o], chan'[o][q] = chan[o][q]
  PROVE  Granted(v)'
<1>1. u \in Vertex /\ q \in PE /\ o \in PE
  BY OwnerIn DEF Granted
<1>2. (AnswersDue(q, o)' <=> AnswersDue(q, o)) /\ AnswersOf(q, o)' = AnswersOf(q, o)
  BY <1>1, MessagesStay
<1> QED BY <1>1, <1>2 DEF Granted

LEMMA CalmPair ==
  ASSUME Calm, NEW q \in PE, NEW p \in PE, pc[q] \in Passing \/ pc'[q] \in Passing,
         pc[p] \in Passing \/ pc'[p] \in Passing
  PROVE  /\ pc'[q] = pc[q] /\ pc'[p] = pc[p] /\ chan'[q][p] = chan[q][p] /\ chan'[p][q] = chan[p][q]
BY DEF Calm

LEMMA CalmAsking ==
  ASSUME Calm, NEW q \in PE, NEW p \in PE, requests'[q] = requests[q]
  PROVE  Asking(q, p)' = Asking(q, p)
<1>1. CASE pc[q] \in Passing /\ pc[p] \in Passing
  <2>1. pc'[q] = pc[q] /\ pc'[p] = pc[p] /\ chan'[q][p] = chan[q][p] /\ chan'[p][q] = chan[p][q]
    BY <1>1, CalmPair
  <2>2. /\ RequestsDue(q, p)' <=> RequestsDue(q, p)
        /\ AnswersDue(p, q)' <=> AnswersDue(p, q)
        /\ RequestsOf(q, p)' = RequestsOf(q, p) /\ AnswersOf(p, q)' = AnswersOf(p, q)
    BY <2>1, MessagesStay
  <2>3. /\ Vals(RequestsOf(q, p))' = Vals(RequestsOf(q, p))
        /\ Vals(AnswersOf(p, q))' = Vals(AnswersOf(p, q))
    BY <2>2 DEF Vals
  <2> QED BY <2>1, <2>2, <2>3 DEF Asking
<1>2. CASE pc[q] \in Passing /\ pc[p] \notin Passing
  <2>1. pc'[q] = pc[q] /\ pc'[p] \notin Passing
    BY <1>2 DEF Calm
  <2>2. /\ ~RequestsDue(q, p) /\ ~AnswersDue(p, q)
        /\ ~RequestsDue(q, p)' /\ ~AnswersDue(p, q)'
    BY <1>2, <2>1 DEF RequestsDue, AnswersDue, Passing
  <2> QED BY <2>1, <2>2 DEF Asking
<1>3. CASE pc[q] \notin Passing
  <2>1. pc'[q] \notin Passing
    BY <1>3 DEF Calm
  <2>2. /\ ~RequestsDue(q, p) /\ ~AnswersDue(p, q) /\ pc[q] # "visit" /\ pc'[q] # "visit"
        /\ ~RequestsDue(q, p)' /\ ~AnswersDue(p, q)'
    BY <1>3, <2>1 DEF RequestsDue, AnswersDue, Passing
  <2> QED BY <2>2 DEF Asking
<1> QED BY <1>1, <1>2, <1>3

LEMMA CalmMessages ==
  ASSUME IInv, Calm, Firm, \A q \in PE : SteadyOn(Own(q)), mtype' = mtype, twohop' = twohop
  PROVE  /\ Boxes' /\ Messages'
         /\ \A v \in Vertex : Matched(M(v)) => Agreed(v)' \/ Granted(v)'
<1>1. Boxes'
  <2> SUFFICES ASSUME NEW p \in PE, NEW q \in Nbrs(p), BoxAt(q, p) PROVE BoxAt(q, p)'
    BY DEF IInv, Boxes, BoxAt
  <2>1. q \in PE
    BY NbrsIn
  <2>2. CASE pc'[p] \in Passing /\ pc'[q] \in Passing
    BY <2>1, <2>2, CalmPair, MessagesStay
  <2>3. CASE ~(pc'[p] \in Passing /\ pc'[q] \in Passing)
    BY <2>3 DEF BoxAt
  <2> QED BY <2>2, <2>3
<1>2. Messages'
  <2> SUFFICES ASSUME NEW p \in PE, NEW q \in Nbrs(p), MessagesAt(p, q) PROVE MessagesAt(p, q)'
    BY DEF IInv, Messages, MessagesAt
  <2>1. q \in PE
    BY NbrsIn
  <2>2. CASE pc'[p] \in Passing /\ pc'[q] \in Passing
    <3>1. /\ RequestsDue(q, p)' <=> RequestsDue(q, p)
          /\ AnswersDue(p, q)' <=> AnswersDue(p, q)
          /\ RequestsOf(q, p)' = RequestsOf(q, p) /\ AnswersOf(p, q)' = AnswersOf(p, q)
      BY <2>1, <2>2, CalmPair, MessagesStay
    <3>2. /\ GoodRequests(q, p, RequestsOf(q, p)) => GoodRequests(q, p, RequestsOf(q, p))'
      BY <2>1, <3>1, GoodStays
    <3>3. /\ GoodAnswers(p, q, AnswersOf(p, q)) => GoodAnswers(p, q, AnswersOf(p, q))'
      BY <2>1, <3>1, GoodStays
    <3> QED BY <3>1, <3>2, <3>3 DEF MessagesAt
  <2>3. CASE ~(pc'[p] \in Passing /\ pc'[q] \in Passing)
    <3>1. ~RequestsDue(q, p)' /\ ~AnswersDue(p, q)'
      BY <2>3 DEF RequestsDue, AnswersDue, Passing
    <3> QED BY <3>1 DEF MessagesAt
  <2> QED BY <2>2, <2>3
<1>3. ASSUME NEW v \in Vertex, Matched(M(v)) PROVE Agreed(v)' \/ Granted(v)'
  <2>1. Agreed(v) \/ Granted(v)
    BY <1>3 DEF IInv, Mated
  <2>2. CASE Agreed(v)
    BY <1>3, <2>2, AgreedStays
  <2>3. CASE Granted(v)
    <3> DEFINE u == Partner(M(v))
               q == Owner[v]
               o == Owner[u]
    <3>1. u \in Vertex /\ AnswersDue(q, o) /\ q \in PE /\ o \in PE
      BY <2>3, OwnerIn DEF Granted
    <3>2. pc[q] \in Passing /\ pc[o] \in Passing
      BY <3>1 DEF AnswersDue, Passing
    <3>3. pc'[q] = pc[q] /\ pc'[o] = pc[o] /\ chan'[q][o] = chan[q][o] /\ chan'[o][q] = chan[o][q]
      BY <3>1, <3>2, CalmPair
    <3>4. M(v)' = M(v)
      BY <1>3 DEF Firm
    <3> HIDE DEF u, q, o
    <3> QED BY <2>3, <3>3, <3>4, GrantedStays DEF u, q, o
  <2> QED BY <2>1, <2>2, <2>3
<1> QED BY <1>1, <1>2, <1>3

LEMMA CalmNotAhead ==
  ASSUME IInv, Calm, mtype' = mtype, pass' = pass, mtype # "local" => \A q \in PE : pc'[q] \in Passing \union Leaving
  PROVE  NotAhead'
<1> SUFFICES ASSUME mtype # "local" PROVE NotAhead'
  BY DEF NotAhead
<1>1. \A q \in PE : pc[q] \in Passing \union Leaving
  BY DEF IInv, Together
<1>2. \A q \in PE : pc'[q] = pc[q] \/ (pc[q] \in Leaving /\ pc'[q] \in Leaving /\ pc[q] \notin Passing /\ pc'[q] \notin Passing)
  BY <1>1 DEF Calm
<1>3. ASSUME NEW p \in PE, NEW q \in Nbrs(p) PROVE Near(p, q)' /\ SameTime(p, q)'
  <2>1. q \in PE /\ Near(p, q) /\ SameTime(p, q)
    BY NbrsIn DEF IInv, NotAhead
  <2>2. Near(p, q)'
    BY <1>2, <2>1 DEF Near, Leaving, Passing
  <2>3. (Later(p, q)' <=> Later(p, q)) /\ (Later(q, p)' <=> Later(q, p))
    BY <1>2, <2>1 DEF Later, Passing, Leaving
  <2> QED BY <2>1, <2>2, <2>3 DEF SameTime
<1>4. \A p \in PE : IF pc'[p] \in Passing THEN pass'[p] < NPASSES ELSE pass'[p] = NPASSES
  BY <1>2 DEF IInv, NotAhead
<1> QED BY <1>3, <1>4 DEF NotAhead
\* What such a step may do to the matches of p.
Moves(p) ==
  \A v \in Own(p) : M(v)' # M(v) =>
    /\ ~Matched(M(v)) /\ M(v) # MAYBE_MATCHED
    /\ M(v)' = MAYBE_MATCHED \/ (Matched(M(v)') /\ Agreed(v)')
NoNewAsker(p) == \A v \in Own(p) : M(v)' = MAYBE_MATCHED => M(v) = MAYBE_MATCHED

LEMMA OthersKeep ==
  ASSUME NEW p \in PE, Elsewhere(p), NEW v \in Vertex, Owner[v] # p
  PROVE  M(v)' = M(v)
BY OwnerIn DEF Elsewhere, M

LEMMA MovesSteady ==
  ASSUME NEW p \in PE, Elsewhere(p), Moves(p)
  PROVE  Firm /\ \A q \in PE : SteadyOn(Own(q))
<1>1. ASSUME NEW v \in Vertex, Matched(M(v)) \/ M(v) = MAYBE_MATCHED PROVE M(v)' = M(v)
  <2>1. CASE Owner[v] = p
    BY <1>1, <2>1, OwnIs DEF Moves
  <2> QED BY <2>1, OthersKeep
<1> QED BY <1>1, OwnIs DEF Firm, SteadyOn

LEMMA CalmAsked ==
  ASSUME IInv, Calm, NEW p \in PE, Elsewhere(p), Moves(p), NoNewAsker(p), requests' = requests
  PROVE  AskedOnce'
<1> SUFFICES ASSUME NEW q \in PE, NEW v \in Own(q), M(v)' = MAYBE_MATCHED
             PROVE  \E o \in Nbrs(q) : /\ v \in Asking(q, o)'
                                       /\ \A r \in Nbrs(q) : v \in Asking(q, r)' => r = o
  BY DEF AskedOnce
<1>1. v \in Vertex /\ Owner[v] = q
  BY OwnIs
<1>2. M(v) = MAYBE_MATCHED
  BY <1>1, OthersKeep DEF NoNewAsker
<1>3. \A r \in Nbrs(q) : Asking(q, r)' = Asking(q, r)
  BY CalmAsking, NbrsIn
<1> QED BY <1>2, <1>3 DEF IInv, AskedOnce

LEMMA QuietStep ==
  ASSUME IInv, NEW p \in PE, Step(p), Calm, pass' = pass, Moves(p), Private(p)', AskedOnce',
         chan' = [q \in PE |-> [r \in PE |-> chan'[q][r]]]
  PROVE  IInv' /\ Firm
<1>1. Shape /\ \A q \in PE : Private(q)
  BY PrivateFrom
<1>2. Elsewhere(p) /\ Rows'
  BY <1>1, StepElsewhere
<1>3. mtype' = mtype /\ twohop' = twohop /\ heavy' = heavy
  BY <1>2 DEF Elsewhere, setup
<1>4. Shape'
  BY <1>1, <1>2, <1>3 DEF Shape, Rows
<1>5. \A q \in PE : Private(q)'
  BY <1>1, <1>2, OthersPrivate
<1>6. Firm /\ \A q \in PE : SteadyOn(Own(q))
  BY <1>2, MovesSteady
<1>7. Boxes' /\ Messages' /\ \A v \in Vertex : Matched(M(v)) => Agreed(v)' \/ Granted(v)'
  BY <1>3, <1>6, CalmMessages
<1>8. NotAhead'
  <2>1. mtype # "local" => \A q \in PE : pc'[q] \in Passing \union Leaving
    BY <1>3, <1>5 DEF Private, Phase1
  <2> QED BY <1>3, <2>1, CalmNotAhead
<1>9. Mated'
  <2> SUFFICES ASSUME NEW v \in Vertex, Matched(M(v)') PROVE Agreed(v)' \/ Granted(v)'
    BY DEF Mated
  <2>1. CASE M(v)' = M(v)
    BY <1>7, <2>1
  <2>2. CASE M(v)' # M(v)
    <3>1. Owner[v] = p
      BY <1>2, <2>2, OthersKeep
    <3> QED BY <2>2, <3>1, OwnIs, MarksAre DEF Moves
  <2> QED BY <2>1, <2>2
<1>10. Shared'
  BY <1>7, <1>8, <1>9 DEF Shared
<1>11. AllPrivate'
  BY <1>5 DEF AllPrivate
<1>12. IInv'
  BY <1>4, <1>10, <1>11, PrivateIs, PTL
<1> QED BY <1>6, <1>12

-----------------------------------------------------------------------------
(* Two vertices of p are matched at once.                                  *)

Paired(p, i, k) ==
  /\ i \in Own(p) /\ k \in Own(p) /\ i # k /\ match[p][i] = UNMATCHED /\ match[p][k] = UNMATCHED
  /\ match'[p] = Pair(match[p], i, k)
  /\ ~twohop \/ mtype = "local" => Home[i] = Home[k]
  /\ mtype = "local" => i \notin heavy /\ k \notin heavy

LEMMA PairedIs ==
  ASSUME IInv, NEW p \in PE, Elsewhere(p), pc'[p] = pc[p], pc[p] # "done", NEW i, NEW k, Paired(p, i, k)
  PROVE  /\ Values1(p)' /\ Single1(p)'
         /\ \A v \in Ghosts(p) : match'[p][v] = match[p][v]
         /\ M(i)' = Kept(k, i < k) /\ M(k)' = Kept(i, k < i)
         /\ \A v \in Own(p) : v = i \/ v = k \/ M(v)' = M(v)
         /\ Agreed(i)' /\ Agreed(k)' /\ Matched(M(i)') /\ Matched(M(k)')
         /\ Moves(p) /\ NoNewAsker(p)
<1>1. /\ match[p] \in [Own(p) \union Ghosts(p) -> Held(p)]
      /\ \A v \in Own(p) : v \in Vertex /\ Owner[v] = p /\ M(v) = match[p][v] /\ M(v) \in Values
  BY MatchIs
<1>2. /\ i \in Own(p) /\ k \in Own(p) /\ i \in Vertex /\ k \in Vertex /\ i # k
      /\ M(i) = UNMATCHED /\ M(k) = UNMATCHED /\ i \in Int /\ k \in Int /\ KeepBit \in Int
  BY <1>1, VertexIs DEF Paired
<1>3. match'[p] = [match[p] EXCEPT ![i] = Kept(k, i < k), ![k] = Kept(i, k < i)]
  <2>1. (i <= k <=> i < k) /\ (i > k <=> k < i)
    BY <1>2
  <2> QED BY <2>1 DEF Paired, Pair, Kept
<1>4. \A v \in Own(p) : M(v)' = match'[p][v]
  BY <1>1 DEF M
<1>5. i \notin Ghosts(p) /\ k \notin Ghosts(p)
  BY <1>2, OwnNotGhost
<1>6. /\ match'[p][i] = Kept(k, i < k) /\ match'[p][k] = Kept(i, k < i)
      /\ \A v \in Own(p) \union Ghosts(p) : v = i \/ v = k \/ match'[p][v] = match[p][v]
      /\ match'[p] = [v \in Own(p) \union Ghosts(p) |-> match'[p][v]]
  BY <1>1, <1>2, <1>3
<1>7. /\ M(i)' = Kept(k, i < k) /\ M(k)' = Kept(i, k < i)
      /\ \A v \in Own(p) : v = i \/ v = k \/ M(v)' = M(v)
      /\ \A v \in Ghosts(p) : match'[p][v] = match[p][v]
  <2>1. \A v \in Own(p) : v = i \/ v = k \/ M(v)' = M(v)
    BY <1>1, <1>4, <1>6
  <2>2. \A v \in Ghosts(p) : match'[p][v] = match[p][v]
    BY <1>5, <1>6
  <2> QED BY <1>2, <1>4, <1>6, <2>1, <2>2
<1>8. /\ M(i)' \in Values /\ Matched(M(i)') /\ Partner(M(i)') = k /\ (Keeps(M(i)') <=> i < k)
      /\ M(k)' \in Values /\ Matched(M(k)') /\ Partner(M(k)') = i /\ (Keeps(M(k)') <=> k < i)
      /\ M(i)' # MAYBE_MATCHED /\ M(k)' # MAYBE_MATCHED
  <2>1. PICK b \in BOOLEAN : b <=> i < k
    OBVIOUS
  <2>2. PICK c \in BOOLEAN : c <=> k < i
    OBVIOUS
  <2>3. M(i)' = Kept(k, b) /\ M(k)' = Kept(i, c)
    BY <1>7, <2>1, <2>2 DEF Kept
  <2>4. /\ Kept(k, b) \in Values /\ Matched(Kept(k, b)) /\ Partner(Kept(k, b)) = k
        /\ Keeps(Kept(k, b)) = b /\ Kept(k, b) # MAYBE_MATCHED
    BY <1>2, KeptIs
  <2>5. /\ Kept(i, c) \in Values /\ Matched(Kept(i, c)) /\ Partner(Kept(i, c)) = i
        /\ Keeps(Kept(i, c)) = c /\ Kept(i, c) # MAYBE_MATCHED
    BY <1>2, KeptIs
  <2> QED BY <2>1, <2>2, <2>3, <2>4, <2>5
<1>9. Values1(p)'
  BY <1>1, <1>6, <1>7, <1>8 DEF Values1
<1>10. k < i <=> ~(i < k)
  BY <1>2
<1>11. mtype' = mtype /\ twohop' = twohop /\ heavy' = heavy
  BY DEF Elsewhere, setup
<1>12. Local(i, k) /\ Local(k, i)
  BY <1>1, <1>2 DEF Local
<1>13. Agreed(i)' /\ Agreed(k)'
  <2>1. ~twohop \/ mtype = "local" => Home[i] = Home[k]
    BY DEF Paired
  <2>2. (Keeps(M(k)') = ~Keeps(M(i)')) /\ (Keeps(M(i)') = ~Keeps(M(k)'))
    BY <1>8, <1>10 DEF Keeps
  <2>3. Agreed(i)'
    BY <1>2, <1>8, <1>11, <1>12, <2>1, <2>2 DEF Agreed
  <2>4. Agreed(k)'
    BY <1>2, <1>8, <1>11, <1>12, <2>1, <2>2 DEF Agreed
  <2> QED BY <2>3, <2>4
<1>14. Moves(p) /\ NoNewAsker(p)
  BY <1>2, <1>7, <1>8, <1>13, MarksAre DEF Moves, NoNewAsker
<1>15. Single1(p)'
  <2>1. \A v \in heavy \intersect Own(p) : Lone(v)
    BY PrivateFrom DEF Private, Single1
  <2>2. ASSUME NEW v \in heavy \intersect Own(p) PROVE Lone(v)'
    <3>1. CASE v = i \/ v = k
      <4>1. mtype # "local" /\ M(v) = UNMATCHED
        BY <1>2, <3>1 DEF Paired
      <4> QED BY <1>1, <2>1, <4>1, MarksAre DEF Lone
    <3>2. CASE v # i /\ v # k
      <4>1. M(v)' = M(v) /\ Owner[v] = p
        BY <1>1, <1>7, <3>2
      <4> QED BY <1>11, <2>1, <4>1 DEF Lone
    <3> QED BY <3>1, <3>2
  <2> QED BY <1>11, <2>2 DEF Single1
<1> QED BY <1>7, <1>8, <1>9, <1>13, <1>14, <1>15

LEMMA PairedLists ==
  ASSUME IInv, NEW p \in PE, Elsewhere(p), pc'[p] = pc[p], pc[p] # "done", NEW i, NEW k, Paired(p, i, k),
         Fresh(p, match[p], changed[p]), i \in Live(p), k \in Live(p),
         changed'[p] = changed[p] \o <<i, k>>
  PROVE  Fresh(p, match'[p], changed'[p])
<1>1. /\ i \in Own(p) /\ k \in Own(p) /\ i # k /\ match[p][i] = UNMATCHED /\ match[p][k] = UNMATCHED
      /\ changed[p] \in Seq(Own(p))
  BY DEF Paired, Fresh
<1>2. \A v \in Own(p) : v \in Vertex /\ M(v) = match[p][v] /\ M(v)' = match'[p][v]
  BY MatchIs, OwnIs DEF M
<1>3. /\ Matched(match'[p][i]) /\ Matched(match'[p][k])
      /\ \A v \in Own(p) : v = i \/ v = k \/ match'[p][v] = match[p][v]
  BY <1>1, <1>2, PairedIs
<1> DEFINE m == [match[p] EXCEPT ![i] = match'[p][i]]
<1>4. m[i] = match'[p][i] /\ \A v \in Own(p) : v # i => m[v] = match[p][v]
  BY <1>1, MatchIs
<1> HIDE DEF m
<1>5. Fresh(p, m, Append(changed[p], i))
  BY <1>1, <1>3, <1>4, FreshAdds, MarksAre
<1>6. Fresh(p, match'[p], Append(Append(changed[p], i), k))
  <2>1. ~Matched(m[k]) /\ Matched(match'[p][k])
    BY <1>1, <1>3, <1>4, MarksAre
  <2>2. \A u \in Own(p) : u # k => match'[p][u] = m[u]
    BY <1>3, <1>4
  <2> DEFINE c == Append(changed[p], i)
             n == match'[p]
  <2>3. Fresh(p, m, c) /\ Matched(n[k]) /\ \A u \in Own(p) : u # k => n[u] = m[u]
    BY <1>5, <2>1, <2>2
  <2> HIDE DEF c, n
  <2>4. Fresh(p, n, Append(c, k))
    BY <1>1, <2>1, <2>3, FreshAdds
  <2> QED BY <2>4 DEF c, n
<1>7. changed'[p] = Append(Append(changed[p], i), k)
  BY <1>1, TwoMore
<1> QED BY <1>6, <1>7

LEMMA VisitPrivate ==
  ASSUME IInv, NEW p \in PE, Elsewhere(p), pc[p] \in {"visit", "hop"}, pc'[p] = pc[p], pass'[p] = pass[p],
         nkept'[p] = nkept[p], Values1(p)', Single1(p)', Collected1(p)',
         perm'[p] = perm[p], iperm'[p] = iperm[p], nmatched'[p] = nmatched[p],
         ii'[p] = ii[p] + 1, last'[p] \in Nat, last'[p] >= last[p],
         Fresh(p, match'[p], changed'[p]),
         \A v \in Own(p) : Matched(M(v)) => Matched(M(v)')
  PROVE  Private(p)'
<1>1. Private(p) /\ Placed1(p) /\ Phase1(p) /\ Remembered1(p)
  BY PrivateFrom DEF Private
<1>2. mtype' = mtype /\ twohop' = twohop
  BY DEF Elsewhere, setup
<1>3. Live(p)' = Live(p)
  BY DEF Live
<1>4. Phase1(p)'
  BY <1>1, <1>2 DEF Phase1
<1>5. Placed1(p)'
  BY <1>1 DEF Placed1
<1>6. \A i \in 1..Len(changed'[p]) : changed'[p][i] \in Own(p) /\ M(changed[p][i])' = match'[p][changed'[p][i]]
  <2>1. \A i \in 1..Len(changed'[p]) : changed'[p][i] \in Own(p)
    BY ElementOfSeq DEF Fresh
  <2> QED BY <2>1, OwnIs DEF M
<1>7. Listed1(p)'
  BY <1>6 DEF Fresh, Listed1
<1>8. Remembered1(p)'
  BY <1>1, <1>3 DEF Fresh, Remembered1, Passing
<1> QED BY <1>4, <1>5, <1>7, <1>8 DEF Private
LEMMA Idle ==
  ASSUME IInv, NEW p \in PE, Elsewhere(p), pc'[p] = "done" <=> pc[p] = "done",
         match'[p] = [v \in Own(p) \union Ghosts(p) |-> match'[p][v]],
         \A v \in Own(p) : match'[p][v] = match[p][v]
  PROVE  /\ Values1(p)' /\ Single1(p)' /\ Moves(p) /\ NoNewAsker(p)
         /\ \A v \in Own(p) : M(v)' = M(v)
<1>1. Private(p)
  BY PrivateFrom
<1>2. \A v \in Own(p) : M(v)' = M(v) /\ Owner[v] = p
  BY OwnIs DEF M
<1>3. mtype' = mtype /\ heavy' = heavy
  BY DEF Elsewhere, setup
<1>4. Values1(p)'
  BY <1>1, <1>2 DEF Private, Values1
<1>5. Single1(p)'
  <2>1. \A v \in heavy \intersect Own(p) : Lone(v)'
    BY <1>1, <1>2, <1>3 DEF Private, Single1, Lone
  <2> QED BY <1>1, <1>2, <1>3, <2>1 DEF Private, Single1
<1> QED BY <1>2, <1>4, <1>5 DEF Moves, NoNewAsker

LEMMA Unmoved ==
  ASSUME IInv, NEW p \in PE, match'[p] = match[p]
  PROVE  /\ match'[p] = [v \in Own(p) \union Ghosts(p) |-> match'[p][v]]
         /\ \A v \in Own(p) : match'[p][v] = match[p][v]
BY PrivateFrom DEF Private, Values1

LEMMA CollectedStays ==
  ASSUME IInv, NEW p \in PE, Elsewhere(p), pc'[p] = pc[p], requests'[p] = requests[p], Moves(p),
         \A v \in Ghosts(p) : match'[p][v] = match[p][v]
  PROVE  Collected1(p)'
<1>1. Collected1(p)
  BY PrivateFrom DEF Private
<1>2. ASSUME NEW r \in requests[p]
      PROVE  match'[p][r.key] = MAYBE_MATCHED /\ match'[p][r.val] = MAYBE_MATCHED
  <2>1. r.key \in Ghosts(p) /\ r.val \in Own(p) /\ match[p][r.val] = MAYBE_MATCHED
        /\ match[p][r.key] = MAYBE_MATCHED
    BY <1>1 DEF Collected1
  <2>2. M(r.val) = match[p][r.val] /\ M(r.val)' = match'[p][r.val]
    BY <2>1, OwnIs DEF M
  <2> QED BY <2>1, <2>2 DEF Moves
<1> QED BY <1>1, <1>2 DEF Collected1

\* A step that goes on in the order without a word to anybody.
LEMMA VisitStep ==
  ASSUME IInv, NEW p \in PE, Step(p), pc[p] \in {"visit", "hop"},
         UNCHANGED <<pc, pass, perm, iperm, nmatched, requests, nkept, chan>>,
         ii'[p] = ii[p] + 1, last'[p] \in Nat, last'[p] >= last[p],
         Values1(p)', Single1(p)', Moves(p), NoNewAsker(p),
         \A v \in Ghosts(p) : match'[p][v] = match[p][v],
         Fresh(p, match'[p], changed'[p])
  PROVE  IInv' /\ Firm
<1>1. Elsewhere(p)
  BY PrivateFrom, StepElsewhere
<1>2. Collected1(p)'
  BY <1>1, CollectedStays
<1>3. \A v \in Own(p) : Matched(M(v)) => Matched(M(v)')
  BY DEF Moves
<1>4. Private(p)'
  BY <1>1, <1>2, <1>3, VisitPrivate
<1>5. Calm
  BY DEF Calm
<1>6. AskedOnce'
  BY <1>1, <1>5, CalmAsked
<1>7. chan' = [q \in PE |-> [r \in PE |-> chan'[q][r]]]
  BY PrivateFrom DEF Shape
<1> QED BY <1>4, <1>5, <1>6, <1>7, QuietStep

LEMMA SkipKeeps ==
  ASSUME IInv, NEW p \in PE, Skip(p)
  PROVE  IInv' /\ Firm
<1>1. Step(p) /\ Elsewhere(p)
  BY PrivateFrom, StepElsewhere DEF Step
<1>2. /\ pc[p] = "visit" /\ match'[p] = match[p] /\ changed'[p] = changed[p]
      /\ UNCHANGED <<pc, pass, perm, iperm, nmatched, requests, nkept, chan>>
      /\ ii' = [ii EXCEPT ![p] = @ + 1] /\ last' = last
  BY DEF Skip, Visiting, Advance
<1>3. ii'[p] = ii[p] + 1 /\ last'[p] \in Nat /\ last'[p] >= last[p]
  BY <1>2, PrivateFrom, OrderIs DEF Shape
<1>4. Values1(p)' /\ Single1(p)' /\ Moves(p) /\ NoNewAsker(p)
  BY <1>1, <1>2, Idle, Unmoved
<1>5. Fresh(p, match'[p], changed'[p])
  BY <1>2, FreshNow
<1> QED BY <1>1, <1>2, <1>3, <1>4, <1>5, VisitStep

LEMMA PairedStep ==
  ASSUME IInv, NEW p \in PE, Step(p), pc[p] \in {"visit", "hop"},
         UNCHANGED <<pc, pass, perm, iperm, nmatched, requests, nkept, chan>>,
         ii'[p] = ii[p] + 1, last'[p] \in Nat, last'[p] >= last[p],
         NEW i, NEW k, Paired(p, i, k), i \in Live(p), k \in Live(p),
         changed'[p] = changed[p] \o <<i, k>>
  PROVE  IInv' /\ Firm
<1>1. Elsewhere(p)
  BY PrivateFrom, StepElsewhere
<1>2. /\ Values1(p)' /\ Single1(p)' /\ Moves(p) /\ NoNewAsker(p)
      /\ \A v \in Ghosts(p) : match'[p][v] = match[p][v]
  BY <1>1, PairedIs
<1>3. Fresh(p, match'[p], changed'[p])
  BY <1>1, FreshNow, PairedLists
<1> QED BY <1>2, <1>3, VisitStep

LEMMA MatchLocalKeeps ==
  ASSUME IInv, NEW p \in PE, MatchLocal(p)
  PROVE  IInv' /\ Firm
<1> DEFINE i == Unvisited(p)
<1>1. Step(p) /\ Elsewhere(p)
  BY PrivateFrom, StepElsewhere DEF Step
<1>2. /\ pc[p] = "visit" /\ ii[p] <= nvtxs[p] /\ match[p][i] = UNMATCHED
      /\ UNCHANGED <<pc, pass, perm, iperm, nmatched, requests, nkept, chan>>
      /\ ii' = [ii EXCEPT ![p] = @ + 1] /\ last' = last
  BY DEF MatchLocal, Visiting, Advance
<1>3. PICK k \in Heaviest(p, i) \intersect Own(p) :
        /\ match' = [match EXCEPT ![p] = Pair(@, i, k)]
        /\ changed' = [changed EXCEPT ![p] = @ \o <<i, k>>]
  BY DEF MatchLocal
<1>4. ii'[p] = ii[p] + 1 /\ last'[p] \in Nat /\ last'[p] >= last[p]
      /\ match'[p] = Pair(match[p], i, k) /\ changed'[p] = changed[p] \o <<i, k>>
  BY <1>2, <1>3, PrivateFrom, OrderIs DEF Shape
<1>5. ii[p] \in ii[p]..nvtxs[p]
  BY <1>2, OrderIs
<1>6. i \in Own(p) /\ i \in Live(p)
  BY <1>2, <1>5, UnvisitedIs DEF Unvisited
<1>7. k \in Own(p) /\ k \in Adj[i] /\ match[p][k] = UNMATCHED /\ Home[k] = Home[i]
  BY <1>3 DEF Heaviest, Candidates
<1>8. k # i
  BY <1>6, <1>7, LoopAssumption, OwnIs
<1>9. k \in Live(p)
  <2>1. ~Matched(M(k))
    BY <1>7, MatchIs, MarksAre
  <2>2. Remembered1(p) /\ pc[p] \in Passing
    BY <1>2, PrivateFrom DEF Private, Passing
  <2> QED BY <1>7, <2>1, <2>2 DEF Remembered1
<1>10. mtype # "local"
  BY <1>2, PrivateFrom DEF Private, Phase1, Locally
<1>11. Paired(p, i, k)
  BY <1>2, <1>4, <1>6, <1>7, <1>8, <1>10 DEF Paired
<1> HIDE DEF i
<1> QED BY <1>1, <1>2, <1>4, <1>6, <1>9, <1>11, PairedStep

LEMMA MatchIslandKeeps ==
  ASSUME IInv, NEW p \in PE, MatchIsland(p)
  PROVE  IInv' /\ Firm
<1> DEFINE i == Unvisited(p)
           from == (IF ii[p] > last[p] THEN ii[p] ELSE last[p]) + 1
           Fit == {j \in from..nvtxs[p] : match[p][perm[p][j]] = UNMATCHED
                                          /\ Home[perm[p][j]] = Home[i]}
           j == CHOOSE x \in Fit : \A y \in Fit : x <= y
<1>1. Step(p) /\ Elsewhere(p)
  BY PrivateFrom, StepElsewhere DEF Step
<1>2. /\ pc[p] = "visit" /\ ii[p] <= nvtxs[p] /\ match[p][i] = UNMATCHED
      /\ UNCHANGED <<pc, pass, perm, iperm, nmatched, requests, nkept, chan>>
      /\ ii' = [ii EXCEPT ![p] = @ + 1]
  BY DEF MatchIsland, Visiting, Advance
<1>3. IF Fit = {}
      THEN /\ last' = [last EXCEPT ![p] = IF from > nvtxs[p] THEN from ELSE nvtxs[p] + 1]
           /\ UNCHANGED <<match, changed>>
      ELSE /\ last' = [last EXCEPT ![p] = j]
           /\ match' = [match EXCEPT ![p] = Pair(@, i, perm[p][j])]
           /\ changed' = [changed EXCEPT ![p] = @ \o <<i, perm[p][j]>>]
  BY DEF MatchIsland
<1>4. /\ nvtxs[p] \in Nat /\ ii[p] \in Nat /\ last[p] \in Nat /\ from \in Nat /\ from > ii[p] /\ from > last[p]
  BY OrderIs
<1> HIDE DEF from, Fit, j
<1>5. ii[p] \in ii[p]..nvtxs[p] /\ ii'[p] = ii[p] + 1
  BY <1>2, <1>4, PrivateFrom DEF Shape
<1>6. i \in Own(p) /\ i \in Live(p)
  BY <1>2, <1>5, UnvisitedIs DEF Unvisited
<1>7. CASE Fit = {}
  <2>1. last'[p] \in Nat /\ last'[p] >= last[p] /\ match'[p] = match[p] /\ changed'[p] = changed[p]
    BY <1>3, <1>4, <1>7, PrivateFrom DEF Shape
  <2>2. Values1(p)' /\ Single1(p)' /\ Moves(p) /\ NoNewAsker(p)
    BY <1>1, <1>2, <2>1, Idle, Unmoved
  <2>3. Fresh(p, match'[p], changed'[p])
    BY <1>2, <2>1, FreshNow
  <2> QED BY <1>1, <1>2, <1>5, <2>1, <2>2, <2>3, VisitStep
<1>8. CASE Fit # {}
  <2>1. j \in Fit
    <3>1. Fit \subseteq from..nvtxs[p]
      BY DEF Fit
    <3>2. Fit \subseteq Int /\ IsFiniteSet(Fit)
      <4>1. IsFiniteSet(from..nvtxs[p])
        <5>1. \A a, b \in Int : IsFiniteSet(a..b)
          BY FS_Interval
        <5> QED BY <1>4, <5>1
      <4>2. IsFiniteSet(Fit)
        BY <3>1, <4>1, FS_Subset
      <4> QED BY <3>1, <4>2
    <3>3. \E x \in Fit : \A y \in Fit : x <= y
      BY <1>8, <3>2, Least
    <3> QED BY <3>3 DEF j
  <2> DEFINE k == perm[p][j]
  <2>2. j \in from..nvtxs[p] /\ match[p][k] = UNMATCHED /\ Home[k] = Home[i]
    BY <2>1 DEF Fit
  <2>3. j \in ii[p]..nvtxs[p] /\ j > ii[p] /\ j \in Nat /\ j >= last[p]
    BY <1>4, <2>2
  <2>4. k \in Own(p) /\ k \in Live(p) /\ k # i
    BY <1>2, <2>3, UnvisitedIs DEF Unvisited
  <2>5. last'[p] \in Nat /\ last'[p] >= last[p] /\ match'[p] = Pair(match[p], i, k)
        /\ changed'[p] = changed[p] \o <<i, k>>
    BY <1>3, <1>8, <2>3, PrivateFrom DEF Shape
  <2>6. mtype # "local"
    BY <1>2, PrivateFrom DEF Private, Phase1, Locally
  <2> HIDE DEF i
  <2>7. Paired(p, i, k)
    BY <1>2, <1>6, <2>2, <2>4, <2>5, <2>6 DEF Paired
  <2> HIDE DEF k
  <2> QED BY <1>1, <1>2, <1>5, <1>6, <2>4, <2>5, <2>7, PairedStep
<1> QED BY <1>7, <1>8

LEMMA HopKeeps ==
  ASSUME IInv, NEW p \in PE, Hop(p)
  PROVE  IInv' /\ Firm
<1> DEFINE i == Unvisited(p)
           Mates == IF match[p][i] = UNMATCHED /\ degree[i] <= avgdegree[p] THEN HopMates(p, i) ELSE {}
<1>1. Step(p) /\ Elsewhere(p)
  BY PrivateFrom, StepElsewhere DEF Step
<1>2. /\ pc[p] = "hop" /\ ii[p] <= nvtxs[p]
      /\ UNCHANGED <<pc, pass, perm, iperm, nmatched, requests, nkept, chan>>
      /\ ii' = [ii EXCEPT ![p] = @ + 1] /\ last' = last
      /\ \/ UNCHANGED <<match, changed>>
         \/ \E k \in Mates : /\ match' = [match EXCEPT ![p] = Pair(@, i, k)]
                             /\ changed' = [changed EXCEPT ![p] = @ \o <<i, k>>]
  BY DEF Hop, Advance
<1> HIDE DEF Mates
<1>3. ii'[p] = ii[p] + 1 /\ last'[p] \in Nat /\ last'[p] >= last[p]
  BY <1>2, PrivateFrom, OrderIs DEF Shape
<1>4. ii[p] \in ii[p]..nvtxs[p]
  BY <1>2, OrderIs
<1>5. i \in Own(p) /\ i \in Live(p)
  BY <1>2, <1>4, UnvisitedIs DEF Unvisited
<1>6. CASE UNCHANGED <<match, changed>>
  <2>1. match'[p] = match[p] /\ changed'[p] = changed[p]
    BY <1>6
  <2>2. Values1(p)' /\ Single1(p)' /\ Moves(p) /\ NoNewAsker(p)
    BY <1>1, <1>2, <2>1, Idle, Unmoved
  <2>3. Fresh(p, match'[p], changed'[p])
    BY <1>2, <2>1, FreshNow
  <2> QED BY <1>1, <1>2, <1>3, <2>1, <2>2, <2>3, VisitStep
<1>7. ASSUME NEW k \in Mates, match' = [match EXCEPT ![p] = Pair(@, i, k)],
             changed' = [changed EXCEPT ![p] = @ \o <<i, k>>]
      PROVE  IInv' /\ Firm
  <2>1. match[p][i] = UNMATCHED /\ k \in Own(p) /\ k # i /\ match[p][k] = UNMATCHED
    BY <1>7 DEF Mates, HopMates
  <2>2. match'[p] = Pair(match[p], i, k) /\ changed'[p] = changed[p] \o <<i, k>>
    BY <1>7, PrivateFrom DEF Shape
  <2>3. k \in Live(p)
    <3>1. ~Matched(M(k))
      BY <2>1, MatchIs, MarksAre
    <3> QED BY <1>2, <2>1, <3>1, PrivateFrom DEF Private, Remembered1
  <2>4. mtype # "local" /\ twohop
    BY <1>2, PrivateFrom DEF Private, Phase1, Locally
  <2>5. Paired(p, i, k)
    BY <1>5, <2>1, <2>2, <2>4 DEF Paired
  <2> HIDE DEF i
  <2> QED BY <1>1, <1>2, <1>3, <1>5, <2>2, <2>3, <2>5, PairedStep
<1> QED BY <1>2, <1>6, <1>7
LEMMA AskRemoteKeeps ==
  ASSUME IInv, NEW p \in PE, AskRemote(p)
  PROVE  IInv' /\ Firm
<1>0. PICK i : i = Unvisited(p)
  OBVIOUS
<1>1. Step(p) /\ Elsewhere(p)
  BY PrivateFrom, StepElsewhere DEF Step
<1>2. /\ pc[p] = "visit" /\ ii[p] <= nvtxs[p] /\ match[p][i] = UNMATCHED
      /\ UNCHANGED <<pc, pass, perm, iperm, nmatched, nkept, chan>>
      /\ ii' = [ii EXCEPT ![p] = @ + 1] /\ last' = last /\ changed' = changed
  BY <1>0 DEF AskRemote, Visiting, Advance
<1>3. PICK k \in Heaviest(p, i) \ Own(p) :
        IF Asks(p, i, k)
        THEN /\ match' = [match EXCEPT ![p][k] = MAYBE_MATCHED, ![p][i] = MAYBE_MATCHED]
             /\ requests' = [requests EXCEPT ![p] = @ \union {[key |-> k, val |-> i]}]
        ELSE /\ match' = [match EXCEPT ![p][k] = MAYBE_MATCHED]
             /\ UNCHANGED requests
  BY <1>0 DEF AskRemote
<1> DEFINE asks == Asks(p, i, k)
           new == [key |-> k, val |-> i]
<1>4. /\ ii'[p] = ii[p] + 1 /\ last'[p] \in Nat /\ last'[p] >= last[p]
      /\ asks => requests'[p] = requests[p] \union {new}
      /\ ~asks => requests' = requests
  BY <1>2, <1>3, PrivateFrom, OrderIs DEF Shape
<1>5. ii[p] \in ii[p]..nvtxs[p]
  BY <1>2, OrderIs
<1>6. i \in Own(p)
  BY <1>0, <1>2, <1>5, UnvisitedIs DEF Unvisited
<1>7. k \in Adj[i] /\ k \notin Own(p) /\ match[p][k] = UNMATCHED /\ Home[k] = Home[i]
  BY <1>3 DEF Heaviest, Candidates
<1> HIDE DEF asks
<1>8. k \in Ghosts(p) /\ i \in Adj[k] /\ k # i /\ Owner[k] \in Nbrs(p) /\ i \in Vertex /\ Owner[i] = p
  BY <1>6, <1>7, EdgeKnown, OwnIs, AdjAssumption
<1>9. /\ match[p] \in [Own(p) \union Ghosts(p) -> Held(p)]
      /\ \A v \in Own(p) : v \in Vertex /\ Owner[v] = p /\ M(v) = match[p][v] /\ M(v) \in Values
  BY MatchIs
<1>10. /\ match'[p][k] = MAYBE_MATCHED /\ (asks => match'[p][i] = MAYBE_MATCHED) /\ (~asks => match'[p][i] = UNMATCHED)
       /\ match'[p] = [v \in Own(p) \union Ghosts(p) |-> match'[p][v]]
       /\ \A v \in Own(p) \union Ghosts(p) : v = i \/ v = k \/ match'[p][v] = match[p][v]
  <2>1. DOMAIN match = PE
    BY PrivateFrom DEF Shape
  <2>2. CASE asks
    <3>1. match'[p] = [match[p] EXCEPT ![k] = MAYBE_MATCHED, ![i] = MAYBE_MATCHED]
      BY <1>3, <2>1, <2>2 DEF asks
    <3> QED BY <1>6, <1>8, <1>9, <2>2, <3>1
  <2>3. CASE ~asks
    <3>1. match'[p] = [match[p] EXCEPT ![k] = MAYBE_MATCHED]
      BY <1>3, <2>1, <2>3 DEF asks
    <3> QED BY <1>2, <1>6, <1>8, <1>9, <2>3, <3>1
  <2> QED BY <2>2, <2>3
<1>11. \A v \in Own(p) : M(v)' = match'[p][v] /\ v # k
  BY <1>7, <1>9 DEF M
<1>12. /\ M(i) = UNMATCHED /\ (asks => M(i)' = MAYBE_MATCHED) /\ (~asks => M(i)' = UNMATCHED)
       /\ \A v \in Own(p) : v = i \/ M(v)' = M(v)
  <2>1. match[p][i] = UNMATCHED
    BY <1>2
  <2> QED BY <1>6, <1>9, <1>10, <1>11, <2>1
<1>13. Values1(p)'
  BY <1>9, <1>10, <1>12, MarksAre DEF Values1
<1>14. Moves(p)
  BY <1>12, MarksAre DEF Moves
<1>15. Single1(p)'
  <2>1. mtype' = mtype /\ heavy' = heavy /\ pc'[p] = pc[p]
    BY <1>1, <1>2 DEF Elsewhere, setup
  <2>2. mtype # "local" /\ \A v \in heavy \intersect Own(p) : Lone(v)
    BY <1>2, PrivateFrom DEF Private, Phase1, Single1, Locally
  <2>3. \A v \in heavy \intersect Own(p) : Lone(v)'
    BY <1>2, <1>9, <1>12, <2>1, <2>2, MarksAre DEF Lone
  <2> QED BY <1>2, <2>1, <2>3 DEF Single1
<1>16. /\ Collected1(p) /\ requests[p] \subseteq [key : Ghosts(p), val : Own(p)]
       /\ \A r \in requests[p] : /\ r.key \in Ghosts(p) /\ r.val \in Own(p) /\ r.key # k /\ r.val # i
                                 /\ r.key # i /\ r.val # k
                                 /\ match[p][r.key] = MAYBE_MATCHED /\ match[p][r.val] = MAYBE_MATCHED
  <2>1. Collected1(p)
    BY PrivateFrom DEF Private
  <2>2. match[p][i] = UNMATCHED /\ i \notin Ghosts(p)
    BY <1>2, <1>6, OwnNotGhost
  <2> QED BY <1>7, <2>1, <2>2, MarksAre DEF Collected1
<1>17. Collected1(p)'
  <2>1. \A r \in requests'[p] : r \in requests[p] \/ (asks /\ r = new)
    BY <1>4
  <2>2. requests'[p] \subseteq [key : Ghosts(p), val : Own(p)]
    BY <1>6, <1>8, <1>16, <2>1
  <2>3. \A r \in requests'[p] : /\ Fits(r.key, r.val)
                               /\ match'[p][r.key] = MAYBE_MATCHED /\ match'[p][r.val] = MAYBE_MATCHED
    <3> SUFFICES ASSUME NEW r \in requests'[p]
                 PROVE  Fits(r.key, r.val) /\ match'[p][r.key] = MAYBE_MATCHED /\ match'[p][r.val] = MAYBE_MATCHED
      OBVIOUS
    <3>1. CASE r \in requests[p]
      BY <1>10, <1>16, <3>1 DEF Collected1
    <3>2. CASE asks /\ r = new
      BY <1>7, <1>8, <1>10, <3>2 DEF Fits
    <3> QED BY <2>1, <3>1, <3>2
  <2>4. \A r, s \in requests'[p] : r.key = s.key \/ r.val = s.val => r = s
    BY <1>16, <2>1 DEF Collected1
  <2> QED BY <1>2, <2>2, <2>3, <2>4 DEF Collected1
<1>18. Fresh(p, match'[p], changed'[p])
  <2>1. \A v \in Own(p) : Matched(match[p][v]) => Matched(match'[p][v])
    BY <1>9, <1>11, <1>12, MarksAre
  <2> QED BY <1>2, <2>1, FreshNow, FreshStays
<1>19. Private(p)'
  <2>1. \A v \in Own(p) : Matched(M(v)) => Matched(M(v)')
    BY <1>12, MarksAre
  <2> QED BY <1>1, <1>2, <1>4, <1>13, <1>15, <1>17, <1>18, <2>1, VisitPrivate
<1>20. Calm
  BY <1>2 DEF Calm
<1>21. AskedOnce'
  <2> SUFFICES ASSUME NEW q \in PE, NEW v \in Own(q), M(v)' = MAYBE_MATCHED
               PROVE  \E o \in Nbrs(q) : /\ v \in Asking(q, o)'
                                         /\ \A r \in Nbrs(q) : v \in Asking(q, r)' => r = o
    BY DEF AskedOnce
  <2>1. v \in Vertex /\ Owner[v] = q
    BY OwnIs
  <2>2. \A o \in PE : Asking(p, o)' = {r.val : r \in {s \in requests'[p] : Owner[s.key] = o}}
    BY <1>2 DEF Asking
  <2>3. \A o \in PE : Asking(p, o) = {r.val : r \in {s \in requests[p] : Owner[s.key] = o}}
    BY <1>2 DEF Asking
  <2>4. CASE q = p /\ v = i
    <3>1. asks
      BY <1>12, <2>4, MarksAre
    <3>2. i \in Asking(p, Owner[k])'
      <4>1. new \in requests'[p] /\ new.key = k /\ new.val = i /\ Owner[k] \in PE
        BY <1>4, <1>8, <3>1, NbrsIn
      <4> HIDE DEF new
      <4> QED BY <2>2, <4>1
    <3>3. ASSUME NEW r \in Nbrs(p), i \in Asking(p, r)' PROVE r = Owner[k]
      <4>1. PICK s \in requests'[p] : Owner[s.key] = r /\ s.val = i
        BY <2>2, <3>3, NbrsIn
      <4> QED BY <1>4, <1>16, <4>1
    <3> QED BY <1>8, <2>4, <3>2, <3>3
  <2>5. CASE ~(q = p /\ v = i)
    <3>1. M(v) = MAYBE_MATCHED
      BY <1>1, <1>12, <2>1, <2>5, OthersKeep
    <3>2. \A o \in Nbrs(q) : v \in Asking(q, o)' <=> v \in Asking(q, o)
      <4>1. CASE q = p
        BY <1>4, <2>2, <2>3, <2>5, <4>1, NbrsIn
      <4>2. CASE q # p
        <5>1. requests'[q] = requests[q]
          BY <1>1, <4>2 DEF Elsewhere
        <5> QED BY <1>20, <5>1, CalmAsking, NbrsIn
      <4> QED BY <4>1, <4>2
    <3> QED BY <3>1, <3>2 DEF IInv, AskedOnce
  <2> QED BY <2>4, <2>5
<1>22. chan' = [q \in PE |-> [r \in PE |-> chan'[q][r]]]
  BY <1>2, PrivateFrom DEF Shape
<1> QED BY <1>1, <1>2, <1>14, <1>19, <1>20, <1>21, <1>22, QuietStep
-----------------------------------------------------------------------------
(* The ends: the two-hop matching, the last vertices, Match_Local.         *)

LEMMA ExchangedIs ==
  ASSUME NEW p \in PE, NEW data, data = [v \in Own(p) \union Ghosts(p) |-> data[v]],
         NEW new, new = Exchanged(chan, p, data)
  PROVE  new = [v \in Own(p) \union Ghosts(p) |-> new[v]] /\ \A v \in Own(p) : new[v] = data[v]
<1>1. DOMAIN data = Own(p) \union Ghosts(p)
  OBVIOUS
<1>2. \A v \in Own(p) : v \notin Ghosts(p)
  BY OwnNotGhost
<1> QED BY <1>1, <1>2 DEF Exchanged

\* A PE that is not in a pass does not wait for an answer.
LEMMA NobodyWaits ==
  ASSUME IInv, NEW q \in PE, pc[q] \notin Passing, NEW v \in Own(q)
  PROVE  M(v) # MAYBE_MATCHED
<1> SUFFICES ASSUME M(v) = MAYBE_MATCHED PROVE FALSE
  OBVIOUS
<1>1. PICK o \in Nbrs(q) : v \in Asking(q, o)
  BY DEF IInv, AskedOnce
<1>2. ~RequestsDue(q, o) /\ ~AnswersDue(o, q) /\ pc[q] # "visit"
  BY DEF RequestsDue, AnswersDue, Passing
<1> QED BY <1>1, <1>2 DEF Asking

\* A step of p outside the passes that leaves the matches of p's own vertices alone.
LEMMA LeaveStep ==
  ASSUME IInv, NEW p \in PE, Step(p), pc[p] \in {"hop", "hopRefresh", "local", "localRefresh"},
         pc'[p] \in {"hopRefresh", "finish", "localRefresh", "done"},
         Phase1(p)', Placed1(p)', Remembered1(p)',
         pc'[p] = "done" => \A v \in Own(p) : Matched(M(v)),
         UNCHANGED <<pass, changed, requests>>,
         match'[p] = [v \in Own(p) \union Ghosts(p) |-> match'[p][v]],
         \A v \in Own(p) : match'[p][v] = match[p][v],
         chan' = [q \in PE |-> [r \in PE |-> chan'[q][r]]],
         \A q, r \in PE : q # p /\ r # p => chan'[q][r] = chan[q][r]
  PROVE  IInv' /\ Firm
<1>1. Elsewhere(p) /\ Private(p)
  BY PrivateFrom, StepElsewhere
<1>2. \A v \in Own(p) : M(v)' = M(v) /\ Owner[v] = p
  BY OwnIs DEF M
<1>3. mtype' = mtype /\ twohop' = twohop /\ heavy' = heavy
  BY <1>1 DEF Elsewhere, setup
<1>4. Values1(p)'
  BY <1>1, <1>2 DEF Private, Values1
<1>5. pc[p] \notin Passing /\ pc'[p] \notin Passing
  BY DEF Passing
<1>6. Single1(p)'
  <2>1. \A v \in heavy \intersect Own(p) : Lone(v)'
    BY <1>1, <1>2, <1>3 DEF Private, Single1, Lone
  <2> QED BY <1>2, <1>3, <2>1 DEF Single1
<1>7. Collected1(p)'
  <2>1. requests[p] = {} /\ requests'[p] = {}
    BY <1>1 DEF Private, Collected1
  <2> QED BY <2>1 DEF Collected1
<1>8. Listed1(p)'
  <2>1. \A i \in 1..Len(changed[p]) : changed[p][i] \in Own(p)
    BY <1>1, ElementOfSeq DEF Private, Listed1
  <2> QED BY <1>1, <1>2, <2>1 DEF Private, Listed1
<1>9. Private(p)'
  BY <1>4, <1>6, <1>7, <1>8 DEF Private
<1>10. Moves(p) /\ NoNewAsker(p)
  BY <1>2 DEF Moves, NoNewAsker
<1>11. Calm
  <2>1. \A q \in PE : q # p => pc'[q] = pc[q]
    BY <1>1 DEF Elsewhere
  <2> QED BY <1>5, <2>1 DEF Calm
<1>12. AskedOnce'
  BY <1>1, <1>10, <1>11, CalmAsked
<1> QED BY <1>9, <1>10, <1>11, <1>12, QuietStep

LEMMA HopPublishKeeps ==
  ASSUME IInv, NEW p \in PE, HopPublish(p)
  PROVE  IInv' /\ Firm
<1> DEFINE order == RetireAll(p, changed[p])
           msgs == [q \in Nbrs(p) |-> News(p, q, match[p], changed[p])]
<1>1. Step(p) /\ Elsewhere(p) /\ Private(p)
  BY PrivateFrom, StepElsewhere DEF Step
<1>2. /\ pc[p] = "hop" /\ SetOrder(p, order) /\ chan' = Post(chan, p, msgs)
      /\ pc' = [pc EXCEPT ![p] = "hopRefresh"]
      /\ UNCHANGED <<setup, pass, match, ii, last, changed, requests, nkept>>
  BY DEF HopPublish
<1>3. order \in Retiring(p) /\ InPlace(p, order)
  <2>1. Fresh(p, match[p], changed[p])
    BY <1>2, FreshNow
  <2> QED BY <2>1, OrderIs, RetireAllIs DEF Fresh
<1> HIDE DEF order, msgs
<1>4. pc'[p] = "hopRefresh" /\ perm'[p] = order.perm /\ iperm'[p] = order.iperm /\ nmatched'[p] = order.nmatched
  BY <1>2, PrivateFrom DEF Shape, SetOrder
<1>5. Placed1(p)'
  BY <1>1, <1>2, <1>3, <1>4 DEF Private, Placed1, Retiring, InPlace, Positions
<1>6. Phase1(p)'
  BY <1>1, <1>2, <1>4 DEF Private, Phase1, setup, Leaving, Locally
<1>7. Remembered1(p)'
  BY <1>4 DEF Remembered1, Passing
<1>8. /\ chan' = [q \in PE |-> [r \in PE |-> chan'[q][r]]]
      /\ \A q, r \in PE : q # p /\ r # p => chan'[q][r] = chan[q][r]
  BY <1>2, PrivateFrom, Posted DEF Shape
<1>9. match'[p] = match[p]
  BY <1>2
<1> QED BY <1>1, <1>2, <1>4, <1>5, <1>6, <1>7, <1>8, <1>9, Unmoved, LeaveStep

LEMMA HopRefreshKeeps ==
  ASSUME IInv, NEW p \in PE, HopRefresh(p)
  PROVE  IInv' /\ Firm
<1>1. Step(p) /\ Elsewhere(p) /\ Private(p)
  BY PrivateFrom, StepElsewhere DEF Step
<1>2. /\ pc[p] = "hopRefresh" /\ match' = [match EXCEPT ![p] = Exchanged(chan, p, @)]
      /\ chan' = Take(chan, p, Nbrs(p))
      /\ pc' = [pc EXCEPT ![p] = "finish"]
      /\ UNCHANGED <<setup, pass, perm, iperm, nmatched, ii, last, changed, requests, nkept>>
  BY DEF HopRefresh
<1>3. pc'[p] = "finish" /\ match'[p] = Exchanged(chan, p, match[p])
  BY <1>2, PrivateFrom DEF Shape
<1>4. /\ match'[p] = [v \in Own(p) \union Ghosts(p) |-> match'[p][v]]
      /\ \A v \in Own(p) : match'[p][v] = match[p][v]
  BY <1>1, <1>3, ExchangedIs DEF Private, Values1
<1>5. Placed1(p)' /\ Phase1(p)' /\ Remembered1(p)'
  BY <1>1, <1>2, <1>3 DEF Private, Placed1, Phase1, Remembered1, setup, Leaving, Locally, Passing
<1>6. /\ chan' = [q \in PE |-> [r \in PE |-> chan'[q][r]]]
      /\ \A q, r \in PE : q # p /\ r # p => chan'[q][r] = chan[q][r]
  BY <1>2, PrivateFrom, Taken DEF Shape
<1> QED BY <1>1, <1>2, <1>3, <1>4, <1>5, <1>6, LeaveStep

LEMMA PublishLocalKeeps ==
  ASSUME IInv, NEW p \in PE, PublishLocal(p)
  PROVE  IInv' /\ Firm
<1> DEFINE msgs == [q \in Nbrs(p) |-> News(p, q, match[p], perm[p])]
<1>1. Step(p) /\ Elsewhere(p) /\ Private(p)
  BY PrivateFrom, StepElsewhere DEF Step
<1>2. /\ pc[p] = "local" /\ ii[p] > nvtxs[p] /\ chan' = Post(chan, p, msgs)
      /\ pc' = [pc EXCEPT ![p] = "localRefresh"]
      /\ UNCHANGED <<setup, pass, match, perm, iperm, nmatched, ii, last, changed, requests, nkept>>
  BY DEF PublishLocal
<1> HIDE DEF msgs
<1>3. pc'[p] = "localRefresh" /\ match'[p] = match[p] /\ mtype = "local" /\ mtype' = mtype
  BY <1>1, <1>2, PrivateFrom DEF Shape, Private, Phase1, Passing, Leaving, setup
<1>4. Placed1(p)' /\ Phase1(p)'
  BY <1>1, <1>2, <1>3 DEF Private, Placed1, Phase1, setup, Locally
<1>5. Remembered1(p)'
  <2>1. Live(p)' = Live(p) /\ \A v \in Own(p) : M(v)' = M(v)
    BY <1>2 DEF Live, M
  <2>2. /\ Live(p) = Own(p) /\ nmatched[p] = 0
        /\ \A j \in 1..nvtxs[p] : j < ii[p] => Matched(M(perm[p][j]))
        /\ \A v \in Own(p) : M(v) = UNMATCHED \/ Matched(M(v))
    BY <1>1, <1>2 DEF Private, Remembered1
  <2>3. \A j \in 1..nvtxs[p] : j < ii[p] /\ perm[p][j] \in Own(p)
    BY <1>2, OrderIs
  <2> QED BY <1>2, <1>3, <2>1, <2>2, <2>3 DEF Remembered1, Passing
<1>6. /\ chan' = [q \in PE |-> [r \in PE |-> chan'[q][r]]]
      /\ \A q, r \in PE : q # p /\ r # p => chan'[q][r] = chan[q][r]
  BY <1>2, PrivateFrom, Posted DEF Shape
<1> QED BY <1>1, <1>2, <1>3, <1>4, <1>5, <1>6, Unmoved, LeaveStep

LEMMA RefreshLocalKeeps ==
  ASSUME IInv, NEW p \in PE, RefreshLocal(p)
  PROVE  IInv' /\ Firm
<1>1. Step(p) /\ Elsewhere(p) /\ Private(p)
  BY PrivateFrom, StepElsewhere DEF Step
<1>2. /\ pc[p] = "localRefresh" /\ match' = [match EXCEPT ![p] = Exchanged(chan, p, @)]
      /\ chan' = Take(chan, p, Nbrs(p))
      /\ pc' = [pc EXCEPT ![p] = "done"]
      /\ UNCHANGED <<setup, pass, perm, iperm, nmatched, ii, last, changed, requests, nkept>>
  BY DEF RefreshLocal
<1>3. pc'[p] = "done" /\ match'[p] = Exchanged(chan, p, match[p])
  BY <1>2, PrivateFrom DEF Shape
<1>4. /\ match'[p] = [v \in Own(p) \union Ghosts(p) |-> match'[p][v]]
      /\ \A v \in Own(p) : match'[p][v] = match[p][v]
  BY <1>1, <1>3, ExchangedIs DEF Private, Values1
<1>5. Placed1(p)' /\ Phase1(p)' /\ Remembered1(p)'
  BY <1>1, <1>2, <1>3 DEF Private, Placed1, Phase1, Remembered1, setup, Leaving, Locally, Passing
<1>6. ASSUME NEW v \in Own(p) PROVE Matched(M(v))
  <2>1. /\ Live(p) = Own(p) /\ nmatched[p] = 0
        /\ \A j \in 1..nvtxs[p] : Matched(M(perm[p][j]))
    BY <1>1, <1>2 DEF Private, Remembered1
  <2>2. PICK j \in (nmatched[p] + 1)..nvtxs[p] : perm[p][j] = v
    BY <2>1 DEF Live
  <2> QED BY <2>1, <2>2
<1>7. /\ chan' = [q \in PE |-> [r \in PE |-> chan'[q][r]]]
      /\ \A q, r \in PE : q # p /\ r # p => chan'[q][r] = chan[q][r]
  BY <1>2, PrivateFrom, Taken DEF Shape
<1> QED BY <1>1, <1>2, <1>3, <1>4, <1>5, <1>6, <1>7, LeaveStep

\* A vertex that is matched with itself.
LEMMA AloneAgrees ==
  ASSUME NEW v \in Vertex, M(v)' = v + KeepBit
  PROVE  Agreed(v)' /\ M(v)' \in Values /\ Matched(M(v)') /\ M(v)' # MAYBE_MATCHED
<1>1. M(v)' = Kept(v, TRUE)
  BY DEF Kept
<1>2. /\ M(v)' \in Values /\ Matched(M(v)') /\ Partner(M(v)') = v /\ Keeps(M(v)') = TRUE
      /\ M(v)' # MAYBE_MATCHED
  BY <1>1, KeptIs
<1>3. Local(v, v)
  BY DEF Local
<1> QED BY <1>2, <1>3 DEF Agreed

LEMMA FinishKeeps ==
  ASSUME IInv, NEW p \in PE, Finish(p)
  PROVE  IInv' /\ Firm
<1>1. Step(p) /\ Elsewhere(p) /\ Private(p)
  BY PrivateFrom, StepElsewhere DEF Step
<1>2. /\ pc[p] = "finish" /\ pc' = [pc EXCEPT ![p] = "done"]
      /\ match' = [match EXCEPT ![p] = [v \in DOMAIN @ |->
                     IF v \in Own(p) /\ @[v] \in {UNMATCHED, TOO_HEAVY} THEN v + KeepBit ELSE @[v]]]
      /\ UNCHANGED <<setup, pass, perm, iperm, nmatched, ii, last, changed, requests, nkept, chan>>
  BY DEF Finish
<1>3. /\ match[p] \in [Own(p) \union Ghosts(p) -> Held(p)]
      /\ \A v \in Own(p) : v \in Vertex /\ Owner[v] = p /\ M(v) = match[p][v] /\ M(v) \in Values
  BY MatchIs
<1>4. match'[p] = [v \in Own(p) \union Ghosts(p) |->
                    IF v \in Own(p) /\ match[p][v] \in {UNMATCHED, TOO_HEAVY} THEN v + KeepBit ELSE match[p][v]]
  BY <1>2, <1>3, PrivateFrom DEF Shape
<1>5. /\ pc'[p] = "done" /\ match'[p] = [v \in Own(p) \union Ghosts(p) |-> match'[p][v]]
      /\ \A v \in Own(p) : M(v)' = IF M(v) \in {UNMATCHED, TOO_HEAVY} THEN v + KeepBit ELSE M(v)
  <2>1. \A v \in Own(p) : M(v)' = match'[p][v]
    BY <1>3 DEF M
  <2>2. pc'[p] = "done"
    BY <1>2, PrivateFrom DEF Shape
  <2> QED BY <1>3, <1>4, <2>1, <2>2
<1>6. pc[p] \notin Passing /\ pc'[p] \notin Passing /\ pc'[p] # "visit"
  BY <1>2, <1>5 DEF Passing
<1>7. \A v \in Own(p) : Matched(M(v)) \/ M(v) \in {UNMATCHED, TOO_HEAVY}
  BY <1>3, <1>6, NobodyWaits, ValuesAre
<1>8. \A v \in Own(p) : /\ Matched(M(v)') /\ M(v)' \in Values /\ M(v)' # MAYBE_MATCHED
                        /\ M(v)' # M(v) => ~Matched(M(v)) /\ M(v) # MAYBE_MATCHED /\ Agreed(v)'
  <2> SUFFICES ASSUME NEW v \in Own(p)
               PROVE  /\ Matched(M(v)') /\ M(v)' \in Values /\ M(v)' # MAYBE_MATCHED
                      /\ M(v)' # M(v) => ~Matched(M(v)) /\ M(v) # MAYBE_MATCHED /\ Agreed(v)'
    OBVIOUS
  <2>1. CASE M(v) \in {UNMATCHED, TOO_HEAVY}
    <3>1. M(v)' = v + KeepBit
      BY <1>5, <2>1
    <3> QED BY <1>3, <2>1, <3>1, AloneAgrees, MarksAre
  <2>2. CASE M(v) \notin {UNMATCHED, TOO_HEAVY}
    <3>1. M(v)' = M(v)
      BY <1>5, <2>2
    <3> QED BY <1>3, <1>7, <2>2, <3>1, MarksAre
  <2> QED BY <2>1, <2>2
<1>9. Values1(p)'
  BY <1>5, <1>8 DEF Values1
<1>10. Moves(p) /\ NoNewAsker(p)
  BY <1>8 DEF Moves, NoNewAsker
<1>11. mtype # "local" /\ mtype' = mtype /\ heavy' = heavy /\ twohop' = twohop
  BY <1>1, <1>2 DEF Private, Phase1, Locally, setup
<1>12. Single1(p)'
  <2>1. \A v \in heavy \intersect Own(p) : Lone(v)
    BY <1>1 DEF Private, Single1
  <2>2. \A v \in heavy \intersect Own(p) : Lone(v)'
    BY <1>2, <1>3, <1>5, <1>11, <2>1 DEF Lone
  <2> QED BY <1>8, <1>11, <2>2 DEF Single1
<1>13. Collected1(p)'
  <2>1. requests[p] = {} /\ requests'[p] = {}
    BY <1>1, <1>2 DEF Private, Collected1
  <2> QED BY <2>1 DEF Collected1
<1>14. Listed1(p)'
  <2>1. \A i \in 1..Len(changed[p]) : changed[p][i] \in Own(p)
    BY <1>1, ElementOfSeq DEF Private, Listed1
  <2> QED BY <1>1, <1>2, <1>8, <2>1 DEF Private, Listed1
<1>15. Placed1(p)' /\ Phase1(p)' /\ Remembered1(p)'
  BY <1>1, <1>2, <1>5, <1>11 DEF Private, Placed1, Phase1, Remembered1, Leaving, Passing
<1>16. Private(p)'
  BY <1>9, <1>12, <1>13, <1>14, <1>15 DEF Private
<1>17. Calm
  <2>1. \A q \in PE : q # p => pc'[q] = pc[q]
    BY <1>1 DEF Elsewhere
  <2> QED BY <1>2, <1>6, <2>1 DEF Calm
<1>18. AskedOnce'
  BY <1>1, <1>2, <1>10, <1>17, CalmAsked
<1>19. chan' = [q \in PE |-> [r \in PE |-> chan'[q][r]]]
  BY <1>2, PrivateFrom DEF Shape
<1> QED BY <1>1, <1>2, <1>10, <1>16, <1>17, <1>18, <1>19, QuietStep
LEMMA VisitLocalKeeps ==
  ASSUME IInv, NEW p \in PE, VisitLocal(p)
  PROVE  IInv' /\ Firm
<1>0. PICK i : i = Unvisited(p)
  OBVIOUS
<1> DEFINE mates == IF i \in heavy THEN {} ELSE LocalMates(p, i)
<1>1. Step(p) /\ Elsewhere(p) /\ Private(p)
  BY PrivateFrom, StepElsewhere DEF Step
<1>2. /\ pc[p] = "local" /\ ii[p] <= nvtxs[p] /\ ii' = [ii EXCEPT ![p] = @ + 1]
      /\ UNCHANGED <<setup, pc, pass, perm, iperm, nmatched, last, changed, requests, nkept, chan>>
  BY DEF VisitLocal, Advance
<1>3. \/ match[p][i] # UNMATCHED /\ UNCHANGED match
      \/ /\ match[p][i] = UNMATCHED
         /\ match' = [match EXCEPT ![p][i] = i + KeepBit]
      \/ /\ match[p][i] = UNMATCHED
         /\ \E k \in mates : match' = [match EXCEPT ![p] = Pair(@, i, k)]
  BY <1>0 DEF VisitLocal
<1> HIDE DEF mates
<1>4. ii'[p] = ii[p] + 1 /\ mtype = "local" /\ mtype' = mtype /\ heavy' = heavy /\ twohop' = twohop
  BY <1>1, <1>2, PrivateFrom DEF Shape, Private, Phase1, Passing, Leaving, setup
<1>5. ii[p] \in ii[p]..nvtxs[p] /\ ii[p] \in 1..nvtxs[p]
  BY <1>2, OrderIs
<1>6. i \in Own(p) /\ perm[p][ii[p]] = i
  BY <1>0, <1>2, <1>5, UnvisitedIs DEF Unvisited
<1>7. /\ match[p] \in [Own(p) \union Ghosts(p) -> Held(p)]
      /\ \A v \in Own(p) : v \in Vertex /\ Owner[v] = p /\ M(v) = match[p][v] /\ M(v) \in Values
      /\ DOMAIN match = PE
  BY MatchIs, PrivateFrom DEF Shape
<1>8. \A v \in Own(p) : M(v)' = match'[p][v]
  BY <1>7 DEF M
<1>9. /\ Values1(p)' /\ Single1(p)' /\ Moves(p) /\ NoNewAsker(p)
      /\ \A v \in Ghosts(p) : match'[p][v] = match[p][v]
      /\ Matched(M(i)')
  <2>1. CASE match[p][i] # UNMATCHED /\ UNCHANGED match
    <3>1. Values1(p)' /\ Single1(p)' /\ Moves(p) /\ NoNewAsker(p) /\ M(i)' = M(i)
      BY <1>1, <1>2, <1>6, <2>1, Idle, Unmoved
    <3>2. M(i) # UNMATCHED /\ (M(i) = UNMATCHED \/ Matched(M(i)))
      BY <1>1, <1>2, <1>6, <1>7, <2>1 DEF Private, Remembered1
    <3> QED BY <2>1, <3>1, <3>2
  <2>2. CASE match[p][i] = UNMATCHED /\ match' = [match EXCEPT ![p][i] = i + KeepBit]
    <3>1. match'[p] = [match[p] EXCEPT ![i] = i + KeepBit]
      BY <1>7, <2>2
    <3>2. /\ match'[p] = [v \in Own(p) \union Ghosts(p) |-> match'[p][v]]
          /\ \A v \in Own(p) \union Ghosts(p) : v # i => match'[p][v] = match[p][v]
          /\ match'[p][i] = i + KeepBit /\ M(i)' = i + KeepBit /\ M(i) = UNMATCHED
          /\ i \notin Ghosts(p)
      BY <1>6, <1>7, <1>8, <2>2, <3>1, OwnNotGhost
    <3>3. \A v \in Own(p) : v # i => M(v)' = M(v)
      BY <1>7, <1>8, <3>2
    <3>4. Agreed(i)' /\ M(i)' \in Values /\ Matched(M(i)') /\ M(i)' # MAYBE_MATCHED
      BY <1>6, <1>7, <3>2, AloneAgrees
    <3>5. Values1(p)'
      BY <1>7, <3>2, <3>3, <3>4 DEF Values1
    <3>6. Moves(p) /\ NoNewAsker(p)
      BY <3>2, <3>3, <3>4, MarksAre DEF Moves, NoNewAsker
    <3>7. Single1(p)'
      <4>1. \A v \in heavy \intersect Own(p) : Lone(v)'
        BY <1>1, <1>4, <3>2, <3>3 DEF Private, Single1, Lone
      <4> QED BY <1>2, <1>4, <4>1 DEF Single1
    <3> QED BY <3>2, <3>4, <3>5, <3>6, <3>7
  <2>3. ASSUME match[p][i] = UNMATCHED, NEW k \in mates, match' = [match EXCEPT ![p] = Pair(@, i, k)]
        PROVE  /\ Values1(p)' /\ Single1(p)' /\ Moves(p) /\ NoNewAsker(p)
               /\ \A v \in Ghosts(p) : match'[p][v] = match[p][v]
               /\ Matched(M(i)')
    <3>1. /\ i \notin heavy /\ k \notin heavy /\ k \in Own(p) /\ k \in Adj[i]
          /\ match[p][k] = UNMATCHED /\ Home[k] = Home[i]
      BY <2>3 DEF mates, LocalMates
    <3>2. k # i
      BY <1>6, <1>7, <3>1, LoopAssumption
    <3>3. match'[p] = Pair(match[p], i, k)
      BY <1>7, <2>3
    <3>4. Paired(p, i, k)
      BY <1>6, <2>3, <3>1, <3>2, <3>3 DEF Paired
    <3> QED BY <1>1, <1>2, <3>4, PairedIs
  <2> QED BY <1>3, <2>1, <2>2, <2>3
<1>10. Collected1(p)'
  BY <1>1, <1>2, <1>9, CollectedStays
<1>11. \A v \in Own(p) : Matched(M(v)) => Matched(M(v)')
  BY <1>9 DEF Moves
<1>12. Listed1(p)'
  <2>1. \A j \in 1..Len(changed[p]) : changed[p][j] \in Own(p)
    BY <1>1, ElementOfSeq DEF Private, Listed1
  <2> QED BY <1>1, <1>2, <1>11, <2>1 DEF Private, Listed1
<1>13. Remembered1(p)'
  <2>1. Live(p)' = Live(p)
    BY <1>2 DEF Live
  <2>2. /\ Live(p) = Own(p) /\ nmatched[p] = 0
        /\ \A j \in 1..nvtxs[p] : j < ii[p] => Matched(M(perm[p][j]))
        /\ \A v \in Own(p) : M(v) = UNMATCHED \/ Matched(M(v))
    BY <1>1, <1>2 DEF Private, Remembered1
  <2>3. ASSUME NEW j \in 1..nvtxs[p], j < ii[p] + 1, NEW v, v = perm[p][j] PROVE Matched(M(v)')
    <3>1. v \in Own(p)
      BY <2>3, OrderIs
    <3>2. j < ii[p] \/ j = ii[p]
      BY <1>5, <2>3, OrderIs
    <3> QED BY <1>6, <1>9, <1>11, <2>2, <2>3, <3>1, <3>2
  <2>4. \A v \in Own(p) : M(v)' = UNMATCHED \/ Matched(M(v)')
    BY <1>9, <2>2, MarksAre DEF Moves, NoNewAsker
  <2>5. \A j \in 1..nvtxs[p] : j < ii'[p] => Matched(M(perm[p][j]))'
    BY <1>2, <1>4, <2>3
  <2> QED BY <1>2, <1>4, <2>1, <2>2, <2>4, <2>5 DEF Remembered1, Passing
<1>14. Placed1(p)' /\ Phase1(p)'
  BY <1>1, <1>2, <1>4 DEF Private, Placed1, Phase1
<1>15. Private(p)'
  BY <1>9, <1>10, <1>12, <1>13, <1>14 DEF Private
<1>16. Calm
  BY <1>2 DEF Calm
<1>17. AskedOnce'
  BY <1>1, <1>2, <1>9, <1>16, CalmAsked
<1>18. chan' = [q \in PE |-> [r \in PE |-> chan'[q][r]]]
  BY <1>2, PrivateFrom DEF Shape
<1> QED BY <1>1, <1>2, <1>9, <1>15, <1>16, <1>17, <1>18, QuietStep
-----------------------------------------------------------------------------
(* Steps that send and take messages: what has to be shown of them.        *)

\* What relates two neighbours, both ways.
PairFine(p, q) ==
  /\ Near(p, q) /\ Near(q, p) /\ SameTime(p, q) /\ SameTime(q, p)
  /\ BoxAt(p, q) /\ BoxAt(q, p) /\ MessagesAt(p, q) /\ MessagesAt(q, p)
Bounded1(p) == IF pc[p] \in Passing THEN pass[p] < NPASSES ELSE pass[p] = NPASSES

LEMMA Neighbours == \A p \in PE : \A q \in Nbrs(p) : q \in PE /\ q # p /\ p \in Nbrs(q)
<1> SUFFICES ASSUME NEW p \in PE, NEW q \in Nbrs(p) PROVE q \in PE /\ q # p /\ p \in Nbrs(q)
  OBVIOUS
<1>1. q \in PE
  BY NbrsIn
<1>2. q # p
  BY <1>1, NbrsAre, SendIs
<1> QED BY <1>1, <1>2, NbrsBothWays

LEMMA PairNow ==
  ASSUME IInv, mtype # "local", NEW p \in PE, NEW q \in Nbrs(p)
  PROVE  PairFine(p, q)
<1>1. q \in PE /\ p \in Nbrs(q)
  BY Neighbours
<1>2. BoxAt(p, q) /\ BoxAt(q, p) /\ MessagesAt(p, q) /\ MessagesAt(q, p)
  BY <1>1 DEF IInv, Boxes, BoxAt, Messages, MessagesAt
<1>3. Near(p, q) /\ Near(q, p) /\ SameTime(p, q) /\ SameTime(q, p)
  BY <1>1 DEF IInv, NotAhead
<1> QED BY <1>2, <1>3 DEF PairFine

\* Two neighbours that have no part in the step.
LEMMA PairStays ==
  ASSUME IInv, mtype # "local", NEW p \in PE, Elsewhere(p), Firm,
         \A q, r \in PE : q # p /\ r # p => chan'[q][r] = chan[q][r],
         NEW q \in PE, NEW r \in Nbrs(q), q # p, r # p
  PROVE  PairFine(q, r)' /\ Asking(q, r)' = Asking(q, r)
<1>1. r \in PE /\ PairFine(q, r)
  BY PairNow, Neighbours
<1>2. /\ pc'[q] = pc[q] /\ pc'[r] = pc[r] /\ pass'[q] = pass[q] /\ pass'[r] = pass[r]
      /\ requests'[q] = requests[q]
      /\ chan'[q][r] = chan[q][r] /\ chan'[r][q] = chan[r][q]
  BY <1>1 DEF Elsewhere
<1>3. /\ RequestsDue(q, r)' <=> RequestsDue(q, r)
      /\ AnswersDue(q, r)' <=> AnswersDue(q, r)
      /\ AnswersDue(r, q)' <=> AnswersDue(r, q)
      /\ BoxAt(q, r) <=> BoxAt(q, r)'
      /\ RequestsOf(q, r)' = RequestsOf(q, r) /\ AnswersOf(q, r)' = AnswersOf(q, r)
      /\ AnswersOf(r, q)' = AnswersOf(r, q)
  BY <1>1, <1>2, MessagesStay
<1>4. /\ RequestsDue(r, q)' <=> RequestsDue(r, q)
      /\ BoxAt(r, q) <=> BoxAt(r, q)'
      /\ RequestsOf(r, q)' = RequestsOf(r, q)
  BY <1>1, <1>2, MessagesStay
<1>5. Near(q, r)' /\ Near(r, q)' /\ SameTime(q, r)' /\ SameTime(r, q)'
  BY <1>1, <1>2 DEF PairFine, Near, SameTime, Later
<1>6. SteadyOn(Own(q)) /\ SteadyOn(Own(r))
  BY <1>1, OthersKeep, OwnIs DEF SteadyOn
<1>7. MessagesAt(q, r)'
  <2>1. GoodRequests(r, q, RequestsOf(r, q)) => GoodRequests(r, q, RequestsOf(r, q))'
    BY <1>1, <1>4, <1>6, GoodStays
  <2>2. GoodAnswers(q, r, AnswersOf(q, r)) => GoodAnswers(q, r, AnswersOf(q, r))'
    BY <1>1, <1>3, <1>6, GoodStays
  <2> QED BY <1>1, <1>3, <1>4, <2>1, <2>2 DEF PairFine, MessagesAt
<1>8. MessagesAt(r, q)'
  <2>1. GoodRequests(q, r, RequestsOf(q, r)) => GoodRequests(q, r, RequestsOf(q, r))'
    BY <1>1, <1>3, <1>6, GoodStays
  <2>2. GoodAnswers(r, q, AnswersOf(r, q)) => GoodAnswers(r, q, AnswersOf(r, q))'
    BY <1>1, <1>3, <1>6, GoodStays
  <2> QED BY <1>1, <1>3, <2>1, <2>2 DEF PairFine, MessagesAt
<1>9. Asking(q, r)' = Asking(q, r)
  <2>1. /\ Vals(RequestsOf(q, r))' = Vals(RequestsOf(q, r))
        /\ Vals(AnswersOf(r, q))' = Vals(AnswersOf(r, q))
    BY <1>3 DEF Vals
  <2> QED BY <1>2, <1>3, <2>1 DEF Asking
<1> QED BY <1>1, <1>3, <1>4, <1>5, <1>7, <1>8, <1>9 DEF PairFine

\* What p and a neighbour have to see to.
Cared(p, q) ==
  /\ PairFine(p, q)'
  /\ \A v \in Own(q) : M(v) = MAYBE_MATCHED => (v \in Asking(q, p)' <=> v \in Asking(q, p))
  /\ \A v \in Own(p) : M(v)' = MAYBE_MATCHED => (v \in Asking(p, q)' <=> v \in Asking(p, q))
  /\ \A v \in Vertex :
       Matched(M(v)) /\ Granted(v) /\ {Owner[v], Owner[Partner(M(v))]} = {p, q} => Agreed(v)' \/ Granted(v)'

LEMMA LoudStep ==
  ASSUME IInv, NEW p \in PE, Step(p), Private(p)', Bounded1(p)', mtype # "local", Firm,
         chan' = [q \in PE |-> [r \in PE |-> chan'[q][r]]],
         \A q, r \in PE : q # p /\ r # p => chan'[q][r] = chan[q][r],
         \A q \in Nbrs(p) : Cared(p, q),
         NoNewAsker(p),
         \A v \in Own(p) : Matched(M(v)') /\ ~Matched(M(v)) => Agreed(v)' \/ Granted(v)'
  PROVE  IInv'
<1>1. Shape /\ \A q \in PE : Private(q)
  BY PrivateFrom
<1>2. Elsewhere(p) /\ Rows'
  BY <1>1, StepElsewhere
<1>3. mtype' = mtype /\ twohop' = twohop /\ heavy' = heavy
  BY <1>2 DEF Elsewhere, setup
<1>4. Shape'
  BY <1>1, <1>2, <1>3 DEF Shape, Rows
<1>5. \A q \in PE : Private(q)'
  BY <1>1, <1>2, OthersPrivate
<1>6. AllPrivate'
  BY <1>5 DEF AllPrivate
<1>7. ASSUME NEW q \in PE, NEW r \in Nbrs(q) PROVE PairFine(q, r)'
  <2>1. CASE q = p
    BY <2>1 DEF Cared
  <2>2. CASE r = p
    <3>1. q \in Nbrs(p)
      BY <2>2, Neighbours
    <3> QED BY <2>2, <3>1 DEF Cared, PairFine
  <2>3. CASE q # p /\ r # p
    BY <1>2, <2>3, PairStays
  <2> QED BY <2>1, <2>2, <2>3
<1>8. Boxes' /\ Messages'
  <2>1. Boxes'
    BY <1>7 DEF PairFine, Boxes, BoxAt
  <2>2. Messages'
    BY <1>7 DEF PairFine, Messages, MessagesAt
  <2> QED BY <2>1, <2>2
<1>9. NotAhead'
  <2>1. \A q \in PE : Bounded1(q)'
    <3>1. \A q \in PE : Bounded1(q)
      BY DEF IInv, NotAhead, Bounded1
    <3> QED BY <1>2, <3>1 DEF Bounded1, Elsewhere
  <2> QED BY <1>7, <2>1 DEF NotAhead, Bounded1, PairFine
<1>10. ASSUME NEW v \in Vertex, Owner[v] # p \/ M(v)' = M(v) \/ Matched(M(v)), Matched(M(v)')
       PROVE  Agreed(v)' \/ Granted(v)'
  <2>1. M(v)' = M(v)
    BY <1>2, <1>10, OthersKeep DEF Firm
  <2>2. Agreed(v) \/ Granted(v)
    BY <1>10, <2>1 DEF IInv, Mated
  <2>3. CASE Agreed(v)
    BY <1>3, <1>10, <2>1, <2>3, AgreedStays
  <2>4. CASE Granted(v)
    <3> DEFINE u == Partner(M(v))
               q == Owner[v]
               o == Owner[u]
    <3>1. u \in Vertex /\ q \in PE /\ o \in PE /\ o \in Nbrs(q) /\ q \in Nbrs(o)
      BY <2>4, OwnerIn, Neighbours DEF Granted
    <3>2. CASE q = p \/ o = p
      <4>1. \E r \in Nbrs(p) : {q, o} = {p, r}
        BY <3>1, <3>2
      <4> QED BY <1>10, <2>1, <2>4, <4>1 DEF Cared
    <3>3. CASE q # p /\ o # p
      <4>1. pc'[q] = pc[q] /\ pc'[o] = pc[o] /\ chan'[q][o] = chan[q][o] /\ chan'[o][q] = chan[o][q]
        BY <1>2, <3>1, <3>3 DEF Elsewhere
      <4> HIDE DEF u, q, o
      <4> QED BY <2>1, <2>4, <4>1, GrantedStays DEF u, q, o
    <3> QED BY <3>2, <3>3
  <2> QED BY <2>2, <2>3, <2>4
<1>11. Mated'
  <2> SUFFICES ASSUME NEW v \in Vertex, Matched(M(v)') PROVE Agreed(v)' \/ Granted(v)'
    BY DEF Mated
  <2>1. CASE Owner[v] # p \/ Matched(M(v))
    BY <1>10, <2>1
  <2>2. CASE Owner[v] = p /\ ~Matched(M(v))
    BY <2>2, OwnIs
  <2> QED BY <2>1, <2>2
<1>12. AskedOnce'
  <2> SUFFICES ASSUME NEW q \in PE, NEW v \in Own(q), M(v)' = MAYBE_MATCHED
               PROVE  \E o \in Nbrs(q) : /\ v \in Asking(q, o)'
                                         /\ \A r \in Nbrs(q) : v \in Asking(q, r)' => r = o
    BY DEF AskedOnce
  <2>1. M(v) = MAYBE_MATCHED
    <3>1. v \in Vertex /\ Owner[v] = q
      BY OwnIs
    <3> QED BY <1>2, <3>1, OthersKeep DEF NoNewAsker
  <2>2. ASSUME NEW o \in Nbrs(q) PROVE v \in Asking(q, o)' <=> v \in Asking(q, o)
    <3>1. CASE q = p
      BY <3>1 DEF Cared
    <3>2. CASE o = p
      <4>1. q \in Nbrs(p)
        BY <3>2, Neighbours
      <4> QED BY <2>1, <3>2, <4>1 DEF Cared
    <3>3. CASE q # p /\ o # p
      BY <1>2, <3>3, PairStays
    <3> QED BY <3>1, <3>2, <3>3
  <2> QED BY <2>1, <2>2 DEF IInv, AskedOnce
<1>13. Shared'
  BY <1>8, <1>9, <1>11, <1>12 DEF Shared
<1> QED BY <1>4, <1>6, <1>13, PrivateIs, PTL

\* The channels after a step of p that takes and sends one message each way.
LEMMA Traffic ==
  ASSUME Shape, NEW p \in PE, NEW msgs, DOMAIN msgs = Nbrs(p),
         chan' = Post(Take(chan, p, Nbrs(p)), p, msgs)
  PROVE  /\ chan' = [q \in PE |-> [r \in PE |-> chan'[q][r]]]
         /\ \A q, r \in PE : q # p /\ r # p => chan'[q][r] = chan[q][r]
         /\ \A q \in Nbrs(p) : chan'[q][p] = Tail(chan[q][p]) /\ chan'[p][q] = Append(chan[p][q], msgs[q])
<1> DEFINE mid == Take(chan, p, Nbrs(p))
<1>1. /\ mid = [q \in PE |-> [r \in PE |-> mid[q][r]]]
      /\ \A q, r \in PE : mid[q][r] = IF q \in Nbrs(p) /\ r = p THEN Tail(chan[q][r]) ELSE chan[q][r]
  BY Taken DEF Shape
<1> HIDE DEF mid
<1>2. chan' = Post(mid, p, msgs)
  BY DEF mid
<1>3. /\ chan' = [q \in PE |-> [r \in PE |-> chan'[q][r]]]
      /\ \A q, r \in PE : chan'[q][r] = IF q = p /\ r \in Nbrs(p) THEN Append(mid[q][r], msgs[r]) ELSE mid[q][r]
  BY <1>1, <1>2, Posted
<1>4. \A q \in Nbrs(p) : q \in PE /\ q # p
  BY Neighbours
<1>5. \A q, r \in PE : q # p /\ r # p => chan'[q][r] = chan[q][r]
  BY <1>1, <1>3
<1>6. ASSUME NEW q \in Nbrs(p)
      PROVE  chan'[q][p] = Tail(chan[q][p]) /\ chan'[p][q] = Append(chan[p][q], msgs[q])
  <2>1. chan'[q][p] = mid[q][p] /\ mid[q][p] = Tail(chan[q][p])
    BY <1>1, <1>3, <1>4
  <2>2. chan'[p][q] = Append(mid[p][q], msgs[q]) /\ mid[p][q] = chan[p][q]
    BY <1>1, <1>3, <1>4
  <2> QED BY <2>1, <2>2
<1> QED BY <1>3, <1>5, <1>6

\* Channels that hold one message or two.
LEMMA Letters ==
  ASSUME NEW a, NEW b
  PROVE  /\ Append(<<>>, a) = <<a>> /\ Append(<<a>>, b) = <<a, b>>
         /\ Tail(<<a>>) = <<>> /\ Tail(<<a, b>>) = <<b>> /\ Head(<<a>>) = a /\ Head(<<a, b>>) = a
         /\ <<a>>[1] = a /\ <<a, b>>[1] = a /\ <<a, b>>[2] = b
         /\ <<a>> # <<>> /\ <<a, b>> # <<>>
<1>1. <<a>>[1] = a /\ <<a, b>>[1] = a /\ <<a, b>>[2] = b
  OBVIOUS
<1>2. \A x, y : /\ Append(<<>>, x) = <<x>> /\ Append(<<x>>, y) = <<x, y>>
                /\ Head(<<x>>) = x /\ Tail(<<x>>) = <<>> /\ <<x>> # <<>>
                /\ Head(<<x, y>>) = x /\ Tail(<<x, y>>) = <<y>> /\ <<x, y>> # <<>>
  BY Queues, Zenon
<1> QED BY <1>1, <1>2, Zenon

\* A step that leaves all matches of vertices alone.
LEMMA Untouched ==
  ASSUME IInv, NEW p \in PE, Elsewhere(p), \A v \in Own(p) : match'[p][v] = match[p][v]
  PROVE  /\ Firm /\ \A q \in PE : SteadyOn(Own(q))
         /\ \A v \in Vertex : M(v)' = M(v)
<1>1. \A v \in Vertex : M(v)' = M(v)
  <2> SUFFICES ASSUME NEW v \in Vertex PROVE M(v)' = M(v)
    OBVIOUS
  <2>1. CASE Owner[v] = p
    BY <2>1, OwnIs DEF M
  <2> QED BY <2>1, OthersKeep
<1> QED BY <1>1, OwnIs DEF Firm, SteadyOn

-----------------------------------------------------------------------------
(* The requests go out.                                                    *)

\* Who keeps the coarse vertex, seen from the other end.
LEMMA KeptTwice ==
  ASSUME NEW k \in Vertex, NEW b \in BOOLEAN, NEW v, NEW x, x = Kept(k, ~b)
  PROVE  Partner(x) = k /\ Kept(v, ~Keeps(x)) = Kept(v, b)
<1>1. CASE b
  <2>1. x = Kept(k, FALSE)
    BY <1>1 DEF Kept
  <2>2. Partner(x) = k /\ Keeps(x) = FALSE
    BY <2>1, KeptIs
  <2> QED BY <1>1, <2>2 DEF Kept
<1>2. CASE ~b
  <2>1. x = Kept(k, TRUE)
    BY <1>2 DEF Kept
  <2>2. Partner(x) = k /\ Keeps(x) = TRUE
    BY <2>1, KeptIs
  <2> QED BY <1>2, <2>2 DEF Kept
<1> QED BY <1>1, <1>2

LEMMA SendPrivate ==
  ASSUME IInv, NEW p \in PE, SendRequests(p)
  PROVE  Private(p)' /\ Bounded1(p)' /\ NoNewAsker(p) /\ mtype # "local"
<1>1. Step(p) /\ Elsewhere(p) /\ Private(p)
  BY PrivateFrom, StepElsewhere DEF Step
<1>2. /\ pc[p] = "visit" /\ pc'[p] = "serve" /\ match'[p] = match[p] /\ requests'[p] = {}
      /\ UNCHANGED <<setup, pass, match, perm, iperm, nmatched, ii, last, changed, nkept>>
  BY PrivateFrom DEF SendRequests, Shape
<1>3. Values1(p)' /\ Single1(p)' /\ NoNewAsker(p) /\ \A v \in Own(p) : M(v)' = M(v)
  BY <1>1, <1>2, Idle, Unmoved
<1>4. mtype # "local" /\ Phase1(p)'
  BY <1>1, <1>2 DEF Private, Phase1, Passing, Locally, setup
<1>5. Collected1(p)'
  BY <1>2 DEF Collected1
<1>6. Placed1(p)'
  BY <1>1, <1>2 DEF Private, Placed1
<1>7. Listed1(p)'
  BY <1>1, <1>2 DEF Private, Listed1, M
<1>8. Remembered1(p)'
  <2>1. Live(p)' = Live(p)
    BY <1>2 DEF Live
  <2> QED BY <1>1, <1>2, <1>3, <2>1 DEF Private, Remembered1, Passing
<1>9. Bounded1(p)'
  BY <1>2, <1>4 DEF IInv, NotAhead, Bounded1, Passing
<1> QED BY <1>3, <1>4, <1>5, <1>6, <1>7, <1>8, <1>9 DEF Private

\* The list for q and what becomes of it.
LEMMA SendGood ==
  ASSUME IInv, NEW p \in PE, SendRequests(p), NEW q \in Nbrs(p), NEW l, l = RequestList(p, q)
  PROVE  /\ GoodRequests(p, q, l)'
         /\ Vals(l) = Asking(p, q)
<1>1. Elsewhere(p) /\ Collected1(p)
  BY PrivateFrom, StepElsewhere DEF Step, Private
<1>2. pc[p] = "visit" /\ match' = match
  BY DEF SendRequests
<1>3. \A v \in Vertex : M(v)' = M(v)
  BY <1>2 DEF M
<1> DEFINE R == Wanted(p, q)
<1>4. \A r \in R : /\ r.key \in Own(q) /\ r.key \in Vertex /\ r.val \in Own(p) /\ r.val \in Vertex
                   /\ r \in [key : Values, val : Own(p)]
                   /\ Fits(r.key, r.val) /\ M(r.val) = MAYBE_MATCHED
  <2> SUFFICES ASSUME NEW r \in R
               PROVE  /\ r.key \in Own(q) /\ r.key \in Vertex /\ r.val \in Own(p) /\ r.val \in Vertex
                      /\ r \in [key : Values, val : Own(p)]
                      /\ Fits(r.key, r.val) /\ M(r.val) = MAYBE_MATCHED
    OBVIOUS
  <2>1. /\ r \in [key : Ghosts(p), val : Own(p)] /\ Owner[r.key] = q /\ Fits(r.key, r.val)
        /\ match[p][r.val] = MAYBE_MATCHED
    BY <1>1 DEF Collected1, Wanted
  <2>2. r.key \in Vertex /\ r.key \in Own(q)
    BY <2>1, GhostsAre, OwnIs, NbrsIn
  <2>3. r.val \in Vertex /\ M(r.val) = match[p][r.val]
    BY <2>1, OwnIs DEF M
  <2>4. r.key \in Values
    BY <2>2 DEF Values
  <2> QED BY <2>1, <2>2, <2>3, <2>4
<1>5. /\ l \in Seq(R) /\ \A i \in 1..Len(l) : l[i] \in R
      /\ \A i, j \in 1..Len(l) : l[i] = l[j] => i = j
      /\ \A r \in R : \E i \in 1..Len(l) : l[i] = r
  <2>1. /\ requests[p] \subseteq [key : Ghosts(p), val : Own(p)]
        /\ \A r, s \in requests[p] : r.key = s.key => r = s
    BY <1>1 DEF Collected1
  <2> QED BY <2>1, RequestListIs DEF Lists
<1>6. \A r, s \in R : r.val = s.val => r = s
  BY <1>1 DEF Collected1, Wanted
<1>7. Asking(p, q) = {r.val : r \in R}
  BY <1>2 DEF Asking, Wanted
<1> HIDE DEF R
<1>8. Vals(l) = Asking(p, q)
  BY <1>5, <1>7 DEF Vals
<1>9. R \subseteq [key : Values, val : Own(p)]
  BY <1>4
<1>10. l \in Seq([key : Values, val : Own(p)])
  BY <1>5, <1>9, SeqMonotonic
<1>11. Asks1(p, l)'
  BY <1>3, <1>4, <1>5, <1>6, <1>10 DEF Asks1
<1>12. GoodRequests(p, q, l)'
  BY <1>4, <1>5, <1>11 DEF GoodRequests
<1> QED BY <1>8, <1>12

LEMMA SendCares ==
  ASSUME IInv, NEW p \in PE, SendRequests(p), NEW q \in Nbrs(p)
  PROVE  Cared(p, q)
<1>0. PICK l : l = RequestList(p, q)
  OBVIOUS
<1>1. Elsewhere(p) /\ q \in PE /\ q # p /\ Shape
  BY PrivateFrom, StepElsewhere, Neighbours DEF Step
<1>2. mtype # "local"
  BY SendPrivate
<1>3. PairFine(p, q)
  BY <1>2, PairNow
<1>4. /\ pc[p] = "visit" /\ pc'[p] = "serve" /\ pc'[q] = pc[q] /\ pass'[p] = pass[p] /\ pass'[q] = pass[q]
      /\ match' = match /\ requests'[q] = requests[q]
  BY <1>1 DEF SendRequests, Shape, Elsewhere
<1>5. pc[q] \in {"refresh", "visit", "serve"}
  BY <1>3, <1>4 DEF PairFine, Near
<1>6. chan'[q][p] = chan[q][p] /\ chan'[p][q] = Append(chan[p][q], l)
  <2> DEFINE msgs == [r \in Nbrs(p) |-> RequestList(p, r)]
  <2>1. DOMAIN msgs = Nbrs(p) /\ msgs[q] = l
    BY <1>0
  <2>2. chan' = Post(chan, p, msgs)
    BY DEF SendRequests
  <2> HIDE DEF msgs
  <2>3. chan = [r \in PE |-> [o \in PE |-> chan[r][o]]]
    BY <1>1 DEF Shape
  <2>4. \A r, o \in PE : chan'[r][o] = IF r = p /\ o \in Nbrs(p) THEN Append(chan[r][o], msgs[o]) ELSE chan[r][o]
    BY <2>1, <2>2, <2>3, Posted
  <2> QED BY <1>1, <2>1, <2>4
<1>7. GoodRequests(p, q, l)' /\ Vals(l) = Asking(p, q)
  BY <1>0, SendGood
<1>8. Firm /\ SteadyOn(Own(q)) /\ \A v \in Vertex : M(v)' = M(v)
  BY <1>1, <1>4, Untouched
<1>9. /\ ~AnswersDue(p, q) /\ ~AnswersDue(q, p) /\ ~AnswersDue(p, q)' /\ ~AnswersDue(q, p)'
      /\ ~RequestsDue(p, q) /\ RequestsDue(p, q)' /\ (RequestsDue(q, p) <=> pc[q] = "serve")
      /\ (RequestsDue(q, p)' <=> pc[q] = "serve")
      /\ (NewsDue(p, q) <=> pc[q] = "refresh") /\ (NewsDue(p, q)' <=> pc[q] = "refresh")
      /\ ~NewsDue(q, p) /\ ~NewsDue(q, p)'
  BY <1>4, <1>5 DEF AnswersDue, RequestsDue, NewsDue
<1>10. Near(p, q)' /\ Near(q, p)' /\ SameTime(p, q)' /\ SameTime(q, p)'
  BY <1>3, <1>4, <1>5 DEF PairFine, Near, SameTime, Later, Leaving
<1>11. BoxAt(q, p)'
  <2>1. Box(q, p)
    BY <1>3, <1>4, <1>5 DEF PairFine, BoxAt, Passing
  <2> QED BY <1>6, <1>9, <2>1 DEF Box, BoxAt
<1>12. /\ pc[q] = "refresh" => chan'[p][q] = <<chan[p][q][1], l>>
       /\ pc[q] # "refresh" => chan'[p][q] = <<l>>
  <2>1. Box(p, q)
    BY <1>3, <1>4, <1>5 DEF PairFine, BoxAt, Passing
  <2>2. IF pc[q] = "refresh" THEN chan[p][q] = <<chan[p][q][1]>> ELSE chan[p][q] = <<>>
    BY <1>9, <2>1 DEF Box
  <2>3. CASE pc[q] = "refresh"
    <3>1. PICK a : chan[p][q] = <<a>>
      BY <2>2, <2>3
    <3>2. chan'[p][q] = <<a, l>> /\ chan[p][q][1] = a
      <4>1. <<a>>[1] = a /\ Append(<<a>>, l) = <<a, l>>
        BY Letters
      <4>2. chan[p][q][1] = <<a>>[1] /\ chan'[p][q] = Append(<<a>>, l)
        BY <1>6, <3>1
      <4> QED BY <4>1, <4>2
    <3> QED BY <2>3, <3>2
  <2>4. CASE pc[q] # "refresh"
    BY <1>6, <2>2, <2>4, Letters
  <2> QED BY <2>3, <2>4
<1>13. BoxAt(p, q)'
  BY <1>9, <1>12, Letters DEF Box, BoxAt
<1>14. RequestsOf(p, q)' = l
  BY <1>4, <1>12, Letters DEF RequestsOf
<1>15. pc[q] = "serve" => RequestsOf(q, p)' = RequestsOf(q, p)
  BY <1>4, <1>6 DEF RequestsOf
<1>16. MessagesAt(q, p)'
  BY <1>7, <1>9, <1>14 DEF MessagesAt
<1>17. MessagesAt(p, q)'
  <2>1. pc[q] = "serve" => GoodRequests(q, p, RequestsOf(q, p))'
    BY <1>1, <1>3, <1>8, <1>9, <1>15, GoodStays DEF PairFine, MessagesAt
  <2> QED BY <1>9, <2>1 DEF MessagesAt
<1>18. PairFine(p, q)'
  BY <1>10, <1>11, <1>13, <1>16, <1>17 DEF PairFine
<1>19. Asking(q, p)' = Asking(q, p)
  BY <1>4, <1>9, <1>15 DEF Asking, Vals
<1>20. Asking(p, q)' = Asking(p, q)
  <2>1. Asking(p, q)' = Vals(l)
    BY <1>4, <1>9, <1>14 DEF Asking, Vals
  <2> QED BY <1>7, <2>1
<1>21. ASSUME NEW v \in Vertex, Granted(v), {Owner[v], Owner[Partner(M(v))]} = {p, q} PROVE FALSE
  <2>1. AnswersDue(Owner[v], Owner[Partner(M(v))])
    BY <1>21 DEF Granted
  <2>2. \/ Owner[v] = p /\ Owner[Partner(M(v))] = q
        \/ Owner[v] = q /\ Owner[Partner(M(v))] = p
    <3>1. Partner(M(v)) \in Vertex /\ ~Local(Partner(M(v)), v)
      BY <1>21 DEF Granted
    <3> HIDE DEF Partner
    <3> QED BY <1>21, <3>1 DEF Local
  <2> QED BY <1>9, <2>1, <2>2
<1> QED BY <1>18, <1>19, <1>20, <1>21 DEF Cared

LEMMA SendRequestsKeeps ==
  ASSUME IInv, NEW p \in PE, SendRequests(p)
  PROVE  IInv' /\ Firm
<1>1. Step(p) /\ Elsewhere(p) /\ Shape
  BY PrivateFrom, StepElsewhere DEF Step
<1>2. Private(p)' /\ Bounded1(p)' /\ NoNewAsker(p) /\ mtype # "local"
  BY SendPrivate
<1>3. \A q \in Nbrs(p) : Cared(p, q)
  BY SendCares
<1>4. match' = match
  BY DEF SendRequests
<1>5. Firm /\ \A v \in Vertex : M(v)' = M(v)
  BY <1>1, <1>4, Untouched
<1>6. /\ chan' = [q \in PE |-> [r \in PE |-> chan'[q][r]]]
      /\ \A q, r \in PE : q # p /\ r # p => chan'[q][r] = chan[q][r]
  <2> DEFINE msgs == [r \in Nbrs(p) |-> RequestList(p, r)]
  <2>1. chan' = Post(chan, p, msgs)
    BY DEF SendRequests
  <2> HIDE DEF msgs
  <2> QED BY <1>1, <2>1, Posted DEF Shape
<1>7. \A v \in Own(p) : Matched(M(v)') => Matched(M(v))
  BY <1>5, OwnIs
<1> QED BY <1>1, <1>2, <1>3, <1>5, <1>6, <1>7, LoudStep

-----------------------------------------------------------------------------
(* The requests are served.                                                *)

\* What has arrived, and what is on its way to a neighbour.
LEMMA ServeBoxes ==
  ASSUME IInv, NEW p \in PE, Serve(p), NEW q \in Nbrs(p)
  PROVE  /\ mtype # "local" /\ pc[q] \in {"serve", "update"}
         /\ Due(q, p) = RequestsOf(q, p) /\ GoodRequests(q, p, Due(q, p))
         /\ pc[q] = "serve" => Tail(chan[q][p]) = <<>> /\ chan[p][q] = <<RequestsOf(p, q)>>
         /\ pc[q] = "update" => Tail(chan[q][p]) = <<AnswersOf(q, p)>> /\ chan[p][q] = <<>>
<1>1. pc[p] = "serve" /\ Arrived(p)
  BY ServeDoes
<1>2. mtype # "local"
  BY <1>1, PrivateFrom DEF Private, Phase1, Locally
<1>3. PairFine(p, q) /\ q \in PE
  BY <1>2, PairNow, Neighbours
<1>4. pc[q] \in {"refresh", "visit", "serve", "update"}
  BY <1>1, <1>3 DEF PairFine, Near
<1>5. Box(q, p) /\ Box(p, q)
  BY <1>1, <1>3, <1>4 DEF PairFine, BoxAt, Passing
<1>6. chan[q][p] # <<>>
  BY <1>1 DEF Arrived, ArrivedFrom
<1>7. pc[q] \in {"serve", "update"}
  <2>1. pc[q] \in {"refresh", "visit"} => ~RequestsDue(q, p) /\ ~AnswersDue(q, p) /\ ~NewsDue(q, p)
    BY <1>1 DEF RequestsDue, AnswersDue, NewsDue
  <2> QED BY <1>4, <1>5, <1>6, <2>1 DEF Box
<1>8. /\ RequestsDue(q, p) /\ (AnswersDue(q, p) <=> pc[q] = "update") /\ ~NewsDue(q, p)
      /\ (RequestsDue(p, q) <=> pc[q] = "serve") /\ ~AnswersDue(p, q) /\ ~NewsDue(p, q)
  BY <1>1, <1>7 DEF RequestsDue, AnswersDue, NewsDue
<1>9. /\ RequestsOf(q, p) = chan[q][p][1] /\ AnswersOf(q, p) = chan[q][p][2] /\ RequestsOf(p, q) = chan[p][q][1]
  BY <1>1, <1>7 DEF RequestsOf, AnswersOf
<1>10. CASE pc[q] = "serve"
  <2>1. chan[q][p] = <<RequestsOf(q, p)>> /\ chan[p][q] = <<RequestsOf(p, q)>>
    BY <1>5, <1>8, <1>9, <1>10 DEF Box
  <2> QED BY <1>2, <1>3, <1>8, <1>10, <2>1, Letters DEF Due, PairFine, MessagesAt
<1>11. CASE pc[q] = "update"
  <2>1. chan[q][p] = <<RequestsOf(q, p), AnswersOf(q, p)>> /\ chan[p][q] = <<>>
    BY <1>5, <1>8, <1>9, <1>11 DEF Box
  <2> QED BY <1>2, <1>3, <1>8, <1>11, <2>1, Letters DEF Due, PairFine, MessagesAt
<1> QED BY <1>7, <1>10, <1>11

LEMMA ElementsIn ==
  ASSUME NEW S, NEW T, NEW s \in Seq(S), \A i \in 1..Len(s) : s[i] \in T
  PROVE  s \in Seq(T)
<1> DEFINE n == Len(s)
<1>1. n \in Nat /\ s \in [1..n -> S]
  BY LenProperties
<1> HIDE DEF n
<1>2. s = [i \in 1..n |-> s[i]]
  BY <1>1
<1>3. s \in [1..n -> T]
  BY <1>2 DEF n
<1> QED BY <1>1, <1>3, SeqDef

LEMMA ServeReady ==
  ASSUME IInv, NEW p \in PE, Serve(p)
  PROVE  CanServe(p)
<1>1. ASSUME NEW q \in Nbrs(p) PROVE Due(q, p) \in Seq([key : Own(p), val : Vertex])
  <2>1. PICK m : m = Due(q, p)
    OBVIOUS
  <2>2. /\ m \in Seq([key : Values, val : Own(q)]) /\ q \in PE
        /\ \A i \in 1..Len(m) : m[i].key \in Own(p)
    BY <2>1, ServeBoxes, Neighbours DEF GoodRequests, Asks1
  <2>3. \A i \in 1..Len(m) : m[i] \in [key : Own(p), val : Vertex]
    <3> SUFFICES ASSUME NEW i \in 1..Len(m) PROVE m[i] \in [key : Own(p), val : Vertex]
      OBVIOUS
    <3>1. m[i] \in [key : Values, val : Own(q)]
      BY <2>2, ElementOfSeq
    <3> QED BY <2>2, <3>1, OwnIs
  <2> DEFINE T == [key : Own(p), val : Vertex]
  <2> HIDE DEF T
  <2>4. \A i \in 1..Len(m) : m[i] \in T
    BY <2>3 DEF T
  <2>5. m \in Seq(T)
    <3>1. PICK S : m \in Seq(S)
      BY <2>2
    <3> QED BY <3>1, <2>4, ElementsIn
  <2> QED BY <2>1, <2>5 DEF T
<1>2. \A v \in Own(p) : match[p][v] = UNMATCHED => v \in Live(p)
  <2>1. pc[p] = "serve" /\ Remembered1(p)
    BY ServeDoes, PrivateFrom DEF Private
  <2>2. \A v \in Own(p) : ~Matched(M(v)) => v \in Live(p)
    BY <2>1 DEF Remembered1, Passing
  <2>3. \A v \in Own(p) : M(v) = match[p][v]
    BY MatchIs
  <2>4. ~Matched(UNMATCHED)
    BY MarksAre
  <2> QED BY <2>2, <2>3, <2>4
<1> QED BY <1>1, <1>2 DEF CanServe

\* The outcome of the two loops.
Outcome(p, st) ==
  /\ Served(p, st)
  /\ match'[p] = st.match /\ nkept'[p] = st.nkept /\ changed'[p] = st.changed
  /\ \A q \in Nbrs(p) :
       /\ Len(st.list[q]) = Len(Due(q, p))
       /\ chan'[q][p] = Tail(chan[q][p]) /\ chan'[p][q] = Append(chan[p][q], st.list[q])

LEMMA ServeIs ==
  ASSUME IInv, NEW p \in PE, Serve(p)
  PROVE  /\ \E st : Outcome(p, st)
         /\ chan' = [q \in PE |-> [r \in PE |-> chan'[q][r]]]
         /\ \A q, r \in PE : q # p /\ r # p => chan'[q][r] = chan[q][r]
<1>1. Shape
  BY PrivateFrom
<1>2. PICK nperm \in SetToSeqs(Nbrs(p)) :
              /\ match' = [match EXCEPT ![p] = ServeAll(p, nperm).match]
              /\ nkept' = [nkept EXCEPT ![p] = ServeAll(p, nperm).nkept]
              /\ changed' = [changed EXCEPT ![p] = ServeAll(p, nperm).changed]
              /\ chan' = Post(Take(chan, p, Nbrs(p)), p, [q \in Nbrs(p) |-> ServeAll(p, nperm).list[q]])
  BY ServeDoes
<1>3. PICK st : st = ServeAll(p, nperm)
  OBVIOUS
<1>4. Served(p, st) /\ \A q \in Nbrs(p) : Len(st.list[q]) = Len(Due(q, p))
  <2>1. Fresh(p, match[p], changed[p]) /\ match[p] \in [Own(p) \union Ghosts(p) -> Held(p)]
    BY ServeDoes, FreshNow, MatchIs
  <2>2. nkept[p] \in Int
    BY PrivateFrom DEF Private, Phase1
  <2> QED BY <1>3, <2>1, <2>2, ServeReady, ServeAllIs
<1>5. match'[p] = st.match /\ nkept'[p] = st.nkept /\ changed'[p] = st.changed
  BY <1>1, <1>2, <1>3 DEF Shape
<1> DEFINE msgs == [q \in Nbrs(p) |-> st.list[q]]
<1>6. chan' = Post(Take(chan, p, Nbrs(p)), p, msgs) /\ DOMAIN msgs = Nbrs(p) /\ \A q \in Nbrs(p) : msgs[q] = st.list[q]
  BY <1>2, <1>3
<1> HIDE DEF msgs
<1>7. /\ chan' = [q \in PE |-> [r \in PE |-> chan'[q][r]]]
      /\ \A q, r \in PE : q # p /\ r # p => chan'[q][r] = chan[q][r]
      /\ \A q \in Nbrs(p) : chan'[q][p] = Tail(chan[q][p]) /\ chan'[p][q] = Append(chan[p][q], msgs[q])
  BY <1>1, <1>6, Traffic
<1>8. Outcome(p, st)
  BY <1>4, <1>5, <1>6, <1>7 DEF Outcome
<1> QED BY <1>7, <1>8

\* What the loops have done to the matches of p's own vertices.
LEMMA ServeChanges ==
  ASSUME IInv, NEW p \in PE, Serve(p), NEW st, Outcome(p, st)
  PROVE  /\ Firm /\ (\A q \in PE : SteadyOn(Own(q))) /\ NoNewAsker(p)
         /\ \A v \in Own(p) : M(v)' # M(v) =>
              /\ M(v) = UNMATCHED
              /\ \E q \in Nbrs(p) : \E i \in 1..Len(st.list[q]), b \in BOOLEAN :
                   /\ Due(q, p)[i].key = v /\ Due(q, p)[i].val \in Own(q)
                   /\ st.list[q][i] = [key |-> Kept(v, ~b), val |-> Due(q, p)[i].val]
                   /\ M(v)' = Kept(Due(q, p)[i].val, b)
<1>1. Elsewhere(p)
  BY PrivateFrom, StepElsewhere DEF Step
<1>2. Served(p, st) /\ match'[p] = st.match
  BY DEF Outcome
<1>3. \A v \in Own(p) : v \in Vertex /\ Owner[v] = p /\ M(v) = match[p][v] /\ M(v)' = st.match[v]
  BY <1>2, MatchIs DEF M
<1>4. ASSUME NEW v \in Own(p), M(v)' # M(v)
      PROVE  /\ M(v) = UNMATCHED
             /\ \E q \in Nbrs(p) : \E i \in 1..Len(st.list[q]), b \in BOOLEAN :
                   /\ Due(q, p)[i].key = v /\ Due(q, p)[i].val \in Own(q)
                   /\ st.list[q][i] = [key |-> Kept(v, ~b), val |-> Due(q, p)[i].val]
                   /\ M(v)' = Kept(Due(q, p)[i].val, b)
  <2>1. M(v) = UNMATCHED
    BY <1>2, <1>3, <1>4 DEF Served
  <2>2. PICK q \in Nbrs(p) : \E i \in 1..Len(st.list[q]) :
            st.list[q][i].key # UNMATCHED /\ Due(q, p)[i].key = v
    BY <1>2, <1>3, <1>4 DEF Served
  <2>3. PICK i \in 1..Len(st.list[q]) : st.list[q][i].key # UNMATCHED /\ Due(q, p)[i].key = v
    BY <2>2
  <2>4. PICK r : r = Due(q, p)[i]
    OBVIOUS
  <2>5. PICK a : a = st.list[q][i]
    OBVIOUS
  <2>6. Answered(st.match, a, r)
    BY <1>2, <2>3, <2>4, <2>5 DEF Served
  <2>7. PICK b \in BOOLEAN : a.key = Kept(r.key, ~b) /\ st.match[r.key] = Kept(r.val, b)
    BY <2>3, <2>5, <2>6 DEF Answered
  <2>8. a \in Answer
    <3>1. st.list \in [Nbrs(p) -> Seq(Answer)]
      BY <1>2 DEF Served, Serving
    <3>2. st.list[q] \in Seq(Answer)
      BY <3>1
    <3> QED BY <2>3, <2>5, <3>2, ElementOfSeq
  <2>9. r.val \in Own(q)
    <3>1. PICK m : m = Due(q, p)
      OBVIOUS
    <3>2. m \in Seq([key : Values, val : Own(q)]) /\ Len(st.list[q]) = Len(m)
      BY <3>1, ServeBoxes DEF GoodRequests, Asks1, Outcome
    <3>3. m[i] \in [key : Values, val : Own(q)]
      BY <2>3, <3>2, ElementOfSeq
    <3> QED BY <2>4, <3>1, <3>3
  <2>10. a = [key |-> a.key, val |-> a.val] /\ a.val = r.val
    BY <2>6, <2>8 DEF Answer, Answered
  <2>11. a = [key |-> Kept(v, ~b), val |-> r.val] /\ M(v)' = Kept(r.val, b)
    BY <1>3, <2>3, <2>4, <2>7, <2>10
  <2> QED BY <2>1, <2>3, <2>4, <2>5, <2>9, <2>11
<1>5. ASSUME NEW v \in Own(p), M(v)' # M(v) PROVE Matched(M(v)') /\ M(v)' # MAYBE_MATCHED /\ M(v)' \in Values
  <2>1. PICK q \in Nbrs(p) : \E i \in 1..Len(st.list[q]), b \in BOOLEAN :
           Due(q, p)[i].val \in Own(q) /\ M(v)' = Kept(Due(q, p)[i].val, b)
    BY <1>4, <1>5
  <2>2. \E u \in Own(q), b \in BOOLEAN : M(v)' = Kept(u, b)
    <3>1. PICK i \in 1..Len(st.list[q]), b \in BOOLEAN : Due(q, p)[i].val \in Own(q) /\ M(v)' = Kept(Due(q, p)[i].val, b)
      BY <2>1
    <3> QED BY <3>1
  <2>3. PICK u \in Own(q), b \in BOOLEAN : M(v)' = Kept(u, b)
    BY <2>2
  <2>4. u \in Vertex
    BY <2>3, Neighbours, OwnIs
  <2> QED BY <2>3, <2>4, KeptIs, MarksAre
<1>6. NoNewAsker(p)
  BY <1>5 DEF NoNewAsker
<1>7. \A v \in Vertex : Matched(M(v)) \/ M(v) = MAYBE_MATCHED => M(v)' = M(v)
  <2> SUFFICES ASSUME NEW v \in Vertex, Matched(M(v)) \/ M(v) = MAYBE_MATCHED PROVE M(v)' = M(v)
    OBVIOUS
  <2>1. CASE Owner[v] = p
    <3>1. M(v) # UNMATCHED
      BY MarksAre
    <3> QED BY <1>4, <2>1, <3>1, OwnIs
  <2> QED BY <1>1, <2>1, OthersKeep
<1> QED BY <1>4, <1>6, <1>7, OwnIs DEF Firm, SteadyOn

LEMMA ServePrivate ==
  ASSUME IInv, NEW p \in PE, Serve(p)
  PROVE  Private(p)' /\ Bounded1(p)'
<1>1. Elsewhere(p) /\ Private(p)
  BY PrivateFrom, StepElsewhere DEF Step
<1>2. PICK st : Outcome(p, st)
  BY ServeIs
<1>3. Served(p, st) /\ match'[p] = st.match /\ nkept'[p] = st.nkept /\ changed'[p] = st.changed
  BY <1>2 DEF Outcome
<1>4. /\ pc[p] = "serve" /\ pc'[p] = "update"
      /\ UNCHANGED <<setup, pass, perm, iperm, nmatched, ii, last, requests>>
  BY ServeDoes, PrivateFrom DEF Shape
<1>5. \A v \in Own(p) : M(v)' # M(v) => M(v) = UNMATCHED /\ \E u \in Vertex, b \in BOOLEAN : M(v)' = Kept(u, b)
  <2> SUFFICES ASSUME NEW v \in Own(p), M(v)' # M(v)
               PROVE  M(v) = UNMATCHED /\ \E u \in Vertex, b \in BOOLEAN : M(v)' = Kept(u, b)
    OBVIOUS
  <2>1. M(v) = UNMATCHED /\ \E q \in Nbrs(p) : \E i \in 1..Len(st.list[q]), b \in BOOLEAN :
           /\ Due(q, p)[i].key = v /\ Due(q, p)[i].val \in Own(q)
           /\ st.list[q][i] = [key |-> Kept(v, ~b), val |-> Due(q, p)[i].val]
           /\ M(v)' = Kept(Due(q, p)[i].val, b)
    BY <1>2, ServeChanges
  <2>2. PICK q \in Nbrs(p) : \E i \in 1..Len(st.list[q]), b \in BOOLEAN :
           Due(q, p)[i].val \in Own(q) /\ M(v)' = Kept(Due(q, p)[i].val, b)
    BY <2>1
  <2>3. PICK i \in 1..Len(st.list[q]), b \in BOOLEAN : Due(q, p)[i].val \in Own(q) /\ M(v)' = Kept(Due(q, p)[i].val, b)
    BY <2>2
  <2>4. Due(q, p)[i].val \in Vertex
    BY <2>3, Neighbours, OwnIs
  <2> QED BY <2>1, <2>3, <2>4
<1>6. \A v \in Own(p) : M(v)' # M(v) => ~Matched(M(v)) /\ M(v) # TOO_HEAVY /\ Matched(M(v)') /\ M(v)' \in Values
  BY <1>5, KeptIs, MarksAre
<1>7. \A v \in Own(p) : M(v) \in Values /\ M(v)' = st.match[v] /\ v \in Vertex /\ Owner[v] = p
  BY <1>3, MatchIs DEF M
<1>8. Values1(p)'
  <2>1. st.match \in [Own(p) \union Ghosts(p) -> Held(p)] /\ st.nkept \in Int
    BY <1>3 DEF Served, Serving
  <2>2. st.match = [v \in Own(p) \union Ghosts(p) |-> st.match[v]]
    BY <2>1
  <2> QED BY <1>3, <1>6, <1>7, <2>2 DEF Values1
<1>9. mtype # "local" /\ Phase1(p)'
  <2>1. st.nkept \in Int
    BY <1>3 DEF Served, Serving
  <2> QED BY <1>1, <1>3, <1>4, <2>1 DEF Private, Phase1, Passing, Locally, setup
<1>10. Collected1(p)'
  <2>1. requests[p] = {} /\ requests'[p] = {}
    BY <1>1, <1>4 DEF Private, Collected1
  <2> QED BY <2>1 DEF Collected1
<1>11. Single1(p)'
  <2>1. mtype' = mtype /\ heavy' = heavy
    BY <1>4 DEF setup
  <2>2. \A v \in heavy \intersect Own(p) : M(v) = TOO_HEAVY
    BY <1>1, <1>4, <1>7, <1>9 DEF Private, Single1, Lone
  <2>3. \A v \in heavy \intersect Own(p) : M(v)' = TOO_HEAVY
    BY <1>6, <2>2
  <2> QED BY <1>4, <1>9, <2>1, <2>3 DEF Single1, Lone
<1>12. Placed1(p)'
  BY <1>1, <1>4 DEF Private, Placed1
<1>13. Live(p)' = Live(p)
  BY <1>4 DEF Live
<1>14. Fresh(p, st.match, st.changed)
  BY <1>3 DEF Served
<1>15. \A i \in 1..Len(st.changed) : st.changed[i] \in Own(p) /\ match'[Owner[st.changed[i]]][st.changed[i]] = st.match[st.changed[i]]
  <2>1. \A i \in 1..Len(st.changed) : st.changed[i] \in Own(p)
    BY <1>14, ElementOfSeq DEF Fresh
  <2> QED BY <1>3, <2>1, OwnIs
<1>16. Listed1(p)'
  BY <1>3, <1>14, <1>15 DEF Fresh, Listed1, M
<1>17. Remembered1(p)'
  <2>1. \A v \in Own(p) : ~Matched(M(v)') => v \in Live(p)
    BY <1>1, <1>4, <1>6 DEF Private, Remembered1, Passing
  <2> QED BY <1>3, <1>4, <1>13, <1>14, <2>1 DEF Fresh, Remembered1
<1>18. Bounded1(p)'
  BY <1>4, <1>9 DEF IInv, NotAhead, Bounded1, Passing
<1> QED BY <1>8, <1>9, <1>10, <1>11, <1>12, <1>16, <1>17, <1>18 DEF Private

\* The answers to q.
LEMMA ServeGood ==
  ASSUME IInv, NEW p \in PE, Serve(p), NEW st, Outcome(p, st), NEW q \in Nbrs(p), NEW l, l = st.list[q]
  PROVE  GoodAnswers(p, q, l)' /\ Vals(l) = Vals(Due(q, p))
<1>1. Elsewhere(p) /\ q \in PE
  BY PrivateFrom, StepElsewhere, Neighbours DEF Step
<1>2. Firm /\ SteadyOn(Own(q))
  BY <1>1, ServeChanges
<1>3. PICK m : m = Due(q, p)
  OBVIOUS
<1>4. GoodRequests(q, p, m) /\ GoodRequests(q, p, m)'
  BY <1>1, <1>2, <1>3, ServeBoxes, GoodStays
<1>5. /\ m \in Seq([key : Values, val : Own(q)])
      /\ \A i \in 1..Len(m) : /\ M(m[i].val)' = MAYBE_MATCHED
                              /\ m[i].key \in Own(p) /\ Fits(m[i].key, m[i].val)
      /\ \A i, j \in 1..Len(m) : m[i].val = m[j].val => i = j
  BY <1>4 DEF GoodRequests, Asks1, Fits
<1>6. \A i \in 1..Len(m) : m[i].val \in Own(q)
  <2>1. \A i \in 1..Len(m) : m[i] \in [key : Values, val : Own(q)]
    BY <1>5, ElementOfSeq
  <2> QED BY <2>1
<1>7. /\ l \in Seq(Answer) /\ Len(l) = Len(m)
      /\ \A i \in 1..Len(l) : Answered(st.match, l[i], m[i])
  <2>1. st.list \in [Nbrs(p) -> Seq(Answer)]
    BY DEF Outcome, Served, Serving
  <2>2. l \in Seq(Answer)
    BY <2>1
  <2> QED BY <1>3, <2>2 DEF Outcome, Served
<1>8. \A i \in 1..Len(l) : l[i].val = m[i].val
  BY <1>7 DEF Answered
<1>9. l \in Seq([key : Values, val : Own(q)])
  <2> DEFINE T == [key : Values, val : Own(q)]
  <2>1. \A i \in 1..Len(l) : l[i] \in T
    <3> SUFFICES ASSUME NEW i \in 1..Len(l) PROVE l[i] \in T
      OBVIOUS
    <3>1. l[i] \in Answer
      BY <1>7, ElementOfSeq
    <3> QED BY <1>6, <1>7, <1>8, <3>1 DEF Answer
  <2> HIDE DEF T
  <2>2. l \in Seq(T)
    BY <1>7, <2>1, ElementsIn
  <2> QED BY <2>2 DEF T
<1>10. Asks1(q, l)'
  BY <1>5, <1>7, <1>8, <1>9 DEF Asks1
<1>11. ASSUME NEW i \in 1..Len(l), l[i].key # UNMATCHED PROVE Grants(p, l[i])'
  <2>1. PICK a : a = l[i]
    OBVIOUS
  <2>2. PICK k : k = m[i].key
    OBVIOUS
  <2>3. PICK b \in BOOLEAN : a.key = Kept(k, ~b) /\ st.match[k] = Kept(a.val, b)
    BY <1>7, <1>8, <1>11, <2>1, <2>2 DEF Answered
  <2>4. k \in Own(p) /\ k \in Vertex /\ Owner[k] = p /\ Fits(k, a.val)
    BY <1>5, <1>7, <1>8, <2>1, <2>2, OwnIs
  <2>5. Partner(a.key) = k /\ Kept(a.val, ~Keeps(a.key)) = Kept(a.val, b)
    BY <2>3, <2>4, KeptTwice
  <2>6. M(k)' = Kept(a.val, b)
    BY <2>3, <2>4 DEF Outcome, M
  <2>7. Grants(p, a)'
    BY <2>4, <2>5, <2>6 DEF Grants
  <2> QED BY <2>1, <2>7
<1>12. GoodAnswers(p, q, l)'
  BY <1>10, <1>11 DEF GoodAnswers
<1>13. Vals(l) = Vals(m)
  BY <1>7, <1>8 DEF Vals
<1> QED BY <1>3, <1>12, <1>13

\* The messages between p and q afterwards.
LEMMA ServeAfter ==
  ASSUME IInv, NEW p \in PE, Serve(p), NEW st, Outcome(p, st), NEW q \in Nbrs(p), NEW l, l = st.list[q]
  PROVE  /\ pc[p] = "serve" /\ pc'[p] = "update" /\ pc'[q] = pc[q] /\ pass'[p] = pass[p] /\ pass'[q] = pass[q]
         /\ requests'[q] = requests[q]
         /\ pc[q] = "serve" => chan'[q][p] = <<>> /\ chan'[p][q] = <<RequestsOf(p, q), l>>
         /\ pc[q] = "update" => chan'[q][p] = <<AnswersOf(q, p)>> /\ chan'[p][q] = <<l>>
         /\ AnswersOf(p, q)' = l
         /\ pc[q] = "serve" => RequestsOf(p, q)' = RequestsOf(p, q)
         /\ pc[q] = "update" => AnswersOf(q, p)' = AnswersOf(q, p)
<1>1. Elsewhere(p) /\ q \in PE /\ q # p /\ Shape
  BY PrivateFrom, StepElsewhere, Neighbours DEF Step
<1>2. /\ pc[p] = "serve" /\ pc'[p] = "update" /\ pc'[q] = pc[q] /\ pass'[p] = pass[p] /\ pass'[q] = pass[q]
      /\ requests'[q] = requests[q]
  BY <1>1, ServeDoes DEF Shape, Elsewhere
<1>3. chan'[q][p] = Tail(chan[q][p]) /\ chan'[p][q] = Append(chan[p][q], l)
  BY DEF Outcome
<1>4. pc[q] \in {"serve", "update"}
  BY ServeBoxes
<1>5. CASE pc[q] = "serve"
  <2>1. PICK r : r = RequestsOf(p, q)
    OBVIOUS
  <2>2. chan'[q][p] = <<>> /\ chan'[p][q] = Append(<<r>>, l)
    BY <1>3, <1>5, <2>1, ServeBoxes
  <2>3. chan'[p][q] = <<r, l>>
    <3>1. Append(<<r>>, l) = <<r, l>>
      BY Letters
    <3> QED BY <2>2, <3>1
  <2>4. chan'[p][q][1] = r /\ chan'[p][q][2] = l
    BY <2>3, Letters
  <2>5. AnswersOf(p, q)' = l /\ RequestsOf(p, q)' = r
    BY <1>2, <1>5, <2>4 DEF AnswersOf, RequestsOf
  <2> QED BY <1>2, <1>5, <2>1, <2>2, <2>3, <2>5
<1>6. CASE pc[q] = "update"
  <2>1. PICK a : a = AnswersOf(q, p)
    OBVIOUS
  <2>2. chan'[q][p] = <<a>> /\ chan'[p][q] = Append(<<>>, l)
    BY <1>3, <1>6, <2>1, ServeBoxes
  <2>3. chan'[p][q] = <<l>>
    BY <2>2, Letters
  <2>4. chan'[p][q][1] = l /\ chan'[q][p][1] = a
    BY <2>2, <2>3, Letters
  <2>5. AnswersOf(p, q)' = l /\ AnswersOf(q, p)' = a
    BY <1>2, <1>6, <2>4 DEF AnswersOf
  <2> QED BY <1>2, <1>6, <2>1, <2>2, <2>3, <2>5
<1> QED BY <1>4, <1>5, <1>6

LEMMA ServeCares ==
  ASSUME IInv, NEW p \in PE, Serve(p), NEW q \in Nbrs(p)
  PROVE  Cared(p, q)
<1>1. PICK st : Outcome(p, st)
  BY ServeIs
<1>2. PICK l : l = st.list[q]
  OBVIOUS
<1>3. Elsewhere(p) /\ q \in PE /\ q # p
  BY PrivateFrom, StepElsewhere, Neighbours DEF Step
<1>4. /\ mtype # "local" /\ pc[q] \in {"serve", "update"}
      /\ Due(q, p) = RequestsOf(q, p) /\ GoodRequests(q, p, Due(q, p))
  BY ServeBoxes
<1>5. PairFine(p, q)
  BY <1>4, PairNow
<1>6. /\ pc[p] = "serve" /\ pc'[p] = "update" /\ pc'[q] = pc[q] /\ pass'[p] = pass[p] /\ pass'[q] = pass[q]
      /\ requests'[q] = requests[q]
      /\ pc[q] = "serve" => chan'[q][p] = <<>> /\ chan'[p][q] = <<RequestsOf(p, q), l>>
      /\ pc[q] = "update" => chan'[q][p] = <<AnswersOf(q, p)>> /\ chan'[p][q] = <<l>>
      /\ AnswersOf(p, q)' = l
      /\ pc[q] = "serve" => RequestsOf(p, q)' = RequestsOf(p, q)
      /\ pc[q] = "update" => AnswersOf(q, p)' = AnswersOf(q, p)
  BY <1>1, <1>2, ServeAfter
<1>7. GoodAnswers(p, q, l)' /\ Vals(l) = Vals(RequestsOf(q, p))
  BY <1>1, <1>2, <1>4, ServeGood
<1>8. Firm /\ SteadyOn(Own(p)) /\ SteadyOn(Own(q))
  BY <1>1, <1>3, ServeChanges
<1>9. /\ RequestsDue(q, p) /\ ~RequestsDue(q, p)' /\ ~AnswersDue(p, q) /\ AnswersDue(p, q)'
      /\ (RequestsDue(p, q) <=> pc[q] = "serve") /\ (RequestsDue(p, q)' <=> pc[q] = "serve")
      /\ (AnswersDue(q, p) <=> pc[q] = "update") /\ (AnswersDue(q, p)' <=> pc[q] = "update")
      /\ ~NewsDue(p, q)' /\ ~NewsDue(q, p)'
  BY <1>4, <1>6 DEF RequestsDue, AnswersDue, NewsDue
<1>10. Near(p, q)' /\ Near(q, p)' /\ SameTime(p, q)' /\ SameTime(q, p)'
  BY <1>4, <1>5, <1>6 DEF PairFine, Near, SameTime, Later, Leaving
<1>11. BoxAt(p, q)' /\ BoxAt(q, p)'
  <2>1. CASE pc[q] = "serve"
    <3>1. chan'[p][q] = <<chan'[p][q][1], chan'[p][q][2]>>
      BY <1>6, <2>1, Letters
    <3> QED BY <1>6, <1>9, <2>1, <3>1 DEF Box, BoxAt
  <2>2. CASE pc[q] = "update"
    <3>1. chan'[p][q] = <<chan'[p][q][1]>> /\ chan'[q][p] = <<chan'[q][p][1]>>
      BY <1>6, <2>2, Letters
    <3> QED BY <1>6, <1>9, <2>2, <3>1 DEF Box, BoxAt
  <2> QED BY <1>4, <2>1, <2>2
<1>12. MessagesAt(p, q)'
  BY <1>6, <1>7, <1>9 DEF MessagesAt
<1>13. MessagesAt(q, p)'
  <2>1. CASE pc[q] = "serve"
    <3>1. GoodRequests(p, q, RequestsOf(p, q)) => GoodRequests(p, q, RequestsOf(p, q))'
      BY <1>3, <1>6, <1>8, <2>1, GoodStays
    <3> QED BY <1>5, <1>9, <2>1, <3>1 DEF PairFine, MessagesAt
  <2>2. CASE pc[q] = "update"
    <3>1. GoodAnswers(q, p, AnswersOf(q, p)) => GoodAnswers(q, p, AnswersOf(q, p))'
      BY <1>3, <1>6, <1>8, <2>2, GoodStays
    <3> QED BY <1>5, <1>9, <2>2, <3>1 DEF PairFine, MessagesAt
  <2> QED BY <1>4, <2>1, <2>2
<1>14. PairFine(p, q)'
  BY <1>10, <1>11, <1>12, <1>13 DEF PairFine
<1>15. Asking(q, p)' = Asking(q, p)
  <2>1. Asking(q, p)' = Vals(l)
    BY <1>4, <1>6, <1>9 DEF Asking, Vals
  <2>2. Asking(q, p) = Vals(RequestsOf(q, p))
    BY <1>4, <1>9 DEF Asking
  <2> QED BY <1>7, <2>1, <2>2
<1>16. Asking(p, q)' = Asking(p, q)
  BY <1>4, <1>6, <1>9 DEF Asking, Vals
<1>17. ASSUME NEW v \in Vertex, Matched(M(v)), Granted(v), {Owner[v], Owner[Partner(M(v))]} = {p, q}
       PROVE  Granted(v)'
  <2>1. PICK u : u = Partner(M(v))
    OBVIOUS
  <2>2. u \in Vertex /\ Owner[u] # Owner[v] /\ AnswersDue(Owner[v], Owner[u])
    BY <1>17, <2>1 DEF Granted, Local
  <2>3. Owner[v] = q /\ Owner[u] = p /\ pc[q] = "update"
    BY <1>9, <1>17, <2>1, <2>2
  <2>4. M(v)' = M(v)
    BY <1>8, <1>17 DEF Firm
  <2>5. \E i \in 1..Len(AnswersOf(q, p)) : AnswersOf(q, p)[i] = [key |-> Kept(v, ~Keeps(M(v))), val |-> u]
    BY <1>17, <2>1, <2>3 DEF Granted
  <2>6. p \in Nbrs(q)
    BY Neighbours
  <2> QED BY <1>6, <1>9, <2>1, <2>2, <2>3, <2>4, <2>5, <2>6 DEF Granted, Local
<1> QED BY <1>14, <1>15, <1>16, <1>17 DEF Cared

\* Whom p has given to an asking PE.
LEMMA ServeGranted ==
  ASSUME IInv, NEW p \in PE, Serve(p), NEW v \in Own(p), Matched(M(v)'), ~Matched(M(v))
  PROVE  Granted(v)'
<1>1. PICK st : Outcome(p, st)
  BY ServeIs
<1>2. PICK q \in Nbrs(p) : \E i \in 1..Len(st.list[q]), b \in BOOLEAN :
                   /\ Due(q, p)[i].key = v /\ Due(q, p)[i].val \in Own(q)
                   /\ st.list[q][i] = [key |-> Kept(v, ~b), val |-> Due(q, p)[i].val]
                   /\ M(v)' = Kept(Due(q, p)[i].val, b)
  <2>1. M(v)' # M(v)
    OBVIOUS
  <2> QED BY <1>1, <2>1, ServeChanges
<1>3. PICK i \in 1..Len(st.list[q]), b \in BOOLEAN :
                   /\ Due(q, p)[i].key = v /\ Due(q, p)[i].val \in Own(q)
                   /\ st.list[q][i] = [key |-> Kept(v, ~b), val |-> Due(q, p)[i].val]
                   /\ M(v)' = Kept(Due(q, p)[i].val, b)
  BY <1>2
<1>4. PICK u : u = Due(q, p)[i].val
  OBVIOUS
<1>5. PICK l : l = st.list[q]
  OBVIOUS
<1>6. PICK x : x = M(v)'
  OBVIOUS
<1>7. u \in Own(q) /\ u \in Vertex /\ Owner[u] = q /\ q \in PE /\ q # p /\ v \in Vertex /\ Owner[v] = p
  BY <1>3, <1>4, Neighbours, OwnIs
<1>8. x = Kept(u, b) /\ Partner(x) = u /\ Keeps(x) = b
  BY <1>3, <1>4, <1>6, <1>7, KeptIs
<1>9. l[i] = [key |-> Kept(v, ~Keeps(x)), val |-> u]
  BY <1>3, <1>4, <1>5, <1>8
<1>10. AnswersDue(p, q)' /\ AnswersOf(p, q)' = l
  <2>1. pc'[p] = "update" /\ pc'[q] = pc[q] /\ AnswersOf(p, q)' = l
    BY <1>1, <1>5, ServeAfter
  <2>2. pc[q] \in {"serve", "update"}
    BY ServeBoxes
  <2> QED BY <2>1, <2>2 DEF AnswersDue
<1>11. \E j \in 1..Len(AnswersOf(p, q)') : AnswersOf(p, q)'[j] = [key |-> Kept(v, ~Keeps(x)), val |-> u]
  BY <1>3, <1>5, <1>9, <1>10
<1> QED BY <1>6, <1>7, <1>8, <1>10, <1>11 DEF Granted, Local

LEMMA ServeKeeps ==
  ASSUME IInv, NEW p \in PE, Serve(p)
  PROVE  IInv' /\ Firm
<1>1. Step(p)
  BY DEF Step
<1>2. Private(p)' /\ Bounded1(p)'
  BY ServePrivate
<1>3. mtype # "local"
  BY ServeDoes, PrivateFrom DEF Private, Phase1, Locally
<1>4. Firm /\ NoNewAsker(p)
  BY ServeIs, ServeChanges
<1>5. /\ chan' = [q \in PE |-> [r \in PE |-> chan'[q][r]]]
      /\ \A q, r \in PE : q # p /\ r # p => chan'[q][r] = chan[q][r]
  BY ServeIs
<1>6. \A q \in Nbrs(p) : Cared(p, q)
  BY ServeCares
<1>7. \A v \in Own(p) : Matched(M(v)') /\ ~Matched(M(v)) => Granted(v)'
  BY ServeGranted
<1> QED BY <1>1, <1>2, <1>3, <1>4, <1>5, <1>6, <1>7, LoudStep

-----------------------------------------------------------------------------
(* The answers come back.                                                  *)

LEMMA UpdateBoxes ==
  ASSUME IInv, NEW p \in PE, pc[p] = "update", Arrived(p), NEW q \in Nbrs(p)
  PROVE  /\ mtype # "local" /\ pc[q] \in {"update", "refresh"}
         /\ Due(q, p) = AnswersOf(q, p) /\ GoodAnswers(q, p, Due(q, p)) /\ Asking(p, q) = Vals(Due(q, p))
         /\ pc[q] = "update" => Tail(chan[q][p]) = <<>> /\ chan[p][q] = <<AnswersOf(p, q)>>
         /\ pc[q] = "refresh" => (\E n : Tail(chan[q][p]) = <<n>>) /\ chan[p][q] = <<>>
<1>2. mtype # "local"
  BY PrivateFrom DEF Private, Phase1, Locally
<1>3. PairFine(p, q) /\ q \in PE
  BY <1>2, PairNow, Neighbours
<1>4. pc[q] \in {"serve", "update", "refresh"}
  BY <1>3 DEF PairFine, Near
<1>5. Box(q, p) /\ Box(p, q)
  BY <1>3, <1>4 DEF PairFine, BoxAt, Passing
<1>6. chan[q][p] # <<>>
  BY DEF Arrived, ArrivedFrom
<1>7. pc[q] \in {"update", "refresh"}
  <2>1. pc[q] = "serve" => ~RequestsDue(q, p) /\ ~AnswersDue(q, p) /\ ~NewsDue(q, p)
    BY DEF RequestsDue, AnswersDue, NewsDue
  <2> QED BY <1>4, <1>5, <1>6, <2>1 DEF Box
<1>8. /\ ~RequestsDue(q, p) /\ AnswersDue(q, p) /\ (NewsDue(q, p) <=> pc[q] = "refresh")
      /\ ~RequestsDue(p, q) /\ (AnswersDue(p, q) <=> pc[q] = "update") /\ ~NewsDue(p, q)
  BY <1>7 DEF RequestsDue, AnswersDue, NewsDue
<1>9. /\ AnswersOf(q, p) = chan[q][p][1] /\ AnswersOf(p, q) = chan[p][q][1]
  BY <1>7 DEF AnswersOf
<1>10. GoodAnswers(q, p, AnswersOf(q, p)) /\ Asking(p, q) = Vals(AnswersOf(q, p))
  BY <1>3, <1>8 DEF PairFine, MessagesAt, Asking
<1>11. CASE pc[q] = "update"
  <2>1. chan[q][p] = <<AnswersOf(q, p)>> /\ chan[p][q] = <<AnswersOf(p, q)>>
    BY <1>5, <1>8, <1>9, <1>11 DEF Box
  <2> QED BY <1>2, <1>10, <1>11, <2>1, Letters DEF Due
<1>12. CASE pc[q] = "refresh"
  <2>1. chan[q][p] = <<AnswersOf(q, p), chan[q][p][2]>> /\ chan[p][q] = <<>>
    BY <1>5, <1>8, <1>9, <1>12 DEF Box
  <2>2. PICK n : n = chan[q][p][2]
    OBVIOUS
  <2>3. PICK a : a = AnswersOf(q, p)
    OBVIOUS
  <2>4. Tail(<<a, n>>) = <<n>> /\ Head(<<a, n>>) = a
    BY Letters
  <2>5. chan[q][p] = <<a, n>>
    BY <2>1, <2>2, <2>3
  <2> QED BY <1>2, <1>10, <1>12, <2>1, <2>3, <2>4, <2>5 DEF Due
<1> QED BY <1>7, <1>11, <1>12

LEMMA UpdateReady ==
  ASSUME IInv, NEW p \in PE, pc[p] = "update", Arrived(p)
  PROVE  CanApply(p)
<1>1. ASSUME NEW q \in Nbrs(p), NEW m, m = Due(q, p)
      PROVE  /\ m \in Seq([key : Values, val : Own(p)])
             /\ \A i \in 1..Len(m) : m[i].val \in Own(p) /\ m[i].key \in Values /\ match[p][m[i].val] = MAYBE_MATCHED
             /\ \A i \in 1..Len(m) : m[i].key # UNMATCHED => Matched(m[i].key)
             /\ \A i, j \in 1..Len(m) : m[i].val = m[j].val => i = j
  <2>1. q \in PE /\ GoodAnswers(q, p, m)
    BY <1>1, UpdateBoxes, Neighbours
  <2>2. \A i \in 1..Len(m) : m[i].val \in Own(p) /\ m[i].key \in Values
    <3>1. \A i \in 1..Len(m) : m[i] \in [key : Values, val : Own(p)]
      BY <2>1, ElementOfSeq DEF GoodAnswers, Asks1
    <3> QED BY <3>1
  <2>3. \A v \in Own(p) : M(v) = match[p][v]
    BY MatchIs
  <2>4. ASSUME NEW i \in 1..Len(m), m[i].key # UNMATCHED PROVE Matched(m[i].key)
    <3>1. Partner(m[i].key) \in Own(q)
      BY <2>1, <2>4 DEF GoodAnswers, Grants
    <3>2. Partner(m[i].key) \in Nat
      BY <2>1, <3>1, OwnIs, VertexIs
    <3> QED BY <2>2, <2>4, <3>2, ValuesAre, KeepAssumption
        DEF Partner, Keeps, UNMATCHED, MAYBE_MATCHED, TOO_HEAVY
  <2> QED BY <2>1, <2>2, <2>3, <2>4 DEF GoodAnswers, Asks1
<1>2. ASSUME NEW q \in Nbrs(p), NEW o \in Nbrs(p), NEW i \in 1..Len(Due(q, p)), NEW j \in 1..Len(Due(o, p)),
             Due(q, p)[i].val = Due(o, p)[j].val
      PROVE  q = o /\ i = j
  <2>1. PICK v : v = Due(q, p)[i].val
    OBVIOUS
  <2>2. v \in Own(p) /\ M(v) = MAYBE_MATCHED
    <3>1. v \in Own(p) /\ match[p][v] = MAYBE_MATCHED
      BY <1>1, <2>1
    <3> QED BY <3>1, MatchIs
  <2>3. v \in Asking(p, q) /\ v \in Asking(p, o)
    BY <1>2, <2>1, UpdateBoxes DEF Vals
  <2>4. q = o
    BY <2>2, <2>3 DEF IInv, AskedOnce
  <2> QED BY <1>1, <1>2, <2>4
<1>3. \A v \in Own(p) : ~Matched(match[p][v]) => v \in Live(p)
  <2>1. \A v \in Own(p) : ~Matched(M(v)) => v \in Live(p)
    BY PrivateFrom DEF Private, Remembered1, Passing
  <2>2. \A v \in Own(p) : M(v) = match[p][v]
    BY MatchIs
  <2> QED BY <2>1, <2>2
<1> QED BY <1>1, <1>2, <1>3 DEF CanApply

\* What p has when all answers are applied.
Settled(p, st) ==
  /\ Applied(p, st, [q \in Nbrs(p) |-> 1..Len(Due(q, p))])
  /\ match'[p] = st.match /\ changed'[p] = st.changed
  /\ perm'[p] = RetireAll(p, st.changed).perm /\ iperm'[p] = RetireAll(p, st.changed).iperm
  /\ nmatched'[p] = RetireAll(p, st.changed).nmatched
  /\ \A q \in Nbrs(p) : chan'[q][p] = Tail(chan[q][p]) /\ \E n : chan'[p][q] = Append(chan[p][q], n)

LEMMA UpdateIs ==
  ASSUME IInv, NEW p \in PE, Update(p)
  PROVE  /\ \E st : Settled(p, st)
         /\ pc[p] = "update" /\ Arrived(p) /\ pc'[p] = "refresh"
         /\ UNCHANGED <<setup, pass, ii, last, requests, nkept>>
         /\ chan' = [q \in PE |-> [r \in PE |-> chan'[q][r]]]
         /\ \A q, r \in PE : q # p /\ r # p => chan'[q][r] = chan[q][r]
<1>1. Shape
  BY PrivateFrom
<1>2. PICK st : st = UpdateAll(p, InOrder(Nbrs(p)))
  OBVIOUS
<1> DEFINE msgs == [q \in Nbrs(p) |-> News(p, q, st.match, st.changed)]
<1>3. /\ pc[p] = "update" /\ Arrived(p)
      /\ match' = [match EXCEPT ![p] = st.match]
      /\ changed' = [changed EXCEPT ![p] = st.changed]
      /\ SetOrder(p, RetireAll(p, st.changed))
      /\ chan' = Post(Take(chan, p, Nbrs(p)), p, msgs)
      /\ pc' = [pc EXCEPT ![p] = "refresh"]
      /\ UNCHANGED <<setup, pass, ii, last, requests, nkept>>
  BY <1>2, UpdateDoes
<1>4. DOMAIN msgs = Nbrs(p)
  OBVIOUS
<1> HIDE DEF msgs
<1>5. InOrder(Nbrs(p)) \in SetToSeqs(Nbrs(p))
  BY NbrsFinite, InOrderIs
<1>6. Applied(p, st, [q \in Nbrs(p) |-> 1..Len(Due(q, p))])
  <2>1. Fresh(p, match[p], changed[p]) /\ match[p] \in [Own(p) \union Ghosts(p) -> Held(p)]
    BY <1>3, FreshNow, MatchIs
  <2>2. CanApply(p)
    BY <1>3, UpdateReady
  <2> QED BY <1>2, <1>5, <2>1, <2>2, UpdateAllIs
<1>7. /\ chan' = [q \in PE |-> [r \in PE |-> chan'[q][r]]]
      /\ \A q, r \in PE : q # p /\ r # p => chan'[q][r] = chan[q][r]
      /\ \A q \in Nbrs(p) : chan'[q][p] = Tail(chan[q][p]) /\ chan'[p][q] = Append(chan[p][q], msgs[q])
  BY <1>1, <1>3, <1>4, Traffic
<1>8. /\ match'[p] = st.match /\ changed'[p] = st.changed /\ pc'[p] = "refresh"
      /\ perm'[p] = RetireAll(p, st.changed).perm /\ iperm'[p] = RetireAll(p, st.changed).iperm
      /\ nmatched'[p] = RetireAll(p, st.changed).nmatched
  BY <1>1, <1>3 DEF Shape, SetOrder
<1>9. Settled(p, st)
  BY <1>6, <1>7, <1>8 DEF Settled
<1> QED BY <1>3, <1>7, <1>8, <1>9

\* The waiting vertices get their answers, and nobody else is touched.
LEMMA UpdateChanges ==
  ASSUME IInv, NEW p \in PE, Update(p), NEW st, Settled(p, st)
  PROVE  /\ \A q \in Nbrs(p) : \A i \in 1..Len(Due(q, p)) : \A v :
              v = Due(q, p)[i].val => v \in Own(p) /\ M(v)' = Due(q, p)[i].key
         /\ \A v \in Own(p) : M(v) = MAYBE_MATCHED => \E q \in Nbrs(p) : \E i \in 1..Len(Due(q, p)) : Due(q, p)[i].val = v
         /\ \A v \in Own(p) : M(v)' # M(v) => M(v) = MAYBE_MATCHED
         /\ \A v \in Own(p) : M(v)' # MAYBE_MATCHED
         /\ Firm /\ \A q \in PE : q # p => SteadyOn(Own(q))
<1>1. Elsewhere(p) /\ CanApply(p) /\ pc[p] = "update" /\ Arrived(p)
  BY PrivateFrom, StepElsewhere, UpdateIs, UpdateReady DEF Step
<1>2. PICK n : n = [q \in Nbrs(p) |-> 1..Len(Due(q, p))]
  OBVIOUS
<1>3. Applied(p, st, n) /\ match'[p] = st.match /\ \A q \in Nbrs(p) : n[q] = 1..Len(Due(q, p))
  BY <1>2 DEF Settled
<1>4. \A v \in Own(p) : v \in Vertex /\ Owner[v] = p /\ M(v) = match[p][v] /\ M(v)' = st.match[v]
  BY <1>3, MatchIs DEF M
<1>5. ASSUME NEW q \in Nbrs(p), NEW i \in 1..Len(Due(q, p)), NEW r, r = Due(q, p)[i]
      PROVE  r.val \in Own(p) /\ M(r.val)' = r.key /\ M(r.val) = MAYBE_MATCHED
             /\ (r.key # UNMATCHED => Matched(r.key))
  <2>1. PICK m : m = Due(q, p)
    OBVIOUS
  <2>2. m \in Seq([key : Values, val : Own(p)])
    BY <1>1, <2>1 DEF CanApply
  <2>3. r \in [key : Values, val : Own(p)]
    BY <1>5, <2>1, <2>2, ElementOfSeq
  <2>4. r.val \in Own(p)
    BY <2>3
  <2>5. st.match[r.val] = r.key
    BY <1>3, <1>5 DEF Applied
  <2>6. match[p][r.val] = MAYBE_MATCHED /\ (r.key # UNMATCHED => Matched(r.key))
    BY <1>1, <1>5 DEF CanApply
  <2> QED BY <1>4, <2>4, <2>5, <2>6
<1>6. ASSUME NEW v \in Own(p), M(v) = MAYBE_MATCHED
      PROVE  \E q \in Nbrs(p) : \E i \in 1..Len(Due(q, p)) : Due(q, p)[i].val = v
  <2>1. PICK q \in Nbrs(p) : v \in Asking(p, q)
    BY <1>6 DEF IInv, AskedOnce
  <2>2. v \in Vals(Due(q, p))
    BY <1>1, <2>1, UpdateBoxes
  <2> QED BY <2>2 DEF Vals
<1>7. ASSUME NEW v \in Own(p), M(v)' # M(v) PROVE M(v) = MAYBE_MATCHED
  <2>1. PICK q \in Nbrs(p) : \E i \in 1..Len(Due(q, p)) : Due(q, p)[i].val = v
    BY <1>3, <1>4, <1>7 DEF Applied
  <2>2. PICK i \in 1..Len(Due(q, p)) : Due(q, p)[i].val = v
    BY <2>1
  <2> QED BY <1>5, <2>2
<1>8. ASSUME NEW v \in Own(p) PROVE M(v)' # MAYBE_MATCHED
  <2>1. CASE M(v) = MAYBE_MATCHED
    <3>1. PICK q \in Nbrs(p) : \E i \in 1..Len(Due(q, p)) : Due(q, p)[i].val = v
      BY <1>6, <2>1
    <3>2. PICK i \in 1..Len(Due(q, p)) : Due(q, p)[i].val = v
      BY <3>1
    <3> QED BY <1>5, <3>2, MarksAre
  <2>2. CASE M(v) # MAYBE_MATCHED
    BY <1>7, <2>2
  <2> QED BY <2>1, <2>2
<1>9. Firm
  <2> SUFFICES ASSUME NEW v \in Vertex, Matched(M(v)) PROVE M(v)' = M(v)
    BY DEF Firm
  <2>1. CASE Owner[v] = p
    <3>1. M(v) # MAYBE_MATCHED
      BY MarksAre
    <3> QED BY <1>7, <2>1, <3>1, OwnIs
  <2> QED BY <1>1, <2>1, OthersKeep
<1>10. \A q \in PE : q # p => SteadyOn(Own(q))
  BY <1>1, OthersKeep, OwnIs DEF SteadyOn
<1>11. ASSUME NEW q \in Nbrs(p), NEW i \in 1..Len(Due(q, p)), NEW v, v = Due(q, p)[i].val
       PROVE  v \in Own(p) /\ M(v)' = Due(q, p)[i].key
  <2>1. PICK r : r = Due(q, p)[i]
    OBVIOUS
  <2>2. r.val \in Own(p) /\ M(r.val)' = r.key
    BY <1>5, <2>1
  <2>3. v = r.val
    BY <1>11, <2>1
  <2> QED BY <2>1, <2>2, <2>3
<1> QED BY <1>6, <1>7, <1>8, <1>9, <1>10, <1>11

LEMMA UpdatePrivate ==
  ASSUME IInv, NEW p \in PE, Update(p)
  PROVE  Private(p)' /\ Bounded1(p)'
<1>1. Elsewhere(p) /\ Private(p)
  BY PrivateFrom, StepElsewhere DEF Step
<1>2. PICK st : Settled(p, st)
  BY UpdateIs
<1>3. PICK n : Applied(p, st, n)
  BY <1>2 DEF Settled
<1>4. /\ pc[p] = "update" /\ pc'[p] = "refresh"
      /\ UNCHANGED <<setup, pass, ii, last, requests, nkept>>
  BY UpdateIs
<1>5. PICK R : R = RetireAll(p, st.changed)
  OBVIOUS
<1>6. /\ match'[p] = st.match /\ changed'[p] = st.changed
      /\ perm'[p] = R.perm /\ iperm'[p] = R.iperm /\ nmatched'[p] = R.nmatched
  BY <1>2, <1>5 DEF Settled
<1>7. /\ st.match \in [Own(p) \union Ghosts(p) -> Held(p)] /\ Fresh(p, st.match, st.changed)
  BY <1>3 DEF Applied, Applying
<1>8. \A v \in Own(p) : v \in Vertex /\ Owner[v] = p /\ M(v) \in Values /\ M(v)' = st.match[v]
  BY <1>6, MatchIs DEF M
<1>9. /\ \A v \in Own(p) : M(v)' # M(v) => M(v) = MAYBE_MATCHED
      /\ \A v \in Own(p) : Matched(M(v)) => M(v)' = M(v)
  BY <1>2, <1>8, UpdateChanges DEF Firm
<1>10. \A v \in Own(p) : M(v)' \in Values
  <2> SUFFICES ASSUME NEW v \in Own(p), M(v)' # M(v) PROVE M(v)' \in Values
    BY <1>8
  <2>1. M(v) = MAYBE_MATCHED
    BY <1>9
  <2>2. PICK q \in Nbrs(p) : \E i \in 1..Len(Due(q, p)) : Due(q, p)[i].val = v
    BY <1>2, <2>1, UpdateChanges
  <2>3. PICK i \in 1..Len(Due(q, p)) : Due(q, p)[i].val = v
    BY <2>2
  <2>4. PICK m : m = Due(q, p)
    OBVIOUS
  <2>5. M(v)' = m[i].key
    BY <1>2, <2>3, <2>4, UpdateChanges
  <2>6. m \in Seq([key : Values, val : Own(p)])
    BY <1>4, <2>4, UpdateIs, UpdateReady DEF CanApply
  <2>7. m[i] \in [key : Values, val : Own(p)]
    BY <2>3, <2>4, <2>6, ElementOfSeq
  <2> QED BY <2>5, <2>7
<1>11. Values1(p)'
  <2>1. st.match = [v \in Own(p) \union Ghosts(p) |-> st.match[v]]
    BY <1>7
  <2> QED BY <1>6, <1>10, <2>1 DEF Values1
<1>12. mtype # "local" /\ Phase1(p)'
  BY <1>1, <1>4 DEF Private, Phase1, Passing, Locally, setup
<1>13. Collected1(p)'
  <2>1. requests[p] = {} /\ requests'[p] = {}
    BY <1>1, <1>4 DEF Private, Collected1
  <2> QED BY <2>1 DEF Collected1
<1>14. Single1(p)'
  <2>1. mtype' = mtype /\ heavy' = heavy
    BY <1>4 DEF setup
  <2>2. \A v \in heavy \intersect Own(p) : M(v) = TOO_HEAVY
    BY <1>1, <1>4, <1>8, <1>12 DEF Private, Single1, Lone
  <2>3. \A v \in heavy \intersect Own(p) : M(v)' = TOO_HEAVY
    BY <1>9, <2>2, MarksAre
  <2> QED BY <1>4, <1>12, <2>1, <2>3 DEF Single1, Lone
<1>15. /\ R \in Retiring(p) /\ InPlace(p, R)
       /\ LiveIn(p, R) = Live(p) \ {st.changed[i] : i \in 1..Len(st.changed)}
  BY <1>5, <1>7, OrderIs, RetireAllIs DEF Fresh
<1>16. Placed1(p)'
  <2>1. ii'[p] = ii[p] /\ last'[p] = last[p] /\ ii[p] \in Nat \ {0} /\ last[p] \in Nat \ {0}
    BY <1>1, <1>4 DEF Private, Placed1
  <2>2. /\ R.perm \in [1..nvtxs[p] -> Own(p)] /\ R.iperm \in [Own(p) -> 1..nvtxs[p]] /\ R.nmatched \in Nat
    BY <1>15 DEF Retiring
  <2>3. \A j \in (R.nmatched + 1)..nvtxs[p] : R.iperm[R.perm[j]] = j
    BY <1>15 DEF InPlace, Positions
  <2> QED BY <1>4, <1>6, <2>1, <2>2, <2>3 DEF Placed1
<1>17. Live(p)' = LiveIn(p, R)
  BY <1>6 DEF Live, LiveIn, Positions
<1>18. \A i \in 1..Len(st.changed) : st.changed[i] \in Own(p) /\ match'[Owner[st.changed[i]]][st.changed[i]] = st.match[st.changed[i]]
  <2>1. \A i \in 1..Len(st.changed) : st.changed[i] \in Own(p)
    BY <1>7, ElementOfSeq DEF Fresh
  <2> QED BY <1>6, <2>1, OwnIs
<1>19. Listed1(p)'
  BY <1>6, <1>7, <1>18 DEF Fresh, Listed1, M
<1>20. Remembered1(p)'
  <2>1. ASSUME NEW v \in Own(p), ~Matched(M(v)') PROVE v \in LiveIn(p, R)
    <3>1. ~Matched(M(v))
      BY <1>9, <2>1
    <3>2. v \in Live(p)
      BY <1>1, <1>4, <3>1 DEF Private, Remembered1, Passing
    <3>3. ASSUME NEW i \in 1..Len(st.changed), st.changed[i] = v PROVE FALSE
      <4>1. Matched(st.match[v])
        BY <1>7, <3>3 DEF Fresh
      <4> QED BY <1>8, <2>1, <4>1
    <3> QED BY <1>15, <3>2, <3>3
  <2> QED BY <1>4, <1>17, <2>1 DEF Remembered1
<1>21. Bounded1(p)'
  BY <1>4, <1>12 DEF IInv, NotAhead, Bounded1, Passing
<1> QED BY <1>11, <1>12, <1>13, <1>14, <1>16, <1>19, <1>20, <1>21 DEF Private

\* An answer that grants the request makes both ends agree.
LEMMA UpdateAgrees ==
  ASSUME IInv, NEW p \in PE, Update(p), NEW q \in Nbrs(p), NEW i \in 1..Len(Due(q, p)),
         NEW r, r = Due(q, p)[i], r.key # UNMATCHED, NEW k, k = Partner(r.key), NEW u, u = r.val
  PROVE  Agreed(k)' /\ Agreed(u)'
<1>1. PICK st : Settled(p, st)
  BY UpdateIs
<1>2. Elsewhere(p) /\ pc[p] = "update" /\ Arrived(p) /\ q \in PE /\ q # p
  BY PrivateFrom, StepElsewhere, UpdateIs, Neighbours DEF Step
<1>3. mtype' = mtype /\ twohop' = twohop
  BY <1>2 DEF Elsewhere, setup
<1>4. PICK m : m = Due(q, p)
  OBVIOUS
<1>5. GoodAnswers(q, p, m) /\ r = m[i] /\ i \in 1..Len(m)
  BY <1>2, <1>4, UpdateBoxes
<1>6. k \in Own(q) /\ Fits(k, u) /\ M(k) = Kept(u, ~Keeps(r.key))
  BY <1>5 DEF GoodAnswers, Grants
<1>7. u \in Own(p) /\ M(u)' = r.key
  BY <1>1, UpdateChanges
<1>8. k \in Vertex /\ u \in Vertex /\ Owner[k] = q /\ Owner[u] = p /\ k # u
  BY <1>2, <1>6, <1>7, OwnIs
<1>9. Matched(r.key)
  <2>1. CanApply(p)
    BY <1>2, UpdateReady
  <2> QED BY <2>1 DEF CanApply
<1>10. M(k)' = M(k)
  BY <1>2, <1>8, OthersKeep
<1>11. Matched(M(k)) /\ Partner(M(k)) = u /\ (Keeps(M(k)) <=> ~Keeps(r.key))
  <2>1. CASE Keeps(r.key)
    <3>1. M(k) = Kept(u, FALSE)
      BY <1>6, <2>1 DEF Kept
    <3> QED BY <1>8, <2>1, <3>1, KeptIs
  <2>2. CASE ~Keeps(r.key)
    <3>1. M(k) = Kept(u, TRUE)
      BY <1>6, <2>2 DEF Kept
    <3> QED BY <1>8, <2>2, <3>1, KeptIs
  <2> QED BY <2>1, <2>2
<1>12. u \in Adj[k] /\ k \in Adj[u] /\ Home[u] = Home[k]
  BY <1>6, <1>8, AdjAssumption DEF Fits
<1>13. PICK x : x = M(k)
  OBVIOUS
<1>14. PICK y : y = r.key
  OBVIOUS
<1>15. /\ M(k)' = x /\ M(u)' = y /\ Matched(x) /\ Matched(y) /\ Partner(x) = u /\ Partner(y) = k
       /\ (Keeps(x) = ~Keeps(y)) /\ (Keeps(y) = ~Keeps(x))
  <2>1. Keeps(x) <=> ~Keeps(y)
    BY <1>11, <1>13, <1>14
  <2>2. (Keeps(x) = ~Keeps(y)) /\ (Keeps(y) = ~Keeps(x))
    BY <2>1 DEF Keeps
  <2> QED BY <1>7, <1>9, <1>10, <1>11, <1>13, <1>14, <2>2
<1>16. Agreed(k)'
  BY <1>2, <1>3, <1>8, <1>12, <1>15 DEF Agreed, Local
<1>17. Agreed(u)'
  BY <1>2, <1>3, <1>8, <1>12, <1>15 DEF Agreed, Local
<1> QED BY <1>16, <1>17

\* The messages between p and q afterwards.
LEMMA UpdateAfter ==
  ASSUME IInv, NEW p \in PE, Update(p), NEW q \in Nbrs(p)
  PROVE  /\ pc[p] = "update" /\ pc'[p] = "refresh" /\ pc'[q] = pc[q] /\ pass'[p] = pass[p] /\ pass'[q] = pass[q]
         /\ requests'[q] = requests[q]
         /\ pc[q] = "update" => /\ chan'[q][p] = <<>> /\ AnswersOf(p, q)' = AnswersOf(p, q)
                                /\ chan'[p][q] = <<chan'[p][q][1], chan'[p][q][2]>>
         /\ pc[q] = "refresh" => chan'[q][p] = <<chan'[q][p][1]>> /\ chan'[p][q] = <<chan'[p][q][1]>>
<1>1. Elsewhere(p) /\ q \in PE /\ q # p /\ Shape
  BY PrivateFrom, StepElsewhere, Neighbours DEF Step
<1>2. /\ pc[p] = "update" /\ pc'[p] = "refresh" /\ pc'[q] = pc[q] /\ pass'[p] = pass[p] /\ pass'[q] = pass[q]
      /\ requests'[q] = requests[q] /\ Arrived(p)
  BY <1>1, UpdateIs DEF Elsewhere
<1>3. PICK n : chan'[p][q] = Append(chan[p][q], n)
  BY UpdateIs DEF Settled
<1>4. chan'[q][p] = Tail(chan[q][p])
  BY UpdateIs DEF Settled
<1>5. CASE pc[q] = "update"
  <2>1. PICK a : a = AnswersOf(p, q)
    OBVIOUS
  <2>2. chan'[q][p] = <<>> /\ chan[p][q] = <<a>>
    BY <1>2, <1>4, <1>5, <2>1, UpdateBoxes
  <2>3. Append(<<a>>, n) = <<a, n>> /\ <<a, n>>[1] = a /\ <<a, n>>[2] = n
    BY Letters
  <2>4. chan'[p][q] = <<a, n>> /\ chan'[p][q][1] = a /\ chan'[p][q][2] = n
    BY <1>3, <2>2, <2>3
  <2>5. AnswersOf(p, q)' = a
    BY <1>2, <1>5, <2>4 DEF AnswersOf
  <2> QED BY <1>2, <1>5, <2>1, <2>2, <2>4, <2>5
<1>6. CASE pc[q] = "refresh"
  <2>1. PICK a : Tail(chan[q][p]) = <<a>>
    BY <1>2, <1>6, UpdateBoxes
  <2>2. chan[p][q] = <<>>
    BY <1>2, <1>6, UpdateBoxes
  <2>3. Append(<<>>, n) = <<n>> /\ <<n>>[1] = n /\ <<a>>[1] = a
    BY Letters
  <2>4. chan'[p][q] = <<n>> /\ chan'[q][p] = <<a>>
    BY <1>3, <1>4, <2>1, <2>2, <2>3
  <2>5. chan'[p][q][1] = n /\ chan'[q][p][1] = a
    BY <2>3, <2>4
  <2> QED BY <1>2, <1>6, <2>4, <2>5
<1> QED BY <1>2, <1>5, <1>6

LEMMA UpdateCares ==
  ASSUME IInv, NEW p \in PE, Update(p), NEW q \in Nbrs(p)
  PROVE  Cared(p, q)
<1>1. PICK st : Settled(p, st)
  BY UpdateIs
<1>2. Elsewhere(p) /\ q \in PE /\ q # p /\ Arrived(p)
  BY PrivateFrom, StepElsewhere, UpdateIs, Neighbours DEF Step
<1>3. /\ pc[p] = "update" /\ pc'[p] = "refresh" /\ pc'[q] = pc[q] /\ pass'[p] = pass[p] /\ pass'[q] = pass[q]
      /\ requests'[q] = requests[q]
      /\ pc[q] = "update" => /\ chan'[q][p] = <<>> /\ AnswersOf(p, q)' = AnswersOf(p, q)
                             /\ chan'[p][q] = <<chan'[p][q][1], chan'[p][q][2]>>
      /\ pc[q] = "refresh" => chan'[q][p] = <<chan'[q][p][1]>> /\ chan'[p][q] = <<chan'[p][q][1]>>
  BY UpdateAfter
<1>4. mtype # "local" /\ pc[q] \in {"update", "refresh"} /\ Due(q, p) = AnswersOf(q, p)
  BY <1>2, <1>3, UpdateBoxes
<1>5. PairFine(p, q)
  BY <1>4, PairNow
<1>6. Firm /\ SteadyOn(Own(q)) /\ \A v \in Own(p) : M(v)' # MAYBE_MATCHED
  BY <1>1, <1>2, UpdateChanges
<1>7. /\ ~RequestsDue(q, p) /\ ~RequestsDue(q, p)' /\ ~RequestsDue(p, q)' /\ ~AnswersDue(q, p)'
      /\ (AnswersDue(p, q) <=> pc[q] = "update") /\ (AnswersDue(p, q)' <=> pc[q] = "update")
      /\ (NewsDue(q, p)' <=> pc[q] = "refresh") /\ NewsDue(p, q)'
  BY <1>3, <1>4 DEF RequestsDue, AnswersDue, NewsDue
<1>8. Near(p, q)' /\ Near(q, p)' /\ SameTime(p, q)' /\ SameTime(q, p)'
  BY <1>3, <1>4, <1>5 DEF PairFine, Near, SameTime, Later, Leaving
<1>9. BoxAt(p, q)' /\ BoxAt(q, p)'
  BY <1>3, <1>4, <1>7 DEF Box, BoxAt
<1>10. MessagesAt(p, q)'
  <2>1. pc[q] = "update" => GoodAnswers(p, q, AnswersOf(p, q))'
    BY <1>2, <1>3, <1>5, <1>6, <1>7, GoodStays DEF PairFine, MessagesAt
  <2> QED BY <1>7, <2>1 DEF MessagesAt
<1>11. MessagesAt(q, p)'
  BY <1>7 DEF MessagesAt
<1>12. PairFine(p, q)'
  BY <1>8, <1>9, <1>10, <1>11 DEF PairFine
<1>13. Asking(q, p)' = Asking(q, p)
  BY <1>3, <1>4, <1>7 DEF Asking, Vals
<1>14. ASSUME NEW v \in Vertex, Matched(M(v)), Granted(v), {Owner[v], Owner[Partner(M(v))]} = {p, q}
       PROVE  Agreed(v)' \/ Granted(v)'
  <2>1. PICK u : u = Partner(M(v))
    OBVIOUS
  <2>2. u \in Vertex /\ Owner[u] # Owner[v] /\ AnswersDue(Owner[v], Owner[u])
    BY <1>14, <2>1 DEF Granted, Local
  <2>3. \/ Owner[v] = q /\ Owner[u] = p
        \/ Owner[v] = p /\ Owner[u] = q
    BY <1>14, <2>1, <2>2
  <2>4. M(v)' = M(v)
    BY <1>6, <1>14 DEF Firm
  <2>5. CASE Owner[v] = q /\ Owner[u] = p
    <3>1. PICK x : x = M(v)
      OBVIOUS
    <3>2. PICK i \in 1..Len(Due(q, p)) : Due(q, p)[i] = [key |-> Kept(v, ~Keeps(x)), val |-> u]
      BY <1>4, <1>14, <2>1, <2>5, <3>1 DEF Granted
    <3>3. PICK r : r = Due(q, p)[i]
      OBVIOUS
    <3>4. r.key # UNMATCHED /\ Partner(r.key) = v
      <4>1. r.key = Kept(v, ~Keeps(x))
        BY <3>2, <3>3
      <4>2. CASE Keeps(x)
        <5>1. r.key = Kept(v, FALSE)
          BY <4>1, <4>2 DEF Kept
        <5> QED BY <5>1, KeptIs
      <4>3. CASE ~Keeps(x)
        <5>1. r.key = Kept(v, TRUE)
          BY <4>1, <4>3 DEF Kept
        <5> QED BY <5>1, KeptIs
      <4> QED BY <4>2, <4>3
    <3> QED BY <3>3, <3>4, UpdateAgrees
  <2>6. CASE Owner[v] = p /\ Owner[u] = q
    <3>1. pc[q] = "update"
      BY <1>7, <2>2, <2>6
    <3>2. \E i \in 1..Len(AnswersOf(p, q)) : AnswersOf(p, q)[i] = [key |-> Kept(v, ~Keeps(M(v))), val |-> u]
      BY <1>14, <2>1, <2>6 DEF Granted
    <3> QED BY <1>3, <1>7, <2>1, <2>2, <2>4, <2>6, <3>1, <3>2 DEF Granted, Local
  <2> QED BY <2>3, <2>5, <2>6
<1> QED BY <1>6, <1>12, <1>13, <1>14 DEF Cared

LEMMA UpdateKeeps ==
  ASSUME IInv, NEW p \in PE, Update(p)
  PROVE  IInv' /\ Firm
<1>1. Step(p)
  BY DEF Step
<1>2. Private(p)' /\ Bounded1(p)'
  BY UpdatePrivate
<1>3. mtype # "local"
  BY UpdateIs, PrivateFrom DEF Private, Phase1, Locally
<1>4. PICK st : Settled(p, st)
  BY UpdateIs
<1>5. Firm /\ NoNewAsker(p)
  BY <1>4, UpdateChanges DEF NoNewAsker
<1>6. /\ chan' = [q \in PE |-> [r \in PE |-> chan'[q][r]]]
      /\ \A q, r \in PE : q # p /\ r # p => chan'[q][r] = chan[q][r]
  BY UpdateIs
<1>7. \A q \in Nbrs(p) : Cared(p, q)
  BY UpdateCares
<1>8. ASSUME NEW v \in Own(p), Matched(M(v)'), ~Matched(M(v)) PROVE Agreed(v)'
  <2>1. M(v) = MAYBE_MATCHED
    BY <1>4, <1>8, UpdateChanges
  <2>2. PICK q \in Nbrs(p) : \E i \in 1..Len(Due(q, p)) : Due(q, p)[i].val = v
    BY <1>4, <2>1, UpdateChanges
  <2>3. PICK i \in 1..Len(Due(q, p)) : Due(q, p)[i].val = v
    BY <2>2
  <2>4. PICK r : r = Due(q, p)[i]
    OBVIOUS
  <2>5. M(v)' = r.key
    BY <1>4, <2>3, <2>4, UpdateChanges
  <2>6. r.key # UNMATCHED
    BY <1>8, <2>5, MarksAre
  <2> QED BY <2>3, <2>4, <2>6, UpdateAgrees
<1> QED BY <1>1, <1>2, <1>3, <1>5, <1>6, <1>7, <1>8, LoudStep

-----------------------------------------------------------------------------
(* The news arrive, and the pass ends.                                     *)

LEMMA RefreshDoes ==
  ASSUME IInv, NEW p \in PE, Refresh(p)
  PROVE  /\ pc[p] = "refresh" /\ Arrived(p) /\ pass'[p] = pass[p] + 1
         /\ pass[p] + 1 < NPASSES => pc'[p] = "visit"
         /\ ~(pass[p] + 1 < NPASSES) => pc'[p] \in {"hop", "finish"} /\ (pc'[p] = "hop" => twohop)
         /\ match'[p] = [v \in Own(p) \union Ghosts(p) |-> match'[p][v]]
         /\ \A v \in Own(p) : match'[p][v] = match[p][v]
         /\ ii'[p] = nmatched[p] + 1 /\ last'[p] = nmatched[p] + 1 /\ changed'[p] = <<>>
         /\ UNCHANGED <<setup, perm, iperm, nmatched, requests, nkept>>
         /\ chan' = [q \in PE |-> [r \in PE |-> chan'[q][r]]]
         /\ \A q, r \in PE : chan'[q][r] = IF q \in Nbrs(p) /\ r = p THEN Tail(chan[q][r]) ELSE chan[q][r]
<1>1. Shape /\ Private(p)
  BY PrivateFrom
<1>2. /\ pc[p] = "refresh" /\ Arrived(p) /\ pass'[p] = pass[p] + 1
      /\ pc'[p] = (IF pass[p] + 1 < NPASSES THEN "visit" ELSE IF twohop THEN "hop" ELSE "finish")
      /\ match'[p] = Exchanged(chan, p, match[p])
      /\ ii'[p] = nmatched[p] + 1 /\ last'[p] = nmatched[p] + 1 /\ changed'[p] = <<>>
      /\ UNCHANGED <<setup, perm, iperm, nmatched, requests, nkept>>
      /\ chan' = Take(chan, p, Nbrs(p))
  BY <1>1 DEF Refresh, Shape
<1>3. /\ match'[p] = [v \in Own(p) \union Ghosts(p) |-> match'[p][v]]
      /\ \A v \in Own(p) : match'[p][v] = match[p][v]
  <2>1. match'[p] = Exchanged(chan, p, match[p])
    BY <1>2
  <2>2. match[p] = [v \in Own(p) \union Ghosts(p) |-> match[p][v]]
    BY <1>1 DEF Private, Values1
  <2> QED BY <2>1, <2>2, ExchangedIs
<1>4. /\ chan' = [q \in PE |-> [r \in PE |-> chan'[q][r]]]
      /\ \A q, r \in PE : chan'[q][r] = IF q \in Nbrs(p) /\ r = p THEN Tail(chan[q][r]) ELSE chan[q][r]
  <2>1. chan = [q \in PE |-> [r \in PE |-> chan[q][r]]]
    BY <1>1 DEF Shape
  <2>2. chan' = Take(chan, p, Nbrs(p))
    BY <1>2
  <2> QED BY <2>1, <2>2, Taken
<1>5. /\ pass[p] + 1 < NPASSES => pc'[p] = "visit"
      /\ ~(pass[p] + 1 < NPASSES) => pc'[p] \in {"hop", "finish"} /\ (pc'[p] = "hop" => twohop)
  BY <1>2
<1> QED BY <1>2, <1>3, <1>4, <1>5

LEMMA RefreshBoxes ==
  ASSUME IInv, NEW p \in PE, pc[p] = "refresh", Arrived(p), NEW q \in Nbrs(p)
  PROVE  /\ mtype # "local" /\ pc[q] \in {"refresh", "visit", "serve"} \union Leaving
         /\ pc[q] = "refresh" => /\ Tail(chan[q][p]) = <<>> /\ chan[p][q] = <<chan[p][q][1]>>
                                 /\ pass[q] = pass[p]
         /\ pc[q] = "visit" => /\ Tail(chan[q][p]) = <<>> /\ chan[p][q] = <<>>
         /\ pc[q] = "serve" => /\ Tail(chan[q][p]) = <<RequestsOf(q, p)>> /\ chan[p][q] = <<>>
         /\ pc[q] # "refresh" => pass[q] = pass[p] + 1 /\ (pc[q] \in Leaving <=> ~(pass[p] + 1 < NPASSES))
         /\ Asking(p, q) = {}
<1>1. mtype # "local"
  BY PrivateFrom DEF Private, Phase1, Locally
<1>2. PairFine(p, q) /\ q \in PE /\ pass[p] \in Nat /\ pass[q] \in Nat
  BY <1>1, PairNow, Neighbours, PrivateFrom DEF Private, Phase1
<1>3. pc[q] \in Passing \union Leaving
  BY <1>1, <1>2, PrivateFrom DEF Private, Phase1
<1>4. BoxAt(q, p) /\ BoxAt(p, q)
  BY <1>2 DEF PairFine
<1>5. chan[q][p] # <<>>
  BY DEF Arrived, ArrivedFrom
<1>6. pc[q] # "update"
  <2> SUFFICES ASSUME pc[q] = "update" PROVE FALSE
    OBVIOUS
  <2>1. ~RequestsDue(q, p) /\ ~AnswersDue(q, p) /\ ~NewsDue(q, p)
    BY DEF RequestsDue, AnswersDue, NewsDue
  <2>2. Box(q, p)
    BY <1>4 DEF BoxAt, Passing
  <2> QED BY <1>5, <2>1, <2>2 DEF Box
<1>7. pc[q] \in {"refresh", "visit", "serve"} \union Leaving
  BY <1>3, <1>6 DEF Passing
<1>8. /\ ~AnswersDue(q, p) /\ ~AnswersDue(p, q) /\ ~RequestsDue(p, q)
      /\ (RequestsDue(q, p) <=> pc[q] = "serve") /\ (NewsDue(q, p) <=> pc[q] \in {"refresh", "visit", "serve"})
      /\ (NewsDue(p, q) <=> pc[q] = "refresh")
  BY <1>7 DEF RequestsDue, AnswersDue, NewsDue, Leaving
<1>9. /\ pc[q] = "refresh" => pass[q] = pass[p]
      /\ pc[q] # "refresh" => pass[q] = pass[p] + 1
  <2>1. SameTime(p, q)
    BY <1>2 DEF PairFine
  <2>2. ~Later(p, q) /\ (Later(q, p) <=> pc[q] # "refresh")
    BY <1>6 DEF Later
  <2> QED BY <1>2, <2>1, <2>2 DEF SameTime
<1>10. pc[q] # "refresh" => (pc[q] \in Leaving <=> ~(pass[p] + 1 < NPASSES))
  <2>1. IF pc[q] \in Passing THEN pass[q] < NPASSES ELSE pass[q] = NPASSES
    BY <1>1, <1>2 DEF IInv, NotAhead
  <2>2. pc[q] \in Leaving <=> pc[q] \notin Passing
    BY <1>3 DEF Leaving, Passing
  <2>3. NPASSES \in Nat
    BY PassesAssumption
  <2>4. ASSUME pc[q] # "refresh" PROVE pc[q] \in Leaving <=> ~(pass[p] + 1 < NPASSES)
    <3>1. pass[q] = pass[p] + 1
      BY <1>9, <2>4
    <3>2. CASE pc[q] \in Passing
      BY <2>1, <2>2, <3>1, <3>2
    <3>3. CASE pc[q] \notin Passing
      BY <1>2, <2>1, <2>2, <2>3, <3>1, <3>3
    <3> QED BY <3>2, <3>3
  <2> QED BY <2>4
<1>11. Asking(p, q) = {}
  BY <1>8 DEF Asking
<1>12. /\ pc[q] = "refresh" => Tail(chan[q][p]) = <<>> /\ chan[p][q] = <<chan[p][q][1]>>
       /\ pc[q] = "visit" => Tail(chan[q][p]) = <<>> /\ chan[p][q] = <<>>
       /\ pc[q] = "serve" => Tail(chan[q][p]) = <<RequestsOf(q, p)>> /\ chan[p][q] = <<>>
  <2>1. CASE pc[q] = "refresh"
    <3>1. chan[q][p] = <<chan[q][p][1]>> /\ chan[p][q] = <<chan[p][q][1]>>
      BY <1>4, <1>8, <2>1 DEF BoxAt, Box, Passing
    <3>2. PICK a : a = chan[q][p][1]
      OBVIOUS
    <3>3. Tail(<<a>>) = <<>>
      BY Letters
    <3> QED BY <2>1, <3>1, <3>2, <3>3
  <2>2. CASE pc[q] = "visit"
    <3>1. chan[q][p] = <<chan[q][p][1]>> /\ chan[p][q] = <<>>
      BY <1>4, <1>8, <2>2 DEF BoxAt, Box, Passing
    <3>2. PICK a : a = chan[q][p][1]
      OBVIOUS
    <3>3. Tail(<<a>>) = <<>>
      BY Letters
    <3> QED BY <2>2, <3>1, <3>2, <3>3
  <2>3. CASE pc[q] = "serve"
    <3>1. chan[q][p] = <<chan[q][p][1], chan[q][p][2]>> /\ chan[p][q] = <<>>
      BY <1>4, <1>8, <2>3 DEF BoxAt, Box, Passing
    <3>2. PICK a : a = chan[q][p][1]
      OBVIOUS
    <3>3. PICK b : b = chan[q][p][2]
      OBVIOUS
    <3>4. Tail(<<a, b>>) = <<b>>
      BY Letters
    <3>5. RequestsOf(q, p) = b
      BY <3>3 DEF RequestsOf
    <3> QED BY <2>3, <3>1, <3>2, <3>3, <3>4, <3>5
  <2> QED BY <2>1, <2>2, <2>3
<1> QED BY <1>1, <1>7, <1>9, <1>10, <1>11, <1>12

LEMMA RefreshPrivate ==
  ASSUME IInv, NEW p \in PE, Refresh(p)
  PROVE  /\ Private(p)' /\ Bounded1(p)' /\ NoNewAsker(p) /\ mtype # "local"
         /\ \A v \in Own(p) : M(v)' = M(v)
<1>1. Step(p) /\ Elsewhere(p) /\ Private(p)
  BY PrivateFrom, StepElsewhere DEF Step
<1>2. /\ pc[p] = "refresh" /\ pass'[p] = pass[p] + 1
      /\ pass[p] + 1 < NPASSES => pc'[p] = "visit"
      /\ ~(pass[p] + 1 < NPASSES) => pc'[p] \in {"hop", "finish"} /\ (pc'[p] = "hop" => twohop)
      /\ match'[p] = [v \in Own(p) \union Ghosts(p) |-> match'[p][v]]
      /\ \A v \in Own(p) : match'[p][v] = match[p][v]
      /\ ii'[p] = nmatched[p] + 1 /\ last'[p] = nmatched[p] + 1 /\ changed'[p] = <<>>
      /\ UNCHANGED <<setup, perm, iperm, nmatched, requests, nkept>>
  BY RefreshDoes
<1>3. pc'[p] \in {"visit", "hop", "finish"}
  BY <1>2
<1>4. Values1(p)' /\ Single1(p)' /\ NoNewAsker(p) /\ \A v \in Own(p) : M(v)' = M(v)
  <2>1. pc'[p] = "done" <=> pc[p] = "done"
    BY <1>2, <1>3
  <2> QED BY <1>1, <1>2, <2>1, Idle
<1>5. mtype # "local" /\ mtype' = mtype /\ twohop' = twohop
  BY <1>1, <1>2 DEF Private, Phase1, Locally, setup
<1>6. Phase1(p)'
  BY <1>1, <1>2, <1>3, <1>5 DEF Private, Phase1, Passing, Leaving
<1>7. Collected1(p)'
  <2>1. requests'[p] = {}
    BY <1>1, <1>2 DEF Private, Collected1
  <2> QED BY <2>1 DEF Collected1
<1>8. Placed1(p)'
  BY <1>1, <1>2 DEF Private, Placed1
<1>9. Len(changed'[p]) = 0 /\ changed'[p] \in Seq(Own(p))
  BY <1>2
<1>10. Listed1(p)'
  BY <1>9 DEF Listed1
<1>11. Remembered1(p)'
  <2>1. Live(p)' = Live(p)
    BY <1>2 DEF Live
  <2> QED BY <1>1, <1>2, <1>3, <1>4, <1>9, <2>1 DEF Private, Remembered1, Passing
<1>12. Bounded1(p)'
  <2>1. pass[p] < NPASSES /\ pass[p] \in Nat
    BY <1>1, <1>2, <1>5 DEF IInv, NotAhead, Passing, Private, Phase1
  <2>2. CASE pass[p] + 1 < NPASSES
    BY <1>2, <2>1, <2>2 DEF Bounded1, Passing
  <2>3. CASE ~(pass[p] + 1 < NPASSES)
    <3>1. pass'[p] = NPASSES
      BY <1>2, <2>1, <2>3, PassesAssumption
    <3> QED BY <1>2, <2>3, <3>1 DEF Bounded1, Passing
  <2> QED BY <2>2, <2>3
<1> QED BY <1>4, <1>5, <1>6, <1>7, <1>8, <1>10, <1>11, <1>12 DEF Private

LEMMA RefreshCares ==
  ASSUME IInv, NEW p \in PE, Refresh(p), NEW q \in Nbrs(p)
  PROVE  Cared(p, q)
<1>1. Elsewhere(p) /\ q \in PE /\ q # p /\ Shape /\ pass[p] \in Nat
  BY PrivateFrom, StepElsewhere, Neighbours DEF Step, Private, Phase1
<1>2. /\ pc[p] = "refresh" /\ Arrived(p) /\ pass'[p] = pass[p] + 1
      /\ pass[p] + 1 < NPASSES => pc'[p] = "visit"
      /\ ~(pass[p] + 1 < NPASSES) => pc'[p] \in {"hop", "finish"}
      /\ pc'[q] = pc[q] /\ pass'[q] = pass[q] /\ requests'[q] = requests[q]
      /\ requests'[p] = requests[p]
      /\ chan'[q][p] = Tail(chan[q][p]) /\ chan'[p][q] = chan[p][q]
  <2>1. /\ pc[p] = "refresh" /\ Arrived(p) /\ pass'[p] = pass[p] + 1
        /\ pass[p] + 1 < NPASSES => pc'[p] = "visit"
        /\ ~(pass[p] + 1 < NPASSES) => pc'[p] \in {"hop", "finish"}
        /\ UNCHANGED requests
        /\ \A r, o \in PE : chan'[r][o] = IF r \in Nbrs(p) /\ o = p THEN Tail(chan[r][o]) ELSE chan[r][o]
    BY RefreshDoes
  <2> QED BY <1>1, <2>1 DEF Elsewhere
<1>3. /\ mtype # "local" /\ pc[q] \in {"refresh", "visit", "serve"} \union Leaving
      /\ pc[q] = "refresh" => /\ chan'[q][p] = <<>> /\ chan'[p][q] = <<chan'[p][q][1]>>
                              /\ pass[q] = pass[p]
      /\ pc[q] = "visit" => chan'[q][p] = <<>> /\ chan'[p][q] = <<>>
      /\ pc[q] = "serve" => chan'[q][p] = <<RequestsOf(q, p)>> /\ chan'[p][q] = <<>>
      /\ pc[q] # "refresh" => pass[q] = pass[p] + 1 /\ (pc[q] \in Leaving <=> ~(pass[p] + 1 < NPASSES))
      /\ Asking(p, q) = {}
  BY <1>2, RefreshBoxes
<1>4. PairFine(p, q)
  BY <1>3, PairNow
<1>5. Firm /\ SteadyOn(Own(q)) /\ \A v \in Own(p) : M(v)' = M(v)
  BY <1>1, RefreshDoes, RefreshPrivate, Untouched
<1>6. /\ pc'[p] = "visit" \/ pc'[p] \in Leaving
      /\ pc[q] # "refresh" => (pc[q] \in Leaving <=> pc'[p] \in Leaving)
  BY <1>2, <1>3 DEF Leaving
<1>7. /\ ~AnswersDue(p, q) /\ ~AnswersDue(q, p) /\ ~AnswersDue(p, q)' /\ ~AnswersDue(q, p)'
      /\ ~RequestsDue(p, q)' /\ (RequestsDue(q, p) <=> pc[q] = "serve")
      /\ (RequestsDue(q, p)' <=> pc[q] = "serve")
      /\ ~NewsDue(q, p)' /\ (pc'[p] = "visit" => (NewsDue(p, q)' <=> pc[q] = "refresh"))
  BY <1>2, <1>3, <1>6 DEF AnswersDue, RequestsDue, NewsDue, Leaving
<1>8. Near(p, q)' /\ Near(q, p)'
  BY <1>2, <1>3, <1>6 DEF Near, Leaving
<1>9. SameTime(p, q)' /\ SameTime(q, p)'
  <2>1. ~Later(q, p)' /\ (Later(p, q)' <=> pc[q] = "refresh")
    BY <1>2, <1>6 DEF Later, Leaving
  <2> QED BY <1>1, <1>2, <1>3, <2>1 DEF SameTime
<1>10. RequestsOf(q, p)' = chan'[q][p][1]
  BY <1>6 DEF RequestsOf, Leaving
<1>11. pc[q] = "serve" => RequestsOf(q, p)' = RequestsOf(q, p) /\ chan'[q][p] = <<chan'[q][p][1]>>
  <2> SUFFICES ASSUME pc[q] = "serve"
               PROVE  RequestsOf(q, p)' = RequestsOf(q, p) /\ chan'[q][p] = <<chan'[q][p][1]>>
    OBVIOUS
  <2>1. PICK l : l = RequestsOf(q, p)
    OBVIOUS
  <2>2. chan'[q][p] = <<l>> /\ <<l>>[1] = l
    BY <1>3, <2>1, Letters
  <2> QED BY <1>10, <2>1, <2>2
<1>12. BoxAt(p, q)' /\ BoxAt(q, p)'
  <2>1. CASE pc'[p] = "visit"
    BY <1>2, <1>3, <1>6, <1>7, <1>11, <2>1 DEF Box, BoxAt, Leaving, Passing
  <2>2. CASE pc'[p] \in Leaving
    BY <2>2 DEF BoxAt, Leaving, Passing
  <2> QED BY <1>6, <2>1, <2>2
<1>13. MessagesAt(q, p)'
  BY <1>7 DEF MessagesAt
<1>14. MessagesAt(p, q)'
  <2>1. ASSUME pc[q] = "serve" PROVE GoodRequests(q, p, RequestsOf(q, p))'
    <3>1. PICK l : l = RequestsOf(q, p)
      OBVIOUS
    <3>2. GoodRequests(q, p, l)
      BY <1>4, <1>7, <2>1, <3>1 DEF PairFine, MessagesAt
    <3>3. GoodRequests(q, p, l)'
      BY <1>1, <1>5, <3>2, GoodStays
    <3> QED BY <1>11, <2>1, <3>1, <3>3
  <2> QED BY <1>7, <2>1 DEF MessagesAt
<1>15. PairFine(p, q)'
  BY <1>8, <1>9, <1>12, <1>13, <1>14 DEF PairFine
<1>16. Asking(q, p)' = Asking(q, p)
  BY <1>2, <1>7, <1>11 DEF Asking, Vals
<1>17. \A v \in Own(p) : M(v)' # MAYBE_MATCHED
  <2> SUFFICES ASSUME NEW v \in Own(p), M(v)' = MAYBE_MATCHED PROVE FALSE
    OBVIOUS
  <2>1. PICK o \in Nbrs(p) : v \in Asking(p, o)
    BY <1>5 DEF IInv, AskedOnce
  <2> QED BY <1>2, <2>1, RefreshBoxes
<1>18. ASSUME NEW v \in Vertex, Granted(v), {Owner[v], Owner[Partner(M(v))]} = {p, q} PROVE FALSE
  <2>1. AnswersDue(Owner[v], Owner[Partner(M(v))])
    BY <1>18 DEF Granted
  <2>2. \/ Owner[v] = p /\ Owner[Partner(M(v))] = q
        \/ Owner[v] = q /\ Owner[Partner(M(v))] = p
    <3>1. Partner(M(v)) \in Vertex /\ ~Local(Partner(M(v)), v)
      BY <1>18 DEF Granted
    <3> HIDE DEF Partner
    <3> QED BY <1>18, <3>1 DEF Local
  <2> QED BY <1>7, <2>1, <2>2
<1> QED BY <1>15, <1>16, <1>17, <1>18 DEF Cared

LEMMA RefreshKeeps ==
  ASSUME IInv, NEW p \in PE, Refresh(p)
  PROVE  IInv' /\ Firm
<1>1. Step(p) /\ Elsewhere(p)
  BY PrivateFrom, StepElsewhere DEF Step
<1>2. Private(p)' /\ Bounded1(p)' /\ NoNewAsker(p) /\ mtype # "local" /\ \A v \in Own(p) : M(v)' = M(v)
  BY RefreshPrivate
<1>3. \A q \in Nbrs(p) : Cared(p, q)
  BY RefreshCares
<1>4. Firm
  BY <1>1, RefreshDoes, Untouched
<1>5. /\ chan' = [q \in PE |-> [r \in PE |-> chan'[q][r]]]
      /\ \A q, r \in PE : q # p /\ r # p => chan'[q][r] = chan[q][r]
  BY RefreshDoes
<1> QED BY <1>1, <1>2, <1>3, <1>4, <1>5, LoudStep

-----------------------------------------------------------------------------
(* The first state, and every step.                                        *)

LEMMA BeginsOrdered ==
  ASSUME Init, NEW p \in PE
  PROVE  /\ Placed1(p) /\ Live(p) = Own(p)
         /\ perm[p] \in [1..nvtxs[p] -> Own(p)]
<1>1. IsFiniteSet(Own(p)) /\ nvtxs[p] = Cardinality(Own(p)) /\ nvtxs[p] \in Nat
  BY OwnFinite
<1>2. perm[p] \in SetToSeqs(Own(p))
  <2>1. perm[p] \in Orders[p]
    BY DEF Init
  <2> QED BY <2>1, OrdersAssumption
<1>3. /\ perm[p] \in [1..nvtxs[p] -> Own(p)]
      /\ \A i, j \in 1..nvtxs[p] : perm[p][i] = perm[p][j] => i = j
      /\ \A v \in Own(p) : \E i \in 1..nvtxs[p] : perm[p][i] = v
  BY <1>1, <1>2, SeqsAre
<1>4. nmatched[p] = 0 /\ ii[p] = 1 /\ last[p] = 1 /\ 0 + 1 = 1
  BY DEF Init
<1>5. iperm[p] = [v \in Own(p) |-> CHOOSE j \in 1..nvtxs[p] : perm[p][j] = v]
  BY DEF Init
<1>6. \A v \in Own(p) : iperm[p][v] \in 1..nvtxs[p] /\ perm[p][iperm[p][v]] = v
  BY <1>3, <1>5
<1>7. iperm[p] \in [Own(p) -> 1..nvtxs[p]]
  BY <1>5, <1>6
<1>8. \A j \in 1..nvtxs[p] : iperm[p][perm[p][j]] = j
  <2> SUFFICES ASSUME NEW j \in 1..nvtxs[p] PROVE iperm[p][perm[p][j]] = j
    OBVIOUS
  <2>1. PICK v : v = perm[p][j]
    OBVIOUS
  <2>2. v \in Own(p)
    BY <1>3, <2>1
  <2>3. iperm[p][v] \in 1..nvtxs[p] /\ perm[p][iperm[p][v]] = perm[p][j]
    BY <1>6, <2>1, <2>2
  <2> QED BY <1>3, <2>1, <2>3
<1>9. Live(p) = Own(p)
  <2>1. Live(p) = {perm[p][j] : j \in 1..nvtxs[p]}
    BY <1>4 DEF Live
  <2>2. \A j \in 1..nvtxs[p] : perm[p][j] \in Own(p)
    BY <1>3
  <2>3. {perm[p][j] : j \in 1..nvtxs[p]} = Own(p)
    BY <1>3, <2>2
  <2> QED BY <2>1, <2>3
<1>10. Placed1(p)
  BY <1>3, <1>4, <1>7, <1>8 DEF Placed1
<1> QED BY <1>3, <1>9, <1>10

LEMMA BeginsPrivate ==
  ASSUME Init, NEW p \in PE
  PROVE  Private(p)
<1>1. /\ pc[p] = (IF mtype = "local" THEN "local" ELSE "visit") /\ pass[p] = 0
      /\ match[p] = Unmatched(p) /\ nmatched[p] = 0 /\ ii[p] = 1 /\ changed[p] = <<>> /\ requests[p] = {}
      /\ nkept[p] = Cardinality(Vertex) \div npes - nvtxs[p]
  BY DEF Init
<1>2. nkept[p] \in Int
  <2>1. Cardinality(Vertex) \in Nat /\ npes \in Nat \ {0} /\ nvtxs[p] \in Nat
    BY FiniteAssumption, FS_CardinalityType, NpesAssumption, OwnFinite
  <2> QED BY <1>1, <2>1
<1>3. \A v \in Own(p) : Owner[v] = p /\ M(v) = IF mtype # "local" /\ v \in heavy THEN TOO_HEAVY ELSE UNMATCHED
  BY <1>1, OwnIs DEF M, Unmatched
<1>4. Values1(p)
  <2>1. match[p] = [v \in Own(p) \union Ghosts(p) |-> match[p][v]]
    BY <1>1 DEF Unmatched
  <2> QED BY <1>3, <2>1, MarksAre DEF Values1
<1>5. Phase1(p)
  BY <1>1, <1>2 DEF Phase1, Passing, Leaving, Locally
<1>6. Collected1(p)
  BY <1>1 DEF Collected1
<1>7. Single1(p)
  BY <1>1, <1>3 DEF Single1, Lone
<1>8. Placed1(p) /\ Live(p) = Own(p) /\ perm[p] \in [1..nvtxs[p] -> Own(p)]
  BY BeginsOrdered
<1>9. Len(changed[p]) = 0 /\ changed[p] \in Seq(Own(p))
  BY <1>1
<1>10. Listed1(p)
  BY <1>9 DEF Listed1
<1>11. Remembered1(p)
  BY <1>1, <1>3, <1>8, <1>9 DEF Remembered1, Passing
<1> QED BY <1>4, <1>5, <1>6, <1>7, <1>8, <1>10, <1>11 DEF Private

LEMMA Begins == Init => IInv
<1> SUFFICES ASSUME Init PROVE IInv
  OBVIOUS
<1>1. /\ pc = [p \in PE |-> IF mtype = "local" THEN "local" ELSE "visit"]
      /\ pass = [p \in PE |-> 0] /\ chan = NoMessages
      /\ requests = [p \in PE |-> {}]
  BY DEF Init
<1>2. Shape
  <2>1. heavy \in Heavy /\ perm = [p \in PE |-> perm[p]]
    BY DEF Init
  <2>2. chan = [q \in PE |-> [p \in PE |-> chan[q][p]]]
    BY <1>1 DEF NoMessages
  <2> QED BY <2>1, <2>2 DEF Init, Shape
<1>3. \A p \in PE : pc[p] \in {"visit", "local"} /\ (mtype # "local" => pc[p] = "visit") /\ pass[p] = 0
  BY <1>1
<1>4. \A p, q \in PE : ~RequestsDue(q, p) /\ ~AnswersDue(q, p) /\ ~NewsDue(q, p) /\ ~Later(p, q)
  BY <1>3 DEF RequestsDue, AnswersDue, NewsDue, Later
<1>5. NotAhead
  <2>1. \A p \in PE : \A q \in Nbrs(p) : q \in PE
    BY Neighbours
  <2>2. ASSUME mtype # "local", NEW p \in PE, NEW q \in Nbrs(p) PROVE Near(p, q) /\ SameTime(p, q)
    BY <1>3, <1>4, <2>1, <2>2 DEF Near, SameTime, Leaving
  <2>3. \A p \in PE : mtype # "local" => pc[p] \in Passing /\ pass[p] < NPASSES
    BY <1>3, PassesAssumption DEF Passing
  <2> QED BY <2>2, <2>3 DEF NotAhead
<1>6. Boxes
  BY <1>1, <1>4, Neighbours DEF Boxes, Box, NoMessages
<1>7. Messages
  BY <1>4, Neighbours DEF Messages
<1>8. ASSUME NEW v \in Vertex PROVE ~Matched(M(v)) /\ M(v) # MAYBE_MATCHED
  <2>1. match[Owner[v]] = Unmatched(Owner[v]) /\ v \in Own(Owner[v])
    BY OwnerIn DEF Init
  <2> QED BY <2>1, MarksAre DEF Unmatched, M
<1>9. AskedOnce /\ Mated
  BY <1>8, OwnIs DEF AskedOnce, Mated
<1> QED BY <1>2, <1>5, <1>6, <1>7, <1>9, BeginsPrivate, PrivateTo DEF Shared

LEMMA Steps ==
  ASSUME IInv, [Next]_vars
  PROVE  IInv' /\ Firm
<1>1. CASE \E p \in PE : Step(p)
  <2>1. PICK p \in PE : Step(p)
    BY <1>1
  <2> QED BY <2>1, SkipKeeps, MatchIslandKeeps, MatchLocalKeeps, AskRemoteKeeps, SendRequestsKeeps, ServeKeeps,
             UpdateKeeps, RefreshKeeps, HopKeeps, HopPublishKeeps, HopRefreshKeeps, FinishKeeps,
             VisitLocalKeeps, PublishLocalKeeps, RefreshLocalKeeps DEF Step
<1>2. CASE UNCHANGED vars
  <2>1. UNCHANGED <<level, twohop, mtype, heavy, pc, pass, match, perm, iperm, nmatched, ii,
                    last, changed, requests, nkept, chan>>
    BY <1>2 DEF vars
  <2>2. \A v : M(v)' = M(v)
    BY <2>1 DEF M
  <2>3. Typed' /\ Together'
    BY <2>1 DEF IInv, Typed, Together
  <2>4. \A p, q : /\ RequestsDue(q, p)' <=> RequestsDue(q, p)
                  /\ AnswersDue(q, p)' <=> AnswersDue(q, p)
                  /\ NewsDue(q, p)' <=> NewsDue(q, p)
                  /\ RequestsOf(q, p)' = RequestsOf(q, p) /\ AnswersOf(q, p)' = AnswersOf(q, p)
    BY <2>1 DEF RequestsDue, AnswersDue, NewsDue, RequestsOf, AnswersOf
  <2>5. NotAhead'
    BY <2>1 DEF IInv, NotAhead, Near, SameTime, Later
  <2>6. Boxes'
    BY <2>1, <2>4 DEF IInv, Boxes, Box
  <2>7. \A q \in PE : SteadyOn(Own(q))
    BY <2>2 DEF SteadyOn
  <2>8. Firm
    BY <2>2 DEF Firm
  <2>9. Messages'
    <3> SUFFICES ASSUME NEW p \in PE, NEW q \in Nbrs(p), MessagesAt(p, q) PROVE MessagesAt(p, q)'
      BY DEF IInv, Messages, MessagesAt
    <3>1. q \in PE
      BY NbrsIn
    <3>2. PICK a : a = RequestsOf(q, p)
      OBVIOUS
    <3>3. PICK b : b = AnswersOf(p, q)
      OBVIOUS
    <3>4. /\ GoodRequests(q, p, a) => GoodRequests(q, p, a)'
          /\ GoodAnswers(p, q, b) => GoodAnswers(p, q, b)'
      BY <2>7, <2>8, <3>1, GoodStays
    <3> QED BY <2>4, <3>2, <3>3, <3>4 DEF MessagesAt
  <2>10. Collected' /\ Alone' /\ Over' /\ Placed'
    BY <2>1, <2>2 DEF IInv, Collected, Alone, Over, Placed
  <2>11. AskedOnce'
    <3>1. \A p, q : Asking(q, p)' = Asking(q, p)
      BY <2>1, <2>4 DEF Asking, Vals
    <3> QED BY <2>2, <3>1 DEF IInv, AskedOnce
  <2>12. Mated'
    BY <2>1, <2>2, <2>4 DEF IInv, Mated, Agreed, Granted
  <2>13. Listed'
    BY <2>1, <2>2 DEF IInv, Listed
  <2>14. Remembered'
    BY <2>1, <2>2 DEF IInv, Remembered, Live
  <2> QED BY <2>3, <2>5, <2>6, <2>8, <2>9, <2>10, <2>11, <2>12, <2>13, <2>14 DEF IInv
<1> QED BY <1>1, <1>2 DEF Next

\* The invariant holds in every state of every run.
THEOREM Invariance == Spec => []IInv
<1>1. Init => IInv
  BY Begins
<1>2. IInv /\ [Next]_vars => IInv'
  BY Steps
<1> QED BY <1>1, <1>2, PTL DEF Spec

-----------------------------------------------------------------------------
(* What follows.                                                           *)

LEMMA FinalIs == \A v \in Vertex : Final[v] = M(v)
BY DEF Final, M

\* Once matched, a vertex keeps its partner and its keeper: no later request,
\* answer, pass or two-hop matching of Match_Global takes a match back.
THEOREM MatchesAreFinal == Spec => MatchIsFinal
<1>1. ASSUME IInv, [Next]_vars, NEW v \in Vertex, Matched(Final[v]) PROVE Final'[v] = Final[v]
  <2>1. Firm
    BY <1>1, Steps
  <2>2. Final'[v] = M(v)'
    BY DEF Final, M
  <2> QED BY <1>1, <2>1, <2>2, FinalIs DEF Firm
<1>2. IInv /\ [Next]_vars => [\A v \in Vertex : Matched(Final[v]) => Final'[v] = Final[v]]_vars
  BY <1>1
<1> QED BY <1>2, Invariance, PTL DEF Spec, MatchIsFinal

\* When all PEs are done, the ends of each pair agree on each other and on
\* which of them keeps the coarse vertex, and every PE keeps one.
THEOREM MatchingAgrees == Spec => []AgreedMatching
<1>1. ASSUME IInv, Terminated PROVE IsMatching(Final) /\ \A v \in Vertex : Agreed(v)
  <2>1. ASSUME NEW v \in Vertex PROVE Matched(M(v)) /\ Agreed(v)
    <3>1. \A p \in PE : pc[p] = "done"
      BY <1>1 DEF Terminated
    <3>2. Matched(M(v))
      BY <1>1, <3>1, OwnerIn DEF IInv, Over
    <3>3. Agreed(v) \/ Granted(v)
      BY <1>1, <3>2 DEF IInv, Mated
    <3>4. ~Granted(v)
      BY <3>1, OwnerIn DEF Granted, AnswersDue
    <3> QED BY <3>2, <3>3, <3>4
  <2>2. ASSUME NEW p \in PE PROVE \E v \in Own(p) : Keeps(Final[v])
    <3>1. PICK v \in Own(p) : v \in heavy
      BY <1>1, HeavyAssumption DEF IInv, Typed
    <3>2. v \in Vertex
      BY <3>1, OwnIs
    <3>3. M(v) \in {UNMATCHED, TOO_HEAVY, v + KeepBit}
      BY <1>1, <3>1, <3>2 DEF IInv, Alone
    <3>4. M(v) = v + KeepBit
      BY <2>1, <3>2, <3>3, MarksAre
    <3>5. Keeps(v + KeepBit)
      BY <3>2, VertexIs DEF Keeps
    <3> QED BY <3>2, <3>4, <3>5, FinalIs
  <2>3. ASSUME NEW v \in Vertex
        PROVE  LET u == Partner(Final[v]) IN
               /\ Matched(Final[v]) /\ u \in Vertex
               /\ Partner(Final[u]) = v
               /\ u = v => Keeps(Final[v])
               /\ u # v => Keeps(Final[u]) = ~Keeps(Final[v])
               /\ u # v /\ Local(u, v) => (Keeps(Final[v]) <=> v < u)
               /\ ~Local(u, v) => u \in Adj[v]
    <3>1. Final[v] = M(v) /\ Partner(M(v)) \in Vertex
      BY <2>1, FinalIs DEF Agreed
    <3>2. Final[Partner(M(v))] = M(Partner(M(v)))
      BY <3>1, FinalIs
    <3> QED BY <2>1, <3>1, <3>2 DEF Agreed
  <2> QED BY <2>1, <2>2, <2>3 DEF IsMatching
<1>2. IInv => AgreedMatching
  <2> SUFFICES ASSUME IInv, Terminated
               PROVE  /\ IsMatching(Final)
                      /\ (~twohop \/ mtype = "local") => \A v \in Vertex : Home[Partner(Final[v])] = Home[v]
    BY DEF AgreedMatching
  <2>1. \A v \in Vertex : Final[v] = M(v) /\ Agreed(v)
    BY <1>1, FinalIs
  <2> QED BY <1>1, <2>1 DEF Agreed
<1> QED BY <1>2, Invariance, PTL

\* No list outgrows its buffer: the requests to a neighbour fit what it has
\* posted (recvptr), and changed, allocated with nvtxs words, gets no vertex
\* twice.
THEOREM BuffersAreEnough == Spec => []BuffersSuffice
<1>1. ASSUME IInv, NEW p \in PE, NEW q \in Nbrs(p)
      PROVE  Cardinality({r \in requests[p] : Owner[r.key] = q}) <= Cardinality(Send(p, q))
  <2> DEFINE R == {r \in requests[p] : Owner[r.key] = q}
             f == [r \in R |-> r.val]
  <2>1. /\ requests[p] \subseteq [key : Ghosts(p), val : Own(p)]
        /\ \A r \in requests[p] : Fits(r.key, r.val)
        /\ \A r, s \in requests[p] : r.val = s.val => r = s
    BY <1>1 DEF IInv, Typed, Collected
  <2>2. q \in PE /\ q # p
    BY <1>1, Neighbours
  <2>3. ASSUME NEW r \in R PROVE r.val \in Send(p, q)
    <3>1. r.key \in Own(q) /\ r.val \in Own(p) /\ r.val \in Adj[r.key]
      BY <2>1, <2>2, GhostsAre, OwnIs DEF Fits
    <3> QED BY <2>2, <3>1, SendIs, OwnIs, AdjAssumption
  <2>4. f \in Injection(R, Send(p, q))
    BY <2>1, <2>3 DEF Injection, IsInjective
  <2>5. IsFiniteSet(Send(p, q))
    <3>1. Send(p, q) \subseteq Own(p)
      BY <2>2, SendIs
    <3> QED BY <3>1, OwnFinite, FS_Subset
  <2> QED BY <2>4, <2>5, FS_Injection
<1>2. ASSUME IInv, NEW p \in PE
      PROVE  Len(changed[p]) <= nvtxs[p] /\ Cardinality(ToSet(changed[p])) = Len(changed[p])
  <2> DEFINE c == changed[p]
             n == Len(changed[p])
  <2>1. c \in Seq(Own(p)) /\ \A i, j \in 1..n : c[i] = c[j] => i = j
    BY <1>2 DEF IInv, Listed
  <2>2. n \in Nat /\ DOMAIN c = 1..n /\ c \in [1..n -> Own(p)]
    BY <2>1, LenProperties
  <2>3. c \in Injection(1..n, Own(p))
    BY <2>1, <2>2 DEF Injection, IsInjective
  <2>4. IsFiniteSet(1..n) /\ Cardinality(1..n) = n
    BY <2>2, FS_Interval
  <2>5. n <= nvtxs[p]
    BY <2>3, <2>4, OwnFinite, FS_Injection
  <2>6. c \in Bijection(1..n, ToSet(c))
    BY <2>1, <2>2 DEF Bijection, Injection, Surjection, IsInjective, ToSet
  <2>7. Cardinality(ToSet(c)) = n
    BY <2>4, <2>6, FS_Bijection DEF ExistsBijection
  <2> QED BY <2>5, <2>7
<1>3. IInv => BuffersSuffice
  BY <1>1, <1>2 DEF BuffersSuffice
<1> QED BY <1>3, Invariance, PTL

\* Retiring the changed vertices from perm loses nobody: who is still
\* unmatched has exactly one of the positions that are visited in the next
\* pass or in the two-hop matching.
THEOREM NobodyIsForgotten == Spec => []NobodyForgotten
<1>1. ASSUME IInv, NEW p \in PE, pc[p] \in {"visit", "hop"}
      PROVE  LET Rest == (nmatched[p] + 1)..nvtxs[p] IN
             /\ \A v \in Own(p) : match[p][v] = UNMATCHED => \E j \in Rest : perm[p][j] = v
             /\ \A j, k \in Rest : perm[p][j] = perm[p][k] => j = k
  <2> DEFINE Rest == (nmatched[p] + 1)..nvtxs[p]
  <2>1. \A j \in Rest : iperm[p][perm[p][j]] = j
    BY <1>1 DEF IInv, Placed
  <2>2. \A j, k \in Rest : perm[p][j] = perm[p][k] => j = k
    BY <2>1
  <2>3. ASSUME NEW v \in Own(p), match[p][v] = UNMATCHED PROVE \E j \in Rest : perm[p][j] = v
    <3>1. ~Matched(M(v))
      BY <1>1, <2>3, MatchIs, MarksAre
    <3>2. v \in Live(p)
      BY <1>1, <3>1 DEF IInv, Remembered, Passing
    <3> QED BY <3>2 DEF Live
  <2> QED BY <2>2, <2>3
<1>2. IInv => NobodyForgotten
  BY <1>1 DEF NobodyForgotten
<1> QED BY <1>2, Invariance, PTL
=============================================================================
