---------------------------- MODULE HaloExchange ----------------------------
(***************************************************************************)
(* The interface exchanges of libparmetis/comm.c.  Every PE owns a block   *)
(* of the vertices and keeps a ghost copy of one word of data for every    *)
(* remote vertex adjacent to its own.  All PEs run the same sequence of    *)
(* exchanges: CommInterfaceData sends every interface value,               *)
(* CommChangedInterfaceData only those its caller lists as changed, and a  *)
(* message of length zero to every neighbour that has none of them.        *)
(*                                                                         *)
(* Every message of the library carries tag 1, so a receive is matched     *)
(* with a send only by the order of the messages of one sender (MPI does   *)
(* not let them overtake each other), and a PE may be one exchange ahead   *)
(* of a neighbour.  The model keeps one FIFO channel per ordered pair.     *)
(***************************************************************************)
EXTENDS Integers, Sequences, FiniteSets, DistGraph

CONSTANTS
  Value,     \* the values a word of interface data can take
  Start,     \* Start[v]: the value of v before the program
  Choices,   \* Choices[r]: the values a caller may store before exchange r
  NoValue,   \* content of a ghost slot before the first exchange
  MaxRound,  \* number of exchanges of the program
  Eager      \* the PEs whose sends complete at once; those of the others only
             \* when the matching receive is posted (MPI allows both)

ASSUME ValueAssumption == NoValue \notin Value /\ Start \in [Vertex -> Value]
ASSUME RoundAssumption == MaxRound \in Nat /\ Choices \in [1..MaxRound -> SUBSET Value]
ASSUME EagerAssumption == Eager \subseteq PE
\* The exchange of each round, the same on all PEs.  The first one fills all
\* ghosts.
Kind    == {"full", "changed"}
Program == {k \in [1..MaxRound -> Kind] : MaxRound > 0 => k[1] = "full"}

VARIABLES
  prog,    \* the kind of every exchange of the program
  data,    \* data[v]: the value of v at its owner
  ghost,   \* ghost[p][v]: the value PE p holds for the remote vertex v
  round,   \* round[p]: how many exchanges p has entered
  pc,      \* "compute" outside an exchange, "wait" inside
  await,   \* await[p]: neighbours whose message p has not taken yet
  chan,    \* chan[p][q]: the messages in flight from p to q, oldest first
  sent     \* sent[p][r]: p's own data when it entered round r (history variable)

vars == <<prog, data, ghost, round, pc, await, chan, sent>>

\* vals[v] is NoValue for the vertices a message does not mention.
Message == [round : 1..MaxRound, vals : [Vertex -> Value \cup {NoValue}]]

\* The states the exchanges can be in: logs and channels are finite sequences
\* of whole messages, and no round exceeds the program.
TypeOK ==
  /\ prog \in Program
  /\ data \in [Vertex -> Value]
  /\ ghost \in [PE -> [Vertex -> Value \cup {NoValue}]]
  /\ round \in [PE -> 0..MaxRound]
  /\ pc \in [PE -> {"compute", "wait"}]
  /\ await \in [PE -> SUBSET PE]
  /\ chan \in [PE -> [PE -> Seq(Message)]]
  /\ DOMAIN sent = PE
  /\ \A p \in PE : sent[p] \in Seq([Own(p) -> Value])

Init ==
  /\ prog \in Program
  /\ data = Start
  /\ ghost = [p \in PE |-> [v \in Vertex |-> NoValue]]
  /\ round = [p \in PE |-> 0]
  /\ pc = [p \in PE |-> "compute"]
  /\ await = [p \in PE |-> {}]
  /\ chan = [p \in PE |-> [q \in PE |-> <<>>]]
  /\ sent = [p \in PE |-> <<>>]

-----------------------------------------------------------------------------

PackedListed(kind, d, changed, p, q) ==
  [v \in Vertex |-> IF v \in Send(p, q) \cap changed THEN d[v] ELSE NoValue]

\* What p packs for q: all of the interface, or its listed vertices only.
Packed(kind, d, changed, p, q) ==
  LET S == IF kind = "full" THEN Send(p, q) ELSE Send(p, q) \cap changed
  IN  [v \in Vertex |-> IF v \in S THEN d[v] ELSE NoValue]

\* The neighbours that get a message: all of them, whether or not anything
\* changed for them.
TargetsWithNews(p, changed) == {q \in Nbrs(p) : Send(p, q) \cap changed # {}}
Targets(p, changed) == Nbrs(p)

\* The caller has given new values to the vertices in changed and enters its
\* next exchange: the receives are posted and one message goes to each
\* neighbour, of length zero when nothing changed for it.
Enter(p) ==
  /\ pc[p] = "compute"
  /\ round[p] < MaxRound
  /\ \E changed \in SUBSET Own(p) : \E new \in [changed -> Choices[round[p] + 1]] :
       LET r == round[p] + 1
           d == [v \in Vertex |-> IF v \in changed THEN new[v] ELSE data[v]]
       IN  /\ data' = d
           /\ sent' = [sent EXCEPT ![p] = Append(@, [v \in Own(p) |-> d[v]])]
           /\ round' = [round EXCEPT ![p] = r]
           /\ chan' = [chan EXCEPT ![p] = [q \in PE |->
                        IF q \in Targets(p, changed)
                        THEN Append(chan[p][q],
                               [round |-> r,
                                vals |-> Packed(prog[r], d, changed, p, q)])
                        ELSE chan[p][q]]]
  /\ await' = [await EXCEPT ![p] = Nbrs(p)]
  /\ pc' = [pc EXCEPT ![p] = "wait"]
  /\ UNCHANGED <<prog, ghost>>

\* CommInterfaceData waits for all receives at once; CommChangedInterfaceData
\* takes them one after the other in the order of peind.
Takes(p, q) == prog[round[p]] = "changed" => \A s \in await[p] : q <= s

Unpack(g, vals) == [v \in Vertex |-> IF vals[v] # NoValue THEN vals[v] ELSE g[v]]

Receive(p, q) ==
  /\ pc[p] = "wait"
  /\ q \in await[p]
  /\ Takes(p, q)
  /\ chan[q][p] # <<>>
  /\ ghost' = [ghost EXCEPT ![p] = Unpack(@, Head(chan[q][p]).vals)]
  /\ chan' = [chan EXCEPT ![q][p] = Tail(@)]
  /\ await' = [await EXCEPT ![p] = @ \ {q}]
  /\ UNCHANGED <<prog, data, round, pc, sent>>

\* MPI_Waitall on the send requests: a send that is not eager completes only
\* once its receiver has posted the receive of the same round.
SendsDone(p) == p \in Eager \/ \A q \in Nbrs(p) : round[q] >= round[p]

\* Both MPI_Waitall's have returned.
Ready(p) == await[p] = {} /\ SendsDone(p)

Leave(p) ==
  /\ pc[p] = "wait"
  /\ Ready(p)
  /\ pc' = [pc EXCEPT ![p] = "compute"]
  /\ UNCHANGED <<prog, data, ghost, round, await, chan, sent>>

Step(p) == Enter(p) \/ (\E q \in PE : Receive(p, q)) \/ Leave(p)

Terminated == \A p \in PE : pc[p] = "compute" /\ round[p] = MaxRound

Next == (\E p \in PE : Step(p)) \/ (Terminated /\ UNCHANGED vars)

Spec == Init /\ [][Next]_vars

\* Every PE runs its straight-line program and MPI makes progress.
FairSpec == Spec /\ \A p \in PE : WF_vars(Step(p))

-----------------------------------------------------------------------------
(* Properties *)

\* How many messages of p have been taken by q.
Taken(q, p) == IF p \in await[q] THEN round[q] - 1 ELSE round[q]

\* When a PE is out of its r-th exchange, each of its ghosts holds the value
\* its owner had when the owner entered its own r-th exchange, though the
\* owner may be ahead by then: CommInterfaceData and
\* CommChangedInterfaceData keep all copies coherent.
GhostsCoherent ==
  \A p \in PE : pc[p] = "compute" /\ round[p] > 0 =>
    \A v \in Ghosts(p) : ghost[p][v] = sent[Owner[v]][round[p]][v]

\* One tag is enough: the message a PE takes from a neighbour is always the
\* one the neighbour sent in the same exchange, never one of another exchange
\* that was delayed or sent ahead.
RightMessage ==
  \A p, q \in PE : q \in await[p] /\ chan[q][p] # <<>> =>
    Head(chan[q][p]).round = round[p]

\* The exchange is a barrier between neighbours: no PE is more than one
\* exchange ahead of a neighbour, and no more than two of its messages are
\* ever in flight to it.
RunAheadBounded ==
  \A p \in PE : \A q \in Nbrs(p) :
    /\ round[p] <= round[q] + 1
    /\ Len(chan[p][q]) <= 2

\* Nothing is left in flight between two PEs that have come out of the same
\* exchange, so neither at the end of the program: a leftover message would be
\* taken by the next phase of the library in place of its own.
NothingLeftOver ==
  \A p, q \in PE : pc[p] = "compute" /\ pc[q] = "compute" /\ round[p] = round[q] =>
    chan[p][q] = <<>>

\* No PE waits forever in an exchange, even when sends are not buffered.
AllFinish == <>Terminated

-----------------------------------------------------------------------------
(* What the exchanges promise to their callers, see HaloAbstract. *)

\* A PE inside an exchange still shows its callers what the exchange before
\* left.
Completed(p) == IF pc[p] = "compute" THEN round[p] ELSE round[p] - 1
View == [p \in PE |-> [v \in Ghosts(p) |->
          IF Completed(p) = 0 THEN NoValue
          ELSE IF pc[p] = "compute" THEN ghost[p][v]
          ELSE sent[Owner[v]][Completed(p)][v]]]
Inside == [p \in PE |-> pc[p] = "wait"]

Abstract == INSTANCE HaloAbstract WITH published <- sent, view <- View, inside <- Inside

\* The exchanges implement the atomic exchange: every step of a PE publishes
\* its data, refreshes all of its ghosts at once, or is invisible to callers.
ImplementsAbstract == Abstract!ASpec

-----------------------------------------------------------------------------
(* The inductive invariant behind the properties. *)

LogInv == \A p \in PE :
  /\ Len(sent[p]) = round[p]
  /\ round[p] > 0 => \A v \in Own(p) : sent[p][round[p]][v] = data[v]

AwaitInv == \A p \in PE :
  /\ await[p] \subseteq Nbrs(p)
  /\ pc[p] = "compute" => await[p] = {}
  /\ pc[p] = "wait" => round[p] > 0

\* What message m of p to q says of round m.round, given p's log: the values
\* p had, and for a vertex it does not mention that its value is the one of
\* the round before.
Faithful(log, m, p, q) == \A v \in Vertex :
  IF m.vals[v] # NoValue
  THEN v \in Send(p, q) /\ m.vals[v] = log[m.round][v]
  ELSE v \in Send(p, q) => /\ m.round > 1
                           /\ log[m.round][v] = log[m.round - 1][v]

\* The channel holds exactly the messages of the rounds p has entered and of
\* which q has not taken the message, in order.
ChanInv == \A p \in PE : \A q \in PE :
  /\ q \notin Nbrs(p) => chan[p][q] = <<>>
  /\ q \in Nbrs(p) =>
       /\ Len(chan[p][q]) = round[p] - Taken(q, p)
       /\ \A i \in 1..Len(chan[p][q]) :
            /\ chan[p][q][i].round = Taken(q, p) + i
            /\ Faithful(sent[p], chan[p][q][i], p, q)

GhostInv == \A q \in PE : \A p \in Nbrs(q) : \A v \in Recv(q, p) :
  Taken(q, p) > 0 => ghost[q][v] = sent[p][Taken(q, p)][v]

\* One exchange is one entry of the log, awaited messages come from
\* neighbours, channels hold the missing rounds in order, and each ghost has
\* the value of the last round taken: together, why a single tag is enough
\* for the exchanges of comm.c.
IInv == TypeOK /\ LogInv /\ AwaitInv /\ ChanInv /\ GhostInv
=============================================================================
