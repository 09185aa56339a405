---------------------------- MODULE PointToPoint ----------------------------
(***************************************************************************)
(* The messages of gkMPI_Isend and gkMPI_Irecv (libparmetis/gkmpi.c) as    *)
(* the phases of the library use them: chan[p][q] holds what p has sent to *)
(* q and q has not taken yet.  All messages carry tag 1, and MPI keeps the *)
(* order of the messages of one sender.                                    *)
(***************************************************************************)
EXTENDS Integers, Sequences, DistGraph

NoMessages == [p \in PE |-> [q \in PE |-> <<>>]]

\* The channels after p has sent msgs[q] to each PE q in its domain.
Post(chan, p, msgs) ==
  [chan EXCEPT ![p] = [q \in PE |-> IF q \in DOMAIN msgs THEN Append(@[q], msgs[q]) ELSE @[q]]]

\* p's receives from all of From can complete.
ArrivedFrom(chan, p, From) == \A q \in From : chan[q][p] # <<>>

\* The channels after p has taken one message from each of From.
Take(chan, p, From) ==
  [q \in PE |-> IF q \in From THEN [chan[q] EXCEPT ![p] = Tail(@)] ELSE chan[q]]

\* The copies of interface data after an exchange: p's own value of a vertex,
\* or for a ghost what its owner's message says, if it says something.
Exchanged(chan, p, data) ==
  [v \in DOMAIN data |->
     IF v \in Ghosts(p) /\ v \in DOMAIN Head(chan[Owner[v]][p])
     THEN Head(chan[Owner[v]][p])[v] ELSE data[v]]
=============================================================================
