---------------------------- MODULE HaloAbstract ----------------------------
(***************************************************************************)
(* What an interface exchange of comm.c promises to its callers, without   *)
(* channels: a PE publishes its data when it enters round r, and leaves    *)
(* the round by replacing, in one step, its view of all remote vertices by *)
(* what their owners published for round r.  It can leave only when all    *)
(* neighbours have entered the round.                                      *)
(***************************************************************************)
EXTENDS Integers, Sequences

CONSTANTS PE, Vertex, Owner, Ghosts(_), Value, NoValue, MaxRound

VARIABLES published, view, inside
avars == <<published, view, inside>>

AInit ==
  /\ published = [p \in PE |-> <<>>]
  /\ view = [p \in PE |-> [v \in Ghosts(p) |-> NoValue]]
  /\ inside = [p \in PE |-> FALSE]

Publish(p) ==
  /\ ~inside[p]
  /\ Len(published[p]) < MaxRound
  /\ \E d \in [{v \in Vertex : Owner[v] = p} -> Value] : published' = [published EXCEPT ![p] = Append(@, d)]
  /\ inside' = [inside EXCEPT ![p] = TRUE]
  /\ UNCHANGED view

Refresh(p) ==
  /\ inside[p]
  /\ \A v \in Ghosts(p) : Len(published[Owner[v]]) >= Len(published[p])
  /\ view' = [view EXCEPT ![p] =
                [v \in Ghosts(p) |-> published[Owner[v]][Len(published[p])][v]]]
  /\ inside' = [inside EXCEPT ![p] = FALSE]
  /\ UNCHANGED published

ANext == \E p \in PE : Publish(p) \/ Refresh(p)

ASpec == AInit /\ [][ANext]_avars
=============================================================================
