------------------------ MODULE HaloExchange_proofs ------------------------
(***************************************************************************)
(* Proofs about HaloExchange, for any number of PEs, any graph and any     *)
(* sequence of exchanges.  The invariant IInv is inductive: Enter adds one *)
(* message to each channel and one entry to the log, Receive takes the     *)
(* oldest message and moves the ghosts of one neighbour on by one round.   *)
(***************************************************************************)
EXTENDS HaloExchange, TLAPS

\* Being a neighbour is symmetric, which CommSetup asserts (j == nnbrs), and
\* no PE is its own neighbour.
LEMMA NbrsSymmetric ==
  \A p, q \in PE : (q \in Nbrs(p) <=> p \in Nbrs(q)) /\ p \notin Nbrs(p)
BY AdjAssumption, OwnerAssumption DEF Nbrs, peind, Recv, recvind, Own, owned

\* The ghosts of a PE are the vertices in the slices of its neighbours.
LEMMA GhostSlices ==
  \A p \in PE : \A v \in Ghosts(p) :
    v \in Vertex /\ Owner[v] \in Nbrs(p) /\ v \in Recv(p, Owner[v])
<1> SUFFICES ASSUME NEW p \in PE, NEW v \in Ghosts(p)
             PROVE  v \in Vertex /\ Owner[v] \in Nbrs(p) /\ v \in Recv(p, Owner[v])
  OBVIOUS
<1>1. PICK q \in PE : v \in Recv(p, q)
  BY DEF Ghosts, ghosts
<1>2. v \in Vertex /\ Owner[v] = q
  BY <1>1 DEF Recv, recvind, Own, owned
<1> QED BY <1>1, <1>2 DEF Nbrs, peind

\* The initial states satisfy the invariant: the log and the channels are
\* empty.
LEMMA InitInv == Init => IInv
<1> SUFFICES ASSUME Init PROVE IInv
  OBVIOUS
<1>1. TypeOK
  BY ValueAssumption, RoundAssumption DEF Init, TypeOK
<1>2. LogInv
  BY DEF Init, LogInv
<1>3. AwaitInv
  BY DEF Init, AwaitInv
<1>4. ChanInv
  BY DEF Init, ChanInv, Taken
<1>5. GhostInv
  BY DEF Init, GhostInv, Taken, Nbrs, peind
<1> QED BY <1>1, <1>2, <1>3, <1>4, <1>5 DEF IInv

\* Entering an exchange keeps the invariant: the new message is the one of
\* the new round, and what it leaves out has not changed since the last.
LEMMA EnterInv == ASSUME IInv, NEW p \in PE, Enter(p) PROVE IInv'
<1> USE DEF IInv
<1> DEFINE r == round[p] + 1
<1>1. PICK changed \in SUBSET Own(p) : \E new \in [changed -> Choices[r]] :
       LET d == [v \in Vertex |-> IF v \in changed THEN new[v] ELSE data[v]]
       IN  /\ data' = d
           /\ sent' = [sent EXCEPT ![p] = Append(@, [v \in Own(p) |-> d[v]])]
           /\ round' = [round EXCEPT ![p] = r]
           /\ chan' = [chan EXCEPT ![p] = [q \in PE |->
                        IF q \in Targets(p, changed)
                        THEN Append(chan[p][q],
                               [round |-> r,
                                vals |-> Packed(prog[r], d, changed, p, q)])
                        ELSE chan[p][q]]]
  BY DEF Enter
<1>2. PICK new \in [changed -> Choices[r]] :
       LET d == [v \in Vertex |-> IF v \in changed THEN new[v] ELSE data[v]]
       IN  /\ data' = d
           /\ sent' = [sent EXCEPT ![p] = Append(@, [v \in Own(p) |-> d[v]])]
           /\ round' = [round EXCEPT ![p] = r]
           /\ chan' = [chan EXCEPT ![p] = [q \in PE |->
                        IF q \in Targets(p, changed)
                        THEN Append(chan[p][q],
                               [round |-> r,
                                vals |-> Packed(prog[r], d, changed, p, q)])
                        ELSE chan[p][q]]]
  BY <1>1
<1> DEFINE d == [v \in Vertex |-> IF v \in changed THEN new[v] ELSE data[v]]
           msg(q) == [round |-> r, vals |-> Packed(prog[r], d, changed, p, q)]
<1>3. /\ pc[p] = "compute" /\ round[p] < MaxRound
      /\ data' = d
      /\ sent' = [sent EXCEPT ![p] = Append(@, [v \in Own(p) |-> d[v]])]
      /\ round' = [round EXCEPT ![p] = r]
      /\ chan' = [chan EXCEPT ![p] = [q \in PE |->
                   IF q \in Nbrs(p) THEN Append(chan[p][q], msg(q)) ELSE chan[p][q]]]
      /\ await' = [await EXCEPT ![p] = Nbrs(p)]
      /\ pc' = [pc EXCEPT ![p] = "wait"]
      /\ prog' = prog /\ ghost' = ghost
  BY <1>2 DEF Enter, Targets
<1>4. /\ r \in 1..MaxRound /\ round[p] \in Nat
      /\ d \in [Vertex -> Value]
      /\ [v \in Own(p) |-> d[v]] \in [Own(p) -> Value]
      /\ \A q \in PE : msg(q) \in Message
  <2>1. round[p] \in 0..MaxRound /\ r \in 1..MaxRound
    BY <1>3, RoundAssumption DEF TypeOK
  <2>2. d \in [Vertex -> Value]
    BY <2>1, <1>2, RoundAssumption DEF TypeOK, Own, owned
  <2>3. \A q \in PE : Packed(prog[r], d, changed, p, q) \in [Vertex -> Value \cup {NoValue}]
    BY <2>2 DEF Packed
  <2> HIDE DEF d
  <2> QED BY <2>1, <2>2, <2>3 DEF Message, Own, owned
<1> HIDE DEF d
<1>5. TypeOK'
  <2>1. data' \in [Vertex -> Value] /\ prog' \in Program
    BY <1>3, <1>4 DEF TypeOK
  <2>2. round' \in [PE -> 0..MaxRound]
    BY <1>3, <1>4 DEF TypeOK
  <2>3. pc' \in [PE -> {"compute", "wait"}] /\ ghost' \in [PE -> [Vertex -> Value \cup {NoValue}]]
    BY <1>3 DEF TypeOK
  <2>4. await' \in [PE -> SUBSET PE]
    BY <1>3 DEF TypeOK, Nbrs, peind
  <2>5. chan' \in [PE -> [PE -> Seq(Message)]]
    <3> DEFINE row == [q \in PE |-> IF q \in Nbrs(p) THEN Append(chan[p][q], msg(q)) ELSE chan[p][q]]
    <3>1. \A q \in PE : chan[p][q] \in Seq(Message)
      BY DEF TypeOK
    <3>2. \A q \in PE : Append(chan[p][q], msg(q)) \in Seq(Message)
      <4> HIDE DEF msg
      <4> QED BY <3>1, <1>4
    <3>3. row \in [PE -> Seq(Message)]
      BY <3>1, <3>2
    <3> QED BY <3>3, <1>3 DEF TypeOK
  <2>6. DOMAIN sent' = PE /\ \A q \in PE : sent'[q] \in Seq([Own(q) -> Value])
    <3>1. sent[p] \in Seq([Own(p) -> Value])
      BY DEF TypeOK
    <3>2. Append(sent[p], [v \in Own(p) |-> d[v]]) \in Seq([Own(p) -> Value])
      BY <3>1, <1>4
    <3> QED BY <3>2, <1>3 DEF TypeOK
  <2> QED BY <2>1, <2>2, <2>3, <2>4, <2>5, <2>6 DEF TypeOK
<1>6. /\ \A q \in PE : q # p => /\ sent'[q] = sent[q] /\ round'[q] = round[q]
                               /\ await'[q] = await[q] /\ pc'[q] = pc[q]
                               /\ chan'[q] = chan[q]
      /\ round'[p] = r /\ await'[p] = Nbrs(p) /\ pc'[p] = "wait"
      /\ Len(sent[p]) = round[p] /\ Len(sent'[p]) = r
      /\ sent'[p][r] = [v \in Own(p) |-> d[v]]
      /\ \A i \in 1..round[p] : sent'[p][i] = sent[p][i]
  <2>1. sent[p] \in Seq([Own(p) -> Value]) /\ DOMAIN sent = PE
    BY DEF TypeOK
  <2>2. sent'[p] = Append(sent[p], [v \in Own(p) |-> d[v]])
    BY <2>1, <1>3
  <2>3. Len(sent[p]) = round[p]
    BY DEF LogInv
  <2>4. \A q \in PE : q # p => sent'[q] = sent[q]
    BY <2>1, <1>3
  <2>5. /\ \A q \in PE : q # p => /\ round'[q] = round[q] /\ await'[q] = await[q]
                               /\ pc'[q] = pc[q] /\ chan'[q] = chan[q]
        /\ round'[p] = r /\ await'[p] = Nbrs(p) /\ pc'[p] = "wait"
    BY <1>3 DEF TypeOK
  <2> QED BY <2>1, <2>2, <2>3, <2>4, <2>5
<1>7. \A q \in PE : \A i \in 1..round[q] : sent'[q][i] = sent[q][i]
  BY <1>6
<1>8. LogInv'
  <2> SUFFICES ASSUME NEW q \in PE
               PROVE  /\ Len(sent'[q]) = round'[q]
                      /\ round'[q] > 0 => \A v \in Own(q) : sent'[q][round'[q]][v] = data'[v]
    BY DEF LogInv, Own, owned
  <2>1. CASE q = p
    BY <2>1, <1>3, <1>6
  <2>2. CASE q # p
    <3>1. \A v \in Own(q) : data'[v] = data[v]
      BY <2>2, <1>3 DEF d, Own, owned
    <3> QED BY <2>2, <3>1, <1>6 DEF LogInv
  <2> QED BY <2>1, <2>2
<1>9. AwaitInv'
  <2> SUFFICES ASSUME NEW q \in PE
               PROVE  /\ await'[q] \subseteq Nbrs(q)
                      /\ pc'[q] = "compute" => await'[q] = {}
                      /\ pc'[q] = "wait" => round'[q] > 0
    BY DEF AwaitInv
  <2>1. CASE q = p
    BY <2>1, <1>4, <1>6
  <2>2. CASE q # p
    BY <2>2, <1>6 DEF AwaitInv
  <2> QED BY <2>1, <2>2
<1>10. \A q, s \in PE : Taken(q, s)' = Taken(q, s) \/ (q = p /\ s \notin Nbrs(p))
  <2> SUFFICES ASSUME NEW q \in PE, NEW s \in PE, q # p \/ s \in Nbrs(p)
               PROVE  Taken(q, s)' = Taken(q, s)
    OBVIOUS
  <2>1. CASE q # p
    BY <2>1, <1>6 DEF Taken
  <2>2. CASE q = p /\ s \in Nbrs(p)
    <3>1. await[p] = {}
      BY <1>3 DEF AwaitInv
    <3> QED BY <2>2, <3>1, <1>4, <1>6 DEF Taken
  <2> QED BY <2>1, <2>2
<1>11. ChanInv'
  <2> SUFFICES ASSUME NEW s \in PE, NEW q \in PE
        PROVE /\ q \notin Nbrs(s) => chan'[s][q] = <<>>
              /\ q \in Nbrs(s) =>
                   /\ Len(chan'[s][q]) = round'[s] - Taken(q, s)'
                   /\ \A i \in 1..Len(chan'[s][q]) :
                        /\ chan'[s][q][i].round = Taken(q, s)' + i
                        /\ Faithful(sent'[s], chan'[s][q][i], s, q)
    BY DEF ChanInv
  <2>1. q \notin Nbrs(s) => chan'[s][q] = <<>>
    BY <1>3, <1>6 DEF ChanInv, TypeOK
  <2> SUFFICES ASSUME q \in Nbrs(s)
        PROVE      /\ Len(chan'[s][q]) = round'[s] - Taken(q, s)'
                   /\ \A i \in 1..Len(chan'[s][q]) :
                        /\ chan'[s][q][i].round = Taken(q, s)' + i
                        /\ Faithful(sent'[s], chan'[s][q][i], s, q)
    BY <2>1
  <2>2. Taken(q, s)' = Taken(q, s) /\ Taken(q, s) \in Int /\ round[s] \in Nat
        /\ Taken(q, s) >= 0
    <3>1. q = p => s \in Nbrs(p)
      BY NbrsSymmetric
    <3>2. round[q] \in Nat /\ (s \in await[q] => round[q] > 0)
      BY DEF TypeOK, AwaitInv
    <3> QED BY <3>1, <3>2, <1>10 DEF TypeOK, Taken
  <2>3. chan[s][q] \in Seq(Message)
    BY DEF TypeOK
  <2>4. /\ Len(chan[s][q]) = round[s] - Taken(q, s)
        /\ \A i \in 1..Len(chan[s][q]) :
             /\ chan[s][q][i].round = Taken(q, s) + i
             /\ Faithful(sent[s], chan[s][q][i], s, q)
    BY DEF ChanInv
  <2>5. \A i \in 1..Len(chan[s][q]) : Faithful(sent'[s], chan[s][q][i], s, q)
    <3> SUFFICES ASSUME NEW i \in 1..Len(chan[s][q])
                 PROVE  Faithful(sent'[s], chan[s][q][i], s, q)
      OBVIOUS
    <3>1. chan[s][q][i].round \in 1..round[s]
      <4>1. Len(chan[s][q]) \in Nat
        BY <2>3
      <4>2. chan[s][q][i].round = Taken(q, s) + i
        BY <2>4
      <4> QED BY <4>1, <4>2, <2>2, <2>4
    <3>2. sent'[s][chan[s][q][i].round] = sent[s][chan[s][q][i].round]
      BY <3>1, <1>7
    <3>3. chan[s][q][i].round > 1 =>
            sent'[s][chan[s][q][i].round - 1] = sent[s][chan[s][q][i].round - 1]
      BY <3>1, <1>7, <2>2, SMTT(20)
    <3>4. Faithful(sent[s], chan[s][q][i], s, q)
      BY <2>4
    <3> QED BY <3>2, <3>3, <3>4 DEF Faithful
  <2>6. CASE s # p
    BY <2>2, <2>4, <2>5, <2>6, <1>6
  <2>7. CASE s = p
    <3>1. chan'[p][q] = Append(chan[p][q], msg(q))
      BY <2>7, <1>3 DEF TypeOK
    <3>2. Len(chan'[p][q]) = Len(chan[p][q]) + 1
      BY <3>1, <2>3, <2>7
    <3>3. \A i \in 1..Len(chan[p][q]) : chan'[p][q][i] = chan[p][q][i]
      BY <3>1, <2>3, <2>7
    <3>4. chan'[p][q][Len(chan[p][q]) + 1] = msg(q)
      BY <3>1, <2>3, <2>7
    <3>5. msg(q).round = r /\ Taken(q, p) + Len(chan[p][q]) + 1 = r
      BY <2>2, <2>4, <2>7, <1>4
    <3>6. Faithful(sent'[p], msg(q), p, q)
      <4>1. SUFFICES ASSUME NEW v \in Vertex
             PROVE  IF msg(q).vals[v] # NoValue
                    THEN v \in Send(p, q) /\ msg(q).vals[v] = sent'[p][r][v]
                    ELSE v \in Send(p, q) => /\ r > 1
                                             /\ sent'[p][r][v] = sent'[p][r - 1][v]
        BY <3>5 DEF Faithful
      <4>2. v \in Send(p, q) => v \in Own(p) /\ sent'[p][r][v] = d[v]
        BY <1>6 DEF Send, Recv, recvind, Own, owned
      <4>3. msg(q).vals[v] = IF v \in Send(p, q) /\ (prog[r] = "full" \/ v \in changed)
                             THEN d[v] ELSE NoValue
        BY DEF Packed
      <4>4. d[v] # NoValue
        BY <1>4, ValueAssumption
      <4>5. CASE v \in Send(p, q) /\ prog[r] # "full" /\ v \notin changed
        <5>1. round[p] > 0 /\ r > 1 /\ r - 1 = round[p]
          <6>1. MaxRound > 0 /\ (round[p] = 0 => r = 1)
            BY <1>4, RoundAssumption
          <6>2. prog[1] = "full"
            BY <6>1 DEF TypeOK, Program
          <6> QED BY <6>1, <6>2, <4>5, <1>4
        <5>2. sent'[p][r - 1][v] = data[v]
          <6>1. sent[p][round[p]][v] = data[v]
            BY <5>1, <4>2, <4>5 DEF LogInv
          <6>2. round[p] \in 1..round[p]
            BY <5>1, <1>4
          <6>3. sent'[p][round[p]] = sent[p][round[p]]
            BY <6>2, <1>6
          <6> QED BY <6>1, <6>3, <5>1
        <5>3. d[v] = data[v]
          BY <4>5 DEF d
        <5> QED BY <5>1, <5>2, <5>3, <4>2, <4>3, <4>5
      <4> HIDE DEF msg
      <4> QED BY <4>2, <4>3, <4>4, <4>5
    <3>7. round'[p] = round[p] + 1 /\ round'[p] = r
      BY <1>6
    <3> DEFINE old == chan[p][q]  n == Len(chan[p][q])  neu == chan'[p][q]  t == Taken(q, p)
    <3>8. n \in Nat /\ t \in Int
      BY <2>2, <2>3, <2>7
    <3>9. \A i \in 1..n : /\ neu[i].round = t + i
                          /\ Faithful(sent'[p], neu[i], p, q)
      BY <3>3, <2>4, <2>5, <2>7
    <3>10. neu[n + 1].round = t + (n + 1) /\ Faithful(sent'[p], neu[n + 1], p, q)
      BY <3>4, <3>5, <3>6, <3>8
    <3>11. Len(neu) = n + 1 /\ n + 1 = round'[p] - t
      BY <3>2, <3>7, <3>8, <2>2, <2>4, <2>7, SMTT(20)
    <3>12. Taken(q, p)' = t
      BY <2>2, <2>7
    <3> HIDE DEF msg, r, old, n, neu, t
    <3>13. \A i \in 1..(n + 1) : /\ neu[i].round = t + i
                                /\ Faithful(sent'[p], neu[i], p, q)
      <4> SUFFICES ASSUME NEW i \in 1..(n + 1)
                   PROVE  neu[i].round = t + i /\ Faithful(sent'[p], neu[i], p, q)
        OBVIOUS
      <4>1. i \in 1..n \/ i = n + 1
        BY <3>8
      <4> QED BY <4>1, <3>9, <3>10
    <3> QED BY <3>11, <3>12, <3>13, <2>7 DEF neu
  <2> QED BY <2>6, <2>7
<1>12. GhostInv'
  <2> SUFFICES ASSUME NEW q \in PE, NEW s \in Nbrs(q), NEW v \in Recv(q, s), Taken(q, s)' > 0
               PROVE  ghost'[q][v] = sent'[s][Taken(q, s)'][v]
    BY DEF GhostInv
  <2>1. s \in PE /\ q \in Nbrs(s) /\ (q = p => s \in Nbrs(p))
    BY NbrsSymmetric DEF Nbrs, peind
  <2>2. Taken(q, s)' = Taken(q, s)
    BY <2>1, <1>10
  <2>3. Taken(q, s) \in 1..round[s] /\ Taken(q, s) > 0
    <3>1. Taken(q, s) > 0 /\ Taken(q, s) \in Int /\ round[s] \in Nat
      BY <2>1, <2>2 DEF TypeOK, Taken
    <3>2. chan[s][q] \in Seq(Message)
      BY <2>1 DEF TypeOK
    <3>3. Len(chan[s][q]) \in Nat
      BY <3>2
    <3>4. Len(chan[s][q]) = round[s] - Taken(q, s)
      BY <2>1 DEF ChanInv
    <3> QED BY <3>1, <3>3, <3>4
  <2>4. ghost[q][v] = sent[s][Taken(q, s)][v]
    BY <2>3, <2>1 DEF GhostInv
  <2>5. sent'[s][Taken(q, s)] = sent[s][Taken(q, s)]
    BY <2>1, <2>3, <1>7
  <2> QED BY <2>2, <2>4, <2>5, <1>3
<1> QED BY <1>5, <1>8, <1>9, <1>11, <1>12

\* Taking the oldest message of a neighbour keeps the invariant: it is the
\* message of the round after the last one taken.
LEMMA ReceiveInv == ASSUME IInv, NEW p \in PE, NEW q \in PE, Receive(p, q) PROVE IInv'
<1> USE DEF IInv
<1> DEFINE m == Head(chan[q][p])
<1>1. /\ pc[p] = "wait" /\ q \in await[p] /\ chan[q][p] # <<>>
      /\ ghost' = [ghost EXCEPT ![p] = Unpack(@, m.vals)]
      /\ chan' = [chan EXCEPT ![q][p] = Tail(@)]
      /\ await' = [await EXCEPT ![p] = @ \ {q}]
      /\ prog' = prog /\ data' = data /\ round' = round /\ pc' = pc /\ sent' = sent
  BY DEF Receive
<1>2. /\ q \in Nbrs(p) /\ p \in Nbrs(q)
      /\ round[p] \in Nat \ {0} /\ round[q] \in Nat
  <2>1. q \in Nbrs(p)
    BY <1>1 DEF AwaitInv
  <2>2. round[p] \in Nat /\ round[q] \in Nat /\ round[p] > 0
    BY <1>1 DEF AwaitInv, TypeOK
  <2> QED BY <2>1, <2>2, NbrsSymmetric
<1>3. /\ chan[q][p] \in Seq(Message) /\ m = chan[q][p][1] /\ m \in Message
      /\ Len(chan[q][p]) \in Nat \ {0}
      /\ Tail(chan[q][p]) \in Seq(Message)
      /\ Len(Tail(chan[q][p])) = Len(chan[q][p]) - 1
      /\ \A i \in 1..Len(Tail(chan[q][p])) : Tail(chan[q][p])[i] = chan[q][p][i + 1]
  <2>1. chan[q][p] \in Seq(Message)
    BY DEF TypeOK
  <2> QED BY <2>1, <1>1
<1>4. Taken(p, q) = round[p] - 1 /\ Taken(p, q)' = round[p]
  BY <1>1 DEF Taken, TypeOK
<1>5. m.round = round[p] /\ Faithful(sent[q], m, q, p)
  <2>1. /\ chan[q][p][1].round = Taken(p, q) + 1
        /\ Faithful(sent[q], chan[q][p][1], q, p)
    BY <1>2, <1>3 DEF ChanInv
  <2> QED BY <2>1, <1>2, <1>3, <1>4
<1>6. \A s, t \in PE : (s # p \/ t # q) => Taken(s, t)' = Taken(s, t)
  BY <1>1 DEF Taken, TypeOK
<1>7. TypeOK'
  <2>1. ghost' \in [PE -> [Vertex -> Value \cup {NoValue}]]
    <3>1. m.vals \in [Vertex -> Value \cup {NoValue}]
      BY <1>3 DEF Message
    <3>2. ghost[p] \in [Vertex -> Value \cup {NoValue}]
      BY DEF TypeOK
    <3>3. Unpack(ghost[p], m.vals) \in [Vertex -> Value \cup {NoValue}]
      BY <3>1, <3>2 DEF Unpack
    <3> HIDE DEF m
    <3> QED BY <3>3, <1>1 DEF TypeOK
  <2>2. chan' \in [PE -> [PE -> Seq(Message)]]
    <3>1. chan \in [PE -> [PE -> Seq(Message)]]
      BY DEF TypeOK
    <3>2. \A T : T \in Seq(Message) =>
            [chan EXCEPT ![q][p] = T] \in [PE -> [PE -> Seq(Message)]]
      BY <3>1
    <3> QED BY <3>2, <1>1, <1>3
  <2>3. await' \in [PE -> SUBSET PE]
    BY <1>1 DEF TypeOK
  <2> QED BY <2>1, <2>2, <2>3, <1>1 DEF TypeOK
<1>8. LogInv'
  BY <1>1 DEF LogInv
<1>9. AwaitInv'
  <2> SUFFICES ASSUME NEW s \in PE
               PROVE  /\ await'[s] \subseteq Nbrs(s)
                      /\ pc'[s] = "compute" => await'[s] = {}
                      /\ pc'[s] = "wait" => round'[s] > 0
    BY DEF AwaitInv
  <2>1. await'[s] \subseteq await[s]
    BY <1>1 DEF TypeOK
  <2> QED BY <2>1, <1>1 DEF AwaitInv
<1>10. ChanInv'
  <2> SUFFICES ASSUME NEW s \in PE, NEW t \in PE
        PROVE /\ t \notin Nbrs(s) => chan'[s][t] = <<>>
              /\ t \in Nbrs(s) =>
                   /\ Len(chan'[s][t]) = round'[s] - Taken(t, s)'
                   /\ \A i \in 1..Len(chan'[s][t]) :
                        /\ chan'[s][t][i].round = Taken(t, s)' + i
                        /\ Faithful(sent'[s], chan'[s][t][i], s, t)
    BY DEF ChanInv
  <2>1. CASE s # q \/ t # p
    <3>1. chan'[s][t] = chan[s][t]
      BY <2>1, <1>1 DEF TypeOK
    <3>2. Taken(t, s)' = Taken(t, s)
      BY <2>1, <1>6
    <3> QED BY <3>1, <3>2, <1>1 DEF ChanInv
  <2>2. CASE s = q /\ t = p
    <3> DEFINE old == chan[q][p]  neu == chan'[q][p]
    <3>1. neu = Tail(old)
      BY <1>1 DEF TypeOK
    <3>2. /\ Len(old) = round[q] - Taken(p, q)
          /\ \A i \in 1..Len(old) : /\ old[i].round = Taken(p, q) + i
                                   /\ Faithful(sent[q], old[i], q, p)
      BY <1>2 DEF ChanInv
    <3>3. Len(neu) = round'[q] - Taken(p, q)'
      <4>1. Len(neu) = Len(old) - 1 /\ Len(old) \in Nat
        BY <3>1, <1>3
      <4>2. round'[q] = round[q] /\ Taken(p, q)' = Taken(p, q) + 1 /\ Taken(p, q) \in Int
        BY <1>1, <1>2, <1>4
      <4> HIDE DEF old, neu
      <4> QED BY <4>1, <4>2, <3>2, <1>2
    <3>4. \A i \in 1..Len(neu) : neu[i] = old[i + 1] /\ i + 1 \in 1..Len(old)
      BY <3>1, <1>3
    <3> HIDE DEF old, neu
    <3>5. \A i \in 1..Len(neu) : /\ neu[i].round = Taken(p, q)' + i
                                /\ Faithful(sent'[q], neu[i], q, p)
      <4> SUFFICES ASSUME NEW i \in 1..Len(neu)
                   PROVE  /\ neu[i].round = Taken(p, q)' + i
                          /\ Faithful(sent'[q], neu[i], q, p)
        OBVIOUS
      <4>1. i \in Int
        OBVIOUS
      <4>2. /\ neu[i].round = Taken(p, q) + (i + 1)
            /\ Faithful(sent[q], neu[i], q, p)
        BY <3>2, <3>4
      <4> QED BY <4>1, <4>2, <1>1, <1>2, <1>4
    <3> QED BY <3>3, <3>5, <2>2, <1>2 DEF neu
  <2> QED BY <2>1, <2>2
<1>11. GhostInv'
  <2> SUFFICES ASSUME NEW t \in PE, NEW s \in Nbrs(t), NEW v \in Recv(t, s), Taken(t, s)' > 0
               PROVE  ghost'[t][v] = sent'[s][Taken(t, s)'][v]
    BY DEF GhostInv
  <2>1. s \in PE /\ v \in Vertex /\ v \in Own(s) /\ v \in Send(s, t)
    BY DEF Nbrs, peind, Recv, recvind, Own, owned, Send
  <2>2. CASE t # p
    <3>1. ghost'[t] = ghost[t]
      BY <2>2, <1>1 DEF TypeOK
    <3> QED BY <3>1, <2>1, <2>2, <1>1, <1>6 DEF GhostInv
  <2>3. CASE t = p
    <3>1. ghost'[p][v] = IF m.vals[v] # NoValue THEN m.vals[v] ELSE ghost[p][v]
      BY <2>1, <1>1 DEF TypeOK, Unpack
    <3>2. CASE s # q
      <4>1. m.vals[v] = NoValue
        <5>1. v \notin Send(q, p)
          BY <3>2, <2>1 DEF Send, Recv, recvind, Own, owned
        <5> QED BY <5>1, <2>1, <1>5 DEF Faithful
      <4> QED BY <4>1, <3>1, <3>2, <2>1, <2>3, <1>1, <1>6 DEF GhostInv
    <3>3. CASE s = q
      <4>1. CASE m.vals[v] # NoValue
        <5>1. m.vals[v] = sent[q][round[p]][v]
          BY <4>1, <2>1, <1>5 DEF Faithful
        <5> QED BY <5>1, <4>1, <3>1, <3>3, <2>3, <1>1, <1>4
      <4>2. CASE m.vals[v] = NoValue
        <5>1. round[p] > 1 /\ sent[q][round[p]][v] = sent[q][round[p] - 1][v]
          BY <4>2, <3>3, <2>1, <2>3, <1>5 DEF Faithful
        <5>2. ghost[p][v] = sent[q][round[p] - 1][v]
          BY <5>1, <3>3, <2>3, <1>2, <1>4 DEF GhostInv
        <5> QED BY <5>1, <5>2, <4>2, <3>1, <3>3, <2>3, <1>1, <1>4
      <4> QED BY <4>1, <4>2
    <3> QED BY <3>2, <3>3
  <2> QED BY <2>2, <2>3
<1> QED BY <1>7, <1>8, <1>9, <1>10, <1>11

\* Leaving an exchange changes nothing but the program counter.
LEMMA LeaveInv == ASSUME IInv, NEW p \in PE, Leave(p) PROVE IInv'
<1> USE DEF IInv
<1>1. /\ await[p] = {} /\ pc' = [pc EXCEPT ![p] = "compute"]
      /\ UNCHANGED <<prog, data, ghost, round, await, chan, sent>>
  BY DEF Leave, Ready
<1>2. TypeOK'
  BY <1>1 DEF TypeOK
<1>3. AwaitInv'
  BY <1>1 DEF AwaitInv, TypeOK
<1>4. LogInv' /\ ChanInv' /\ GhostInv'
  BY <1>1 DEF LogInv, ChanInv, GhostInv, Taken
<1> QED BY <1>2, <1>3, <1>4

\* The three actions and stuttering keep the invariant.
LEMMA StepInv == IInv /\ [Next]_vars => IInv'
<1> SUFFICES ASSUME IInv, [Next]_vars PROVE IInv'
  OBVIOUS
<1>1. ASSUME NEW p \in PE, Enter(p) PROVE IInv'
  BY <1>1, EnterInv
<1>2. ASSUME NEW p \in PE, NEW q \in PE, Receive(p, q) PROVE IInv'
  BY <1>2, ReceiveInv
<1>3. ASSUME NEW p \in PE, Leave(p) PROVE IInv'
  BY <1>3, LeaveInv
<1>4. CASE UNCHANGED vars
  <2> USE <1>4 DEF vars, IInv
  <2>1. TypeOK'
    BY DEF TypeOK
  <2>2. LogInv' /\ AwaitInv'
    BY DEF LogInv, AwaitInv
  <2>3. ChanInv'
    BY DEF ChanInv, Taken
  <2>4. GhostInv'
    BY DEF GhostInv, Taken
  <2> QED BY <2>1, <2>2, <2>3, <2>4
<1> QED BY <1>1, <1>2, <1>3, <1>4 DEF Next, Step

\* The invariant holds in every reachable state of the exchanges.
THEOREM Invariance == Spec => []IInv
BY InitInv, StepInv, PTL DEF Spec

\* Every variable of the exchanges keeps its type.
THEOREM TypeCorrect == Spec => []TypeOK
<1>1. IInv => TypeOK
  BY DEF IInv
<1> QED BY <1>1, Invariance, PTL

\* CommInterfaceData and CommChangedInterfaceData keep all ghost copies equal
\* to what their owners held in the same exchange.
THEOREM Coherence == Spec => []GhostsCoherent
<1>1. IInv => GhostsCoherent
  <2> SUFFICES ASSUME IInv, NEW p \in PE, pc[p] = "compute", round[p] > 0,
                      NEW v \in Ghosts(p)
               PROVE  ghost[p][v] = sent[Owner[v]][round[p]][v]
    BY DEF GhostsCoherent
  <2>1. await[p] = {}
    BY DEF IInv, AwaitInv
  <2>2. Taken(p, Owner[v]) = round[p]
    BY <2>1 DEF Taken
  <2> QED BY <2>2, GhostSlices DEF IInv, GhostInv
<1> QED BY <1>1, Invariance, PTL

\* One tag suffices: a receive is always matched with the message its
\* neighbour sent in the same exchange.
THEOREM RightMatching == Spec => []RightMessage
<1>1. IInv => RightMessage
  <2> SUFFICES ASSUME IInv, NEW p \in PE, NEW q \in PE, q \in await[p], chan[q][p] # <<>>
               PROVE  Head(chan[q][p]).round = round[p]
    BY DEF RightMessage
  <2>1. q \in Nbrs(p) /\ p \in Nbrs(q)
    BY NbrsSymmetric DEF IInv, AwaitInv
  <2>2. chan[q][p] \in Seq(Message) /\ round[p] \in Nat
    BY DEF IInv, TypeOK
  <2>3. 1 \in 1..Len(chan[q][p]) /\ Head(chan[q][p]) = chan[q][p][1]
    BY <2>2
  <2>4. chan[q][p][1].round = Taken(p, q) + 1
    BY <2>1, <2>3 DEF IInv, ChanInv
  <2> QED BY <2>2, <2>3, <2>4 DEF Taken
<1> QED BY <1>1, Invariance, PTL

\* No PE is more than one exchange ahead of a neighbour, and the buffers of
\* MPI never hold more than two messages of a pair.
THEOREM RunAhead == Spec => []RunAheadBounded
<1>1. IInv => RunAheadBounded
  <2> SUFFICES ASSUME IInv, NEW p \in PE, NEW q \in Nbrs(p)
               PROVE  round[p] <= round[q] + 1 /\ Len(chan[p][q]) <= 2
    BY DEF RunAheadBounded
  <2>1. q \in PE /\ p \in Nbrs(q)
    BY NbrsSymmetric DEF Nbrs, peind
  <2>2. /\ Len(chan[p][q]) = round[p] - Taken(q, p)
        /\ Len(chan[q][p]) = round[q] - Taken(p, q)
    BY <2>1 DEF IInv, ChanInv
  <2>3. Len(chan[p][q]) \in Nat /\ Len(chan[q][p]) \in Nat
    <3>1. chan[p][q] \in Seq(Message) /\ chan[q][p] \in Seq(Message)
      BY <2>1 DEF IInv, TypeOK
    <3> QED BY <3>1
  <2>4. round[p] \in Nat /\ round[q] \in Nat
    BY <2>1 DEF IInv, TypeOK
  <2>5. Taken(q, p) \in {round[q] - 1, round[q]} /\ Taken(p, q) \in {round[p] - 1, round[p]}
    BY DEF Taken
  <2> QED BY <2>2, <2>3, <2>4, <2>5
<1> QED BY <1>1, Invariance, PTL

\* A program of exchanges leaves no message behind for the next phase.
THEOREM Clean == Spec => []NothingLeftOver
<1>1. IInv => NothingLeftOver
  <2> SUFFICES ASSUME IInv, NEW p \in PE, NEW q \in PE, pc[p] = "compute",
                      pc[q] = "compute", round[p] = round[q]
               PROVE  chan[p][q] = <<>>
    BY DEF NothingLeftOver
  <2>1. CASE q \notin Nbrs(p)
    BY <2>1 DEF IInv, ChanInv
  <2>2. CASE q \in Nbrs(p)
    <3>1. Taken(q, p) = round[p] /\ round[p] \in 0..MaxRound
      BY DEF IInv, AwaitInv, Taken, TypeOK
    <3>2. Len(chan[p][q]) = 0
      BY <2>2, <3>1, RoundAssumption DEF IInv, ChanInv
    <3>3. chan[p][q] \in Seq(Message)
      BY DEF IInv, TypeOK
    <3> QED BY <3>2, <3>3
  <2> QED BY <2>1, <2>2
<1> QED BY <1>1, Invariance, PTL

-----------------------------------------------------------------------------
(* The exchanges implement the atomic exchange. *)

\* What the refinement needs of the invariant about a ghost of p: its owner
\* has entered every exchange that p has completed.
LEMMA OwnersCaughtUp ==
  ASSUME IInv, NEW p \in PE, NEW v \in Ghosts(p)
  PROVE  /\ Owner[v] \in PE /\ v \in Vertex /\ v \in Recv(p, Owner[v])
         /\ Taken(p, Owner[v]) <= round[Owner[v]]
         /\ Taken(p, Owner[v]) >= Completed(p)
         /\ round[p] \in Nat /\ round[Owner[v]] \in Nat /\ Completed(p) \in Nat
         /\ Len(sent[p]) = round[p] /\ Len(sent[Owner[v]]) = round[Owner[v]]
<1> DEFINE q == Owner[v]
<1>1. q \in Nbrs(p) /\ v \in Recv(p, q)
  BY GhostSlices
<1>2. q \in PE /\ p \in Nbrs(q) /\ v \in Vertex
  BY <1>1, GhostSlices, NbrsSymmetric DEF Nbrs, peind
<1>3. round[p] \in Nat /\ round[q] \in Nat
  BY <1>2 DEF IInv, TypeOK
<1>4. chan[q][p] \in Seq(Message) /\ Len(chan[q][p]) = round[q] - Taken(p, q)
  BY <1>2 DEF IInv, TypeOK, ChanInv
<1>5. Len(chan[q][p]) \in Nat
  BY <1>4
<1>6. pc[p] = "compute" \/ (pc[p] = "wait" /\ round[p] > 0)
  BY DEF IInv, TypeOK, AwaitInv
<1>7. Taken(p, q) \in Int /\ Taken(p, q) >= Completed(p) /\ Completed(p) \in Nat
  BY <1>3, <1>6 DEF Taken, Completed, IInv, AwaitInv
<1>8. Len(sent[p]) = round[p] /\ Len(sent[q]) = round[q]
  BY <1>2 DEF IInv, LogInv
<1> QED BY <1>1, <1>2, <1>3, <1>4, <1>5, <1>7, <1>8

\* The exchanges start as the atomic exchange does.
LEMMA RefinesInit == Init => Abstract!AInit
<1> SUFFICES ASSUME Init PROVE Abstract!AInit
  OBVIOUS
<1>1. \A p \in PE : pc[p] = "compute" /\ round[p] = 0 /\ Completed(p) = 0
  BY DEF Init, Completed
<1>2. sent = [p \in PE |-> <<>>]
  BY DEF Init
<1>3. Inside = [p \in PE |-> FALSE]
  BY <1>1 DEF Inside
<1>4. View = [p \in PE |-> [v \in Ghosts(p) |-> NoValue]]
  BY <1>1, Zenon DEF View
<1> QED BY <1>2, <1>3, <1>4 DEF Abstract!AInit

\* Entering publishes, and does not change what callers see.
LEMMA RefinesEnter == ASSUME IInv, NEW p \in PE, Enter(p) PROVE Abstract!Publish(p)
<1>1. PICK d \in [Own(p) -> Value] :
        /\ sent' = [sent EXCEPT ![p] = Append(@, d)]
        /\ pc[p] = "compute" /\ round[p] < MaxRound
        /\ round' = [round EXCEPT ![p] = round[p] + 1]
        /\ pc' = [pc EXCEPT ![p] = "wait"] /\ ghost' = ghost
  <2>1. PICK changed \in SUBSET Own(p) : \E new \in [changed -> Choices[round[p] + 1]] :
          LET e == [v \in Vertex |-> IF v \in changed THEN new[v] ELSE data[v]]
          IN  /\ sent' = [sent EXCEPT ![p] = Append(@, [v \in Own(p) |-> e[v]])]
              /\ round' = [round EXCEPT ![p] = round[p] + 1]
    BY DEF Enter
  <2>2. PICK new \in [changed -> Choices[round[p] + 1]] :
          LET e == [v \in Vertex |-> IF v \in changed THEN new[v] ELSE data[v]]
          IN  /\ sent' = [sent EXCEPT ![p] = Append(@, [v \in Own(p) |-> e[v]])]
              /\ round' = [round EXCEPT ![p] = round[p] + 1]
    BY <2>1
  <2> DEFINE e == [v \in Vertex |-> IF v \in changed THEN new[v] ELSE data[v]]
  <2>3. round[p] + 1 \in 1..MaxRound
    BY RoundAssumption DEF Enter, IInv, TypeOK
  <2>4. Choices[round[p] + 1] \subseteq Value
    BY <2>3, RoundAssumption
  <2>5. e \in [Vertex -> Value]
    BY <2>2, <2>4 DEF IInv, TypeOK
  <2>6. [v \in Own(p) |-> e[v]] \in [Own(p) -> Value]
    BY <2>5 DEF Own, owned
  <2> QED BY <2>2, <2>6 DEF Enter
<1>2. /\ Len(sent[p]) = round[p] /\ round[p] \in Nat /\ sent[p] \in Seq([Own(p) -> Value])
      /\ DOMAIN sent = PE
  <2>1. round[p] \in Nat
    BY DEF IInv, TypeOK
  <2>2. Len(sent[p]) = round[p]
    BY DEF IInv, LogInv
  <2>3. sent[p] \in Seq([Own(p) -> Value]) /\ DOMAIN sent = PE
    BY DEF IInv, TypeOK
  <2> QED BY <2>1, <2>2, <2>3
<1>3. \A q \in PE : \A i \in 1..Len(sent[q]) : sent'[q][i] = sent[q][i]
  <2> SUFFICES ASSUME NEW q \in PE, NEW i \in 1..Len(sent[q]) PROVE sent'[q][i] = sent[q][i]
    OBVIOUS
  <2>1. CASE q = p
    BY <2>1, <1>1, <1>2
  <2>2. CASE q # p
    BY <2>2, <1>1, <1>2
  <2> QED BY <2>1, <2>2
<1>4. \A q \in PE : Completed(q)' = Completed(q)
  BY <1>1, <1>2 DEF Completed, IInv, TypeOK
<1>5. \A q \in PE : \A v \in Ghosts(q) : View'[q][v] = View[q][v]
  <2> SUFFICES ASSUME NEW q \in PE, NEW v \in Ghosts(q) PROVE View'[q][v] = View[q][v]
    OBVIOUS
  <2>1. /\ View[q][v] = IF Completed(q) = 0 THEN NoValue
                        ELSE IF pc[q] = "compute" THEN ghost[q][v]
                        ELSE sent[Owner[v]][Completed(q)][v]
        /\ View'[q][v] = IF Completed(q)' = 0 THEN NoValue
                        ELSE IF pc'[q] = "compute" THEN ghost'[q][v]
                        ELSE sent'[Owner[v]][Completed(q)'][v]
    BY DEF View
  <2>2. Completed(q) # 0 => sent'[Owner[v]][Completed(q)] = sent[Owner[v]][Completed(q)]
    <3> SUFFICES ASSUME Completed(q) # 0 PROVE Completed(q) \in 1..Len(sent[Owner[v]]) /\ Owner[v] \in PE
      BY <1>3
    <3>1. /\ Owner[v] \in PE /\ Completed(q) \in Nat /\ round[Owner[v]] \in Nat
          /\ Taken(q, Owner[v]) <= round[Owner[v]] /\ Taken(q, Owner[v]) >= Completed(q)
          /\ Len(sent[Owner[v]]) = round[Owner[v]]
      BY OwnersCaughtUp
    <3>2. Taken(q, Owner[v]) \in Int
      BY DEF Taken, IInv, TypeOK
    <3> QED BY <3>1, <3>2
  <2>3. CASE q # p
    BY <2>1, <2>2, <2>3, <1>1, <1>4 DEF IInv, TypeOK
  <2>4. CASE q = p
    <3>1. Completed(p) = round[p]
      BY <1>1 DEF Completed
    <3>2. Completed(p) # 0 => ghost[p][v] = sent[Owner[v]][round[p]][v]
      <4>1. await[p] = {}
        BY <1>1 DEF IInv, AwaitInv
      <4>2. Taken(p, Owner[v]) = round[p]
        BY <4>1 DEF Taken
      <4>3. v \in Ghosts(p) /\ Owner[v] \in Nbrs(p) /\ v \in Recv(p, Owner[v])
        BY <2>4, GhostSlices
      <4> QED BY <4>2, <4>3, <3>1, <1>2 DEF IInv, GhostInv
    <3> QED BY <2>1, <2>2, <2>4, <3>1, <3>2, <1>1, <1>4 DEF IInv, TypeOK
  <2> QED BY <2>3, <2>4
<1>6. View' = View
  BY <1>5 DEF View
<1>7. Inside' = [Inside EXCEPT ![p] = TRUE] /\ ~Inside[p]
  BY <1>1 DEF Inside, IInv, TypeOK
<1>8. d \in [{v \in Vertex : Owner[v] = p} -> Value]
  BY <1>1 DEF Own, owned
<1> QED BY <1>1, <1>2, <1>6, <1>7, <1>8 DEF Abstract!Publish

\* Taking a message is invisible: the PE is inside an exchange.
LEMMA RefinesReceive ==
  ASSUME IInv, NEW p \in PE, NEW q \in PE, Receive(p, q) PROVE UNCHANGED Abstract!avars
<1>1. /\ pc[p] = "wait" /\ pc' = pc /\ round' = round /\ sent' = sent
      /\ \A s \in PE : s # p => ghost'[s] = ghost[s]
  BY DEF Receive, IInv, TypeOK
<1>2. \A s \in PE : Completed(s)' = Completed(s)
  BY <1>1 DEF Completed
<1>3. \A s \in PE : \A v \in Ghosts(s) : View'[s][v] = View[s][v]
  BY <1>1, <1>2 DEF View
<1>4. View' = View
  BY <1>3 DEF View
<1> QED BY <1>1, <1>4 DEF Abstract!avars, Inside

\* Leaving refreshes every ghost.
LEMMA RefinesLeave == ASSUME IInv, NEW p \in PE, Leave(p) PROVE Abstract!Refresh(p)
<1>1. /\ pc[p] = "wait" /\ await[p] = {} /\ pc' = [pc EXCEPT ![p] = "compute"]
      /\ UNCHANGED <<data, ghost, round, sent>>
  BY DEF Leave, Ready
<1>2. round[p] \in Nat /\ round[p] > 0 /\ Len(sent[p]) = round[p]
  BY <1>1 DEF IInv, TypeOK, AwaitInv, LogInv
<1>3. \A v \in Ghosts(p) : Taken(p, Owner[v]) = round[p]
  BY <1>1 DEF Taken
<1>4. \A v \in Ghosts(p) : ghost[p][v] = sent[Owner[v]][round[p]][v]
  BY <1>2, <1>3, GhostSlices DEF IInv, GhostInv
<1>5. \A v \in Ghosts(p) : Len(sent[Owner[v]]) >= Len(sent[p])
  BY <1>2, <1>3, OwnersCaughtUp
<1>6. View' = [View EXCEPT ![p] =
                 [v \in Ghosts(p) |-> sent[Owner[v]][Len(sent[p])][v]]]
  <2>1. \A s \in PE : s # p => Completed(s)' = Completed(s)
    BY <1>1 DEF Completed, IInv, TypeOK
  <2>2. Completed(p)' = round[p] /\ pc'[p] = "compute"
    BY <1>1 DEF Completed, IInv, TypeOK
  <2>3. \A s \in PE : s # p => View'[s] = View[s]
    BY <2>1, <1>1 DEF View, IInv, TypeOK
  <2>4. View'[p] = [v \in Ghosts(p) |-> sent[Owner[v]][Len(sent[p])][v]]
    BY <2>2, <1>1, <1>2, <1>4 DEF View
  <2> QED BY <2>3, <2>4 DEF View
<1>7. Inside' = [Inside EXCEPT ![p] = FALSE] /\ Inside[p]
  BY <1>1 DEF Inside, IInv, TypeOK
<1> QED BY <1>1, <1>5, <1>6, <1>7 DEF Abstract!Refresh

\* The exchanges of comm.c, with their channels and their run-ahead, look to
\* every caller like the atomic exchange.
THEOREM Refinement == Spec => ImplementsAbstract
<1>1. IInv /\ [Next]_vars => [Abstract!ANext]_(Abstract!avars)
  <2> SUFFICES ASSUME IInv, [Next]_vars PROVE [Abstract!ANext]_(Abstract!avars)
    OBVIOUS
  <2>1. ASSUME NEW p \in PE, Enter(p) PROVE Abstract!ANext
    BY <2>1, RefinesEnter DEF Abstract!ANext
  <2>2. ASSUME NEW p \in PE, NEW q \in PE, Receive(p, q) PROVE UNCHANGED Abstract!avars
    BY <2>2, RefinesReceive
  <2>3. ASSUME NEW p \in PE, Leave(p) PROVE Abstract!ANext
    BY <2>3, RefinesLeave DEF Abstract!ANext
  <2>4. CASE UNCHANGED vars
    BY <2>4 DEF vars, Abstract!avars, View, Inside, Completed
  <2> QED BY <2>1, <2>2, <2>3, <2>4 DEF Next, Step
<1> QED BY <1>1, RefinesInit, Invariance, PTL DEF Spec, ImplementsAbstract, Abstract!ASpec
=============================================================================
