-------------------------- MODULE LiveStatusProofs --------------------------
(***************************************************************************)
(* Proofs about LiveStatus, for any number of slots, connections and any   *)
(* size of the buffers.                                                    *)
(***************************************************************************)
EXTENDS LiveStatus, TLAPS

\* A worker that is about to publish has a snapshot.
SnapInv == \A s \in Slots : pub[s] = "snapped" => snap[s] \in Snapshots

\* Connections that have a subscription are those whose handler streams, and
\* only a handler that has left closes its channel.
SubsInv == \A c \in subs : sse[c] = "streaming" /\ ~closed[c]

\* Publishing fills no channel beyond its capacity.
LEMMA PublishFits ==
    ASSUME TypeOK, SnapInv, NEW s \in Slots, Publish(s)
    PROVE  /\ queue' \in [Clients -> Seq(Snapshots)]
           /\ \A c \in Clients : Len(queue'[c]) <= Buffer
<1>1. snap[s] \in Snapshots
  BY DEF Publish, SnapInv
<1> SUFFICES ASSUME NEW c \in Clients
             PROVE  queue'[c] \in Seq(Snapshots) /\ Len(queue'[c]) <= Buffer
  BY DEF Publish
<1>2. CASE c \in subs /\ ~Full(c)
  BY <1>1, <1>2, BufferPositive DEF Publish, Full, TypeOK
<1>3. CASE ~(c \in subs /\ ~Full(c))
  BY <1>3 DEF Publish, TypeOK
<1> QED
  BY <1>2, <1>3

\* Every step of a worker, of a handler and of a browser keeps the types.
LEMMA TypeStep == TypeOK /\ SnapInv /\ [Next]_vars => TypeOK' /\ SnapInv'
<1> SUFFICES ASSUME TypeOK, SnapInv, [Next]_vars PROVE TypeOK' /\ SnapInv'
  OBVIOUS
<1> USE BufferPositive DEF TypeOK, SnapInv, hub, browser, history, Snapped
<1>1. CASE UNCHANGED vars
  BY <1>1 DEF vars
<1>2. ASSUME NEW s \in Slots, SetStatus(s) PROVE TypeOK' /\ SnapInv'
  <2>1. ASSUME NEW state \in States, Store(s, state)
        PROVE  TypeOK' /\ SnapInv'
    BY <2>1 DEF Store, Snapshots, States
  <2>2. CASE Status(s)
    BY <2>2 DEF Status
  <2>3. CASE Publish(s)
    <3>1. lagging' \in [Clients -> BOOLEAN]
      BY <2>3, Zenon DEF Publish, Full
    <3>2. outdated' \in BOOLEAN
      <4>1. outdated' = (s \in old)
        BY <2>3 DEF Publish
      <4>2. (s \in old) \in BOOLEAN
        OBVIOUS
      <4> QED
        BY <4>1, <4>2
    <3>3. old' \subseteq Slots
      BY <2>3 DEF Publish
    <3> QED
      BY <2>3, <3>1, <3>2, <3>3, PublishFits DEF Publish
  <2> QED
    BY <1>2, <2>1, <2>2, <2>3 DEF SetStatus
<1>3. ASSUME NEW c \in Clients, Handle(c) PROVE TypeOK' /\ SnapInv'
  <2>1. CASE Subscribe(c)
    BY <2>1 DEF Subscribe
  <2>2. CASE Receive(c)
    <3>1. /\ Head(queue[c]) \in Snapshots
          /\ Tail(queue[c]) \in Seq(Snapshots)
          /\ Len(Tail(queue[c])) <= Buffer
      BY <2>2 DEF Receive
    <3> QED
      BY <2>2, <3>1 DEF Receive
  <2>3. CASE Disconnect(c)
    BY <2>3 DEF Disconnect
  <2>4. CASE Leave(c)
    BY <2>4 DEF Leave
  <2>5. CASE CloseChannel(c)
    BY <2>5 DEF CloseChannel
  <2> QED
    BY <1>3, <2>1, <2>2, <2>3, <2>4, <2>5 DEF Handle
<1> QED
  BY <1>1, <1>2, <1>3 DEF Next

\* A channel in the map of the hub is open, in whatever order the browsers
\* come and go and the workers publish.
LEMMA SubsStep == TypeOK /\ SubsInv /\ [Next]_vars => SubsInv'
<1> SUFFICES ASSUME TypeOK, SubsInv, [Next]_vars PROVE SubsInv'
  OBVIOUS
<1> USE DEF TypeOK, SubsInv, hub, browser, history
<1>1. CASE UNCHANGED vars
  BY <1>1 DEF vars
<1>2. ASSUME NEW s \in Slots, SetStatus(s) PROVE SubsInv'
  BY <1>2 DEF SetStatus, Store, Status, Publish
<1>3. ASSUME NEW c \in Clients, Handle(c) PROVE SubsInv'
  <2>1. CASE Subscribe(c)
    BY <2>1 DEF Subscribe
  <2>2. CASE Receive(c) \/ Disconnect(c)
    BY <2>2 DEF Receive, Disconnect
  <2>3. CASE Leave(c)
    BY <2>3 DEF Leave
  <2>4. CASE CloseChannel(c)
    BY <2>4 DEF CloseChannel
  <2> QED
    BY <1>3, <2>1, <2>2, <2>3, <2>4 DEF Handle
<1> QED
  BY <1>1, <1>2, <1>3 DEF Next

\* A snapshot no change has overtaken is the state of the slots.  What a
\* subscriber has of a slot that is not about to publish is true, as long as it
\* has the last snapshot and that was not an old one.
TruthInv ==
    /\ \A s \in Slots : pub[s] = "snapped" /\ s \notin old =>
          snap[s] = statuses
    /\ ~outdated => \A c \in subs : ~lagging[c] /\ Newest(c) # None =>
          \A s \in Slots : pub[s] = "rest" => Newest(c)[s] = statuses[s]

\* What a subscriber has to read last is what was appended last.
LEMMA NewestOf ==
    ASSUME TypeOK, NEW c \in Clients
    PROVE  /\ Newest(c) \in Snapshots \cup {None}
           /\ queue[c] # <<>> =>
                 LET q == Tail(queue[c])
                 IN  Newest(c) = IF q = <<>> THEN Head(queue[c])
                                             ELSE q[Len(q)]
           /\ \A x \in Snapshots :
                 LET q == Append(queue[c], x) IN q # <<>> /\ q[Len(q)] = x
<1>1. queue[c] \in Seq(Snapshots) /\ view[c] \in Snapshots \cup {None}
  BY DEF TypeOK
<1> DEFINE q == queue[c]
<1> HIDE DEF q
<1>2. q \in Seq(Snapshots) /\ Len(q) \in Nat
  BY <1>1 DEF q
<1>3. ASSUME q # <<>>
      PROVE  /\ q[Len(q)] \in Snapshots
             /\ q[Len(q)] = IF Tail(q) = <<>> THEN Head(q)
                                              ELSE Tail(q)[Len(Tail(q))]
  <2>1. Len(q) >= 1
    BY <1>2, <1>3
  <2>2. /\ q[Len(q)] \in Snapshots /\ Len(Tail(q)) = Len(q) - 1
        /\ Tail(q) \in Seq(Snapshots) /\ Head(q) = q[1]
    BY <1>2, <1>3, <2>1
  <2>3. CASE Len(q) = 1
    <3>1. \A x \in Seq(Snapshots) : Len(x) = 0 => x = <<>>
      OBVIOUS
    <3>2. Tail(q) = <<>>
      <4>1. Len(Tail(q)) = 0 /\ Tail(q) \in Seq(Snapshots)
        BY <2>2, <2>3
      <4> QED
        BY <3>1, <4>1, Zenon
    <3> QED
      BY <2>2, <2>3, <3>2
  <2>4. CASE Len(q) > 1
    <3>1. \A k \in 1 .. Len(q) - 1 : Tail(q)[k] = q[k + 1]
      BY <1>2, <1>3, <2>1
    <3>2. Tail(q)[Len(q) - 1] = q[Len(q)]
      BY <1>2, <2>4, <3>1
    <3>3. Tail(q) # <<>>
      <4>1. Len(<<>>) = 0 /\ Len(Tail(q)) # 0
        BY <1>2, <2>2, <2>4
      <4> QED
        BY <4>1
    <3> QED
      BY <2>2, <3>2, <3>3
  <2> QED
    BY <2>1, <2>2, <2>3, <2>4, <1>2
<1>4. \A x \in Snapshots :
         Append(q, x) # <<>> /\ Append(q, x)[Len(Append(q, x))] = x
  BY <1>2
<1> QED
  BY <1>1, <1>3, <1>4 DEF Newest, q

LEMMA PublishTells ==
    ASSUME TypeOK, SnapInv, TruthInv, NEW s \in Slots, Publish(s)
    PROVE  TruthInv'
<1>1. \A t \in Slots : pub'[t] = "snapped" /\ t \notin old' =>
         snap'[t] = statuses'
  BY DEF TypeOK, TruthInv, Publish
<1>2. SUFFICES ASSUME ~outdated', NEW c \in subs, ~lagging'[c]
               PROVE  Newest(c)' = statuses
  BY <1>1 DEF Publish, TruthInv
<1>3. c \in Clients /\ ~Full(c)
  BY <1>2, Zenon DEF Publish, TypeOK
<1>4. snap[s] = statuses /\ snap[s] \in Snapshots
  BY <1>2 DEF Publish, TruthInv, SnapInv
<1>5. queue'[c] = Append(queue[c], snap[s])
  BY <1>2, <1>3 DEF Publish
<1> QED
  BY <1>3, <1>4, <1>5, NewestOf DEF Newest

LEMMA TruthStep ==
    TypeOK /\ SnapInv /\ TruthInv /\ [Next]_vars => TruthInv'
<1> SUFFICES ASSUME TypeOK, SnapInv, TruthInv, [Next]_vars PROVE TruthInv'
  OBVIOUS
<1> USE DEF hub, browser, history
<1>1. CASE UNCHANGED vars
  BY <1>1 DEF vars, TruthInv, Newest
<1>2. ASSUME NEW s \in Slots, SetStatus(s) PROVE TruthInv'
  <2>1. ASSUME NEW state \in States, Store(s, state) PROVE TruthInv'
    BY <2>1 DEF Store, TypeOK, Snapshots, Snapped, TruthInv, Newest
  <2>2. CASE Status(s)
    BY <2>2 DEF Status, TypeOK, TruthInv, Newest
  <2> QED
    BY <1>2, <2>1, <2>2, PublishTells DEF SetStatus
<1>3. ASSUME NEW c \in Clients, Handle(c) PROVE TruthInv'
  <2>1. CASE Subscribe(c)
    BY <2>1 DEF Subscribe, TypeOK, TruthInv, Newest
  <2>2. CASE Receive(c)
    <3>1. \A d \in Clients : Newest(d)' = Newest(d)
      <4>1. ASSUME NEW d \in Clients, d # c PROVE Newest(d)' = Newest(d)
        BY <2>2, <4>1 DEF Receive, TypeOK, Newest
      <4>2. queue'[c] = Tail(queue[c]) /\ view'[c] = Head(queue[c])
        BY <2>2 DEF Receive, TypeOK
      <4>3. Newest(c)' = Newest(c)
        BY <2>2, <4>2, NewestOf DEF Receive, Newest
      <4> QED
        BY <4>1, <4>3
    <3>2. UNCHANGED <<statuses, pub, snap, subs, lagging, old, outdated>>
      BY <2>2 DEF Receive
    <3> QED
      BY <3>1, <3>2 DEF TruthInv, TypeOK
  <2>3. CASE Disconnect(c) \/ Leave(c) \/ CloseChannel(c)
    BY <2>3 DEF Disconnect, Leave, CloseChannel, TruthInv, Newest
  <2> QED
    BY <1>3, <2>1, <2>2, <2>3 DEF Handle
<1> QED
  BY <1>1, <1>2, <1>3 DEF Next

\* Before the first connection there is nothing to publish and nobody to
\* publish to.
LEMMA InitialState == Init => TypeOK /\ SnapInv /\ SubsInv /\ TruthInv
<1> SUFFICES ASSUME Init PROVE TypeOK /\ SnapInv /\ SubsInv /\ TruthInv
  OBVIOUS
<1>1. TypeOK
  <2>1. <<>> \in Seq(Snapshots) /\ Len(<<>>) <= Buffer
    BY BufferPositive
  <2>2. /\ statuses \in Snapshots
        /\ pub \in [Slots -> {"rest", "stored", "snapped"}]
        /\ snap \in [Slots -> Snapshots \cup {None}]
    BY DEF Init, Snapshots
  <2>3. /\ queue \in [Clients -> Seq(Snapshots)]
        /\ \A c \in Clients : Len(queue[c]) <= Buffer
    BY <2>1 DEF Init
  <2>4. /\ subs \subseteq Clients /\ closed \in [Clients -> BOOLEAN]
        /\ sse \in [Clients -> {"away", "streaming", "leaving"}]
        /\ gone \in [Clients -> BOOLEAN]
        /\ view \in [Clients -> Snapshots \cup {None}]
        /\ lagging \in [Clients -> BOOLEAN]
        /\ old \subseteq Slots /\ outdated \in BOOLEAN
    BY DEF Init
  <2> QED
    BY <2>2, <2>3, <2>4 DEF TypeOK
<1>2. SnapInv /\ SubsInv /\ TruthInv
  BY DEF Init, SnapInv, SubsInv, TruthInv
<1> QED
  BY <1>1, <1>2

\* Every reachable state is well typed: whatever the browsers do, no channel
\* holds more than its capacity.
THEOREM TypeCorrect == Spec => []TypeOK
BY InitialState, TypeStep, PTL DEF Spec

\* Publish never sends on a closed channel, however many browsers come and go
\* while however many workers publish.
THEOREM NoPanic == Spec => []NeverSendsOnClosed
<1>1. SubsInv => NeverSendsOnClosed
  BY DEF SubsInv, NeverSendsOnClosed
<1> QED
  BY <1>1, InitialState, TypeStep, SubsStep, PTL DEF Spec

\* A browser that has received the last event ends up showing the truth,
\* whatever the number of slots and browsers and the size of the buffers;
\* publications that overtake each other are the only way to another end.
THEOREM TruthIsShown == Spec => []ShowsTheTruth
<1>1. TypeOK /\ TruthInv => ShowsTheTruth
  <2> SUFFICES ASSUME TypeOK, TruthInv, NEW c \in subs,
                      \A s \in Slots : pub[s] = "rest",
                      ~outdated, ~lagging[c], Newest(c) # None
               PROVE  Newest(c) = statuses
    BY DEF ShowsTheTruth
  <2>1. Newest(c) \in Snapshots /\ statuses \in Snapshots
    BY NewestOf DEF TypeOK
  <2>2. \A s \in Slots : Newest(c)[s] = statuses[s]
    BY DEF TruthInv
  <2> QED
    BY <2>1, <2>2 DEF Snapshots
<1> QED
  BY <1>1, InitialState, TypeStep, TruthStep, PTL DEF Spec

=============================================================================
