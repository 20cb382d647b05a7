--------------------------- MODULE DetectorProofs ---------------------------
(***************************************************************************)
(* Proofs about Detector, for any number of slots and cards and whatever   *)
(* serials the enumerator reads, and about the simulated reader of Readers, *)
(* for any number of callers and any size of its buffer.                   *)
(***************************************************************************)
EXTENDS Readers, TLAPS

\* An event under way is the only one of its kind for its slot.
OneEach ==
    /\ \A ev \in removals : ev = [slot |-> ev.slot, card |-> told[ev.slot]]
    /\ \A ev \in insertions : ev = [slot |-> ev.slot, card |-> present[ev.slot]]

IInv == TypeOK /\ TracksLast /\ InFlight /\ OneEach

\* Before the first tick there is nothing to report.
LEMMA IInvInit == Init => IInv
BY DEF Init, IInv, TypeOK, Devices, TracksLast, InFlight, OneEach

\* What one reconcile does to a slot, as the cases of its two loops.
LEMMA ReconcileSlot ==
    ASSUME TypeOK, NEW snap \in Devices, Reconcile(snap), NEW s \in Slots
    PROVE  /\ Known(s, snap) => present'[s] = present[s] /\ pending'[s] = None
           /\ Confirmed(s, snap) => present'[s] = snap[s] /\ pending'[s] = None
           /\ ~Known(s, snap) /\ ~Confirmed(s, snap) =>
                 present'[s] = None /\ pending'[s] = snap[s]
           /\ \A ev \in removals' : ev.slot = s =>
                 Gone(s, snap) /\ ev = [slot |-> s, card |-> present[s]]
           /\ \A ev \in insertions' : ev.slot = s =>
                 Confirmed(s, snap) /\ ev = [slot |-> s, card |-> snap[s]]
           /\ Gone(s, snap) => [slot |-> s, card |-> present[s]] \in removals'
           /\ Confirmed(s, snap) =>
                 [slot |-> s, card |-> snap[s]] \in insertions'
<1>1. Confirmed(s, snap) => ~Known(s, snap)
  BY DEF Confirmed
<1>2. removals' = {[slot |-> t, card |-> present[t]] :
                      t \in {u \in Slots : Gone(u, snap)}}
  BY DEF Reconcile
<1>3. insertions' = {[slot |-> t, card |-> snap[t]] :
                        t \in {u \in Slots : Confirmed(u, snap)}}
  BY DEF Reconcile
<1>4. present'[s] = CASE Known(s, snap)     -> present[s]
                      [] Confirmed(s, snap) -> snap[s]
                      [] OTHER              -> None
  BY DEF Reconcile
<1>5. pending'[s] =
         IF Known(s, snap) \/ Confirmed(s, snap) THEN None ELSE snap[s]
  BY DEF Reconcile
<1> HIDE DEF Known, Confirmed, Gone
<1>6. /\ \A ev \in removals' : ev.slot = s =>
            Gone(s, snap) /\ ev = [slot |-> s, card |-> present[s]]
      /\ Gone(s, snap) => [slot |-> s, card |-> present[s]] \in removals'
  BY <1>2
<1>7. /\ \A ev \in insertions' : ev.slot = s =>
            Confirmed(s, snap) /\ ev = [slot |-> s, card |-> snap[s]]
      /\ Confirmed(s, snap) => [slot |-> s, card |-> snap[s]] \in insertions'
  BY <1>3
<1> QED
  BY <1>1, <1>4, <1>5, <1>6, <1>7

\* A tick keeps the types, and the events it makes are about devices.
LEMMA TickType ==
    ASSUME TypeOK, NEW snap \in Devices, Tick(snap) PROVE TypeOK'
<1>1. \A s \in Slots : Gone(s, snap) => present[s] \in Cards
  BY DEF Gone, TypeOK, Devices
<1>2. \A s \in Slots : Confirmed(s, snap) => snap[s] \in Cards
  BY DEF Confirmed, Devices
<1>3. removals' \subseteq Event /\ insertions' \subseteq Event
  BY <1>1, <1>2 DEF Tick, Reconcile, Event
<1>4. present' \in Devices /\ pending' \in Devices
  <2>1. present' = [s \in Slots |-> present'[s]]
        /\ pending' = [s \in Slots |-> pending'[s]]
    BY DEF Tick, Reconcile
  <2>2. ASSUME NEW s \in Slots
        PROVE  /\ present'[s] \in Cards \cup {None}
               /\ pending'[s] \in Cards \cup {None}
    BY ReconcileSlot DEF Tick, TypeOK, Devices
  <2> QED
    BY <2>1, <2>2 DEF Devices
<1> QED
  BY <1>3, <1>4 DEF Tick, TypeOK

\* A tick comes when everything has been handed over: what it reports is what
\* the orchestrator has to learn, and never two things about one slot.
LEMMA TickStep ==
    ASSUME IInv, NEW snap \in Devices, Tick(snap) PROVE IInv'
<1>1. TypeOK'
  BY TickType DEF IInv
<1>2. \A s \in Slots : told[s] = present[s]
  BY DEF IInv, InFlight, Tick
<1>3. TracksLast'
  <2>1. last' = snap /\ Reconcile(snap) /\ TypeOK
    BY DEF Tick, IInv
  <2> SUFFICES ASSUME NEW s \in Slots
               PROVE  /\ present'[s] = None \/ pending'[s] = None
                      /\ snap[s] = None <=>
                            present'[s] = None /\ pending'[s] = None
                      /\ snap[s] # None =>
                            \E d \in {present'[s], pending'[s]} \ {None} :
                                SameSerial(s, d, snap[s])
    BY <2>1 DEF TracksLast, SameSerial
  <2>2. CASE Known(s, snap)
    BY <2>1, <2>2, ReconcileSlot DEF Known, Gone, SameSerial
  <2>3. CASE Confirmed(s, snap)
    <3>1. present'[s] = snap[s] /\ pending'[s] = None
      BY <2>1, <2>3, ReconcileSlot
    <3> QED
      BY <2>3, <3>1 DEF Confirmed, SameSerial
  <2>4. CASE ~Known(s, snap) /\ ~Confirmed(s, snap)
    BY <2>1, <2>4, ReconcileSlot DEF SameSerial
  <2> QED
    BY <2>2, <2>3, <2>4
<1>4. ASSUME NEW s \in Slots
      PROVE  LET gone == \E ev \in removals' : ev.slot = s
                 new == \E ev \in insertions' : ev.slot = s
             IN  /\ new => /\ ~gone /\ told'[s] = None
                           /\ [slot |-> s, card |-> present'[s]] \in insertions'
                 /\ gone => /\ present'[s] = None
                            /\ [slot |-> s, card |-> told'[s]] \in removals'
                 /\ ~new /\ ~gone => told'[s] = present'[s]
  <2>1. Confirmed(s, snap) => present[s] = None /\ ~Gone(s, snap)
    BY DEF Confirmed, Gone, IInv, TracksLast
  <2>2. Known(s, snap) \/ Gone(s, snap) \/ present[s] = None
    BY DEF Known
  <2>3. Gone(s, snap) => ~Known(s, snap)
    BY DEF Known
  <2>4. told' = told
    BY DEF Tick
  <2>5. Reconcile(snap) /\ TypeOK
    BY DEF Tick, IInv
  <2> QED
    BY <1>2, <2>1, <2>2, <2>3, <2>4, <2>5, ReconcileSlot
<1>5. OneEach'
  <2>1. Reconcile(snap) /\ TypeOK /\ told' = told
    BY DEF Tick, IInv
  <2>2. ASSUME NEW ev \in removals'
        PROVE  ev = [slot |-> ev.slot, card |-> told'[ev.slot]]
    BY <1>1, <1>2, <2>1, <2>2, ReconcileSlot DEF TypeOK, Event
  <2>3. ASSUME NEW ev \in insertions'
        PROVE  ev = [slot |-> ev.slot, card |-> present'[ev.slot]]
    <3>1. ev.slot \in Slots
      BY <1>1, <2>3 DEF TypeOK, Event
    <3>2. /\ Confirmed(ev.slot, snap)
          /\ ev = [slot |-> ev.slot, card |-> snap[ev.slot]]
      BY <2>1, <2>3, <3>1, ReconcileSlot
    <3>3. present'[ev.slot] = snap[ev.slot]
      BY <2>1, <3>1, <3>2, ReconcileSlot
    <3> QED
      BY <3>2, <3>3
  <2> QED
    BY <2>2, <2>3 DEF OneEach
<1> QED
  BY <1>1, <1>3, <1>4, <1>5 DEF IInv, InFlight

\* Every step keeps it.
LEMMA IInvStep == IInv /\ [Next]_vars => IInv'
<1> SUFFICES ASSUME IInv, [Next]_vars PROVE IInv'
  OBVIOUS
<1> USE DEF IInv, TypeOK, TracksLast, SameSerial, InFlight, OneEach
<1>1. CASE UNCHANGED vars
  BY <1>1 DEF vars
<1>2. CASE Move
  BY <1>2 DEF Move, Pull, Insert, Devices
<1>3. CASE Poll
  BY <1>3, TickStep DEF Poll, Snapshots
<1>4. ASSUME NEW s \in Slots, SendRemoved(s) PROVE IInv'
  <2>1. PICK ev \in removals : ev.slot = s /\ removals' = removals \ {ev}
    BY <1>4 DEF SendRemoved
  <2> QED
    BY <1>4, <2>1 DEF SendRemoved, Event, Devices
<1>5. ASSUME NEW s \in Slots, NEW c \in Cards, SendInserted(s, c) PROVE IInv'
  BY <1>5 DEF SendInserted, Event, Devices
<1>6. CASE Close
  BY <1>6 DEF Close
<1> QED
  BY <1>1, <1>2, <1>3, <1>4, <1>5, <1>6 DEF Next, Send

\* Types, for every instance.
THEOREM TypeCorrect == Spec => []TypeOK
<1>1. IInv => TypeOK
  BY DEF IInv
<1> QED
  BY <1>1, IInvInit, IInvStep, PTL DEF Spec

\* What the orchestrator knows and what is on its way to it add up to what the
\* tracker believes, with never two events of one slot under way.
THEOREM NothingOutOfStep == Spec => []InFlight
<1>1. IInv => InFlight
  BY DEF IInv
<1> QED
  BY <1>1, IInvInit, IInvStep, PTL DEF Spec

\* What the detector sends is always the other kind of event than before.
LEMMA RealTells == IInv /\ [Next]_vars => [Feed!Next]_told
<1> SUFFICES ASSUME IInv, [Next]_vars PROVE [Feed!Next]_told
  OBVIOUS
<1>1. ASSUME NEW s \in Slots, SendRemoved(s) PROVE Feed!Next
  <2>1. PICK ev \in removals : ev.slot = s
    BY <1>1 DEF SendRemoved
  <2>2. ev.card \in Cards /\ ev.card = told[s]
    BY <2>1 DEF IInv, TypeOK, Event, OneEach
  <2>3. told[s] # None
    BY <2>2, SerialTyped
  <2> QED
    BY <1>1, <2>3 DEF SendRemoved, Feed!Next, Feed!ReportRemoved
<1>2. ASSUME NEW s \in Slots, NEW c \in Cards, SendInserted(s, c)
      PROVE  Feed!Next
  BY <1>2 DEF SendInserted, IInv, InFlight, Feed!Next, Feed!ReportInserted
<1>3. CASE UNCHANGED told
  BY <1>3
<1> QED
  BY <1>1, <1>2, <1>3 DEF Next, vars, Move, Insert, Pull, Poll, Tick, Send,
     Close

\* The detector implements CardFeed: in every slot insertions and removals
\* are reported in turn, also when cards are swapped or missed by a poll, and
\* whatever serials the enumerator reads.
THEOREM ImplementsCardFeed == Spec => Alternates
<1>1. Init => Feed!Init
  BY DEF Init, Feed!Init
<1> QED
  BY <1>1, RealTells, IInvInit, IInvStep, PTL
     DEF Spec, Alternates, Feed!Spec

\* Only what two consecutive snapshots saw is ever reported inserted.
THEOREM OnlyDebounced == Spec => Debounced
<1> DEFINE Sighted ==
      \A ev \in insertions' \ insertions :
          /\ last[ev.slot] # None
          /\ last'[ev.slot] = ev.card
          /\ SameSerial(ev.slot, last[ev.slot], ev.card)
<1>1. IInv /\ [Next]_vars => [Sighted]_vars
  <2> SUFFICES ASSUME IInv, Next, NEW ev \in insertions' \ insertions
               PROVE  /\ last[ev.slot] # None
                      /\ last'[ev.slot] = ev.card
                      /\ SameSerial(ev.slot, last[ev.slot], ev.card)
    OBVIOUS
  <2>1. PICK snap \in Devices : Tick(snap)
    BY DEF Next, Move, Insert, Pull, Poll, Snapshots, Send, SendRemoved,
       SendInserted, Close
  <2>2. ev.slot \in Slots
    BY <2>1, TickType DEF IInv, TypeOK, Event
  <2>3. /\ Confirmed(ev.slot, snap)
        /\ ev = [slot |-> ev.slot, card |-> snap[ev.slot]]
    BY <2>1, <2>2, ReconcileSlot DEF Tick, IInv
  <2>4. ev.card = snap[ev.slot] /\ last' = snap
    BY <2>1, <2>3 DEF Tick
  <2>5. /\ pending[ev.slot] # None
        /\ SameSerial(ev.slot, snap[ev.slot], pending[ev.slot])
    BY <2>3 DEF Confirmed
  <2>6. /\ last[ev.slot] # None
        /\ SameSerial(ev.slot, pending[ev.slot], last[ev.slot])
    BY <2>2, <2>5 DEF IInv, TracksLast
  <2> QED
    BY <2>4, <2>5, <2>6 DEF SameSerial
<1> QED
  BY <1>1, IInvInit, IInvStep, PTL DEF Spec, Debounced

\* Nothing seen is forgotten and nothing is kept that was not seen.
THEOREM NothingForgotten == Spec => []TracksLast
<1>1. IInv => TracksLast
  BY DEF IInv
<1> QED
  BY <1>1, IInvInit, IInvStep, PTL DEF Spec

\* What Settles rests on: wherever a slot stands in the debounce, a tick that
\* sees what the tick before saw decides it.  A slot both found empty is not
\* reported any longer; in a slot where both found a card, one with that
\* card's serial is reported.
THEOREM AgreeingPollsDecide ==
    Spec => [][\A snap \in Devices : Tick(snap) =>
                 \A s \in Slots : snap[s] = last[s] =>
                   /\ snap[s] = None <=> present'[s] = None
                   /\ \/ snap[s] = None
                      \/ SameSerial(s, present'[s], snap[s])]_vars
<1> DEFINE Decides ==
      \A snap \in Devices : Tick(snap) =>
         \A s \in Slots : snap[s] = last[s] =>
            /\ snap[s] = None <=> present'[s] = None
            /\ \/ snap[s] = None
               \/ SameSerial(s, present'[s], snap[s])
<1>1. IInv => Decides
  <2> SUFFICES ASSUME IInv, NEW snap \in Devices, Tick(snap), NEW s \in Slots,
                      snap[s] = last[s]
               PROVE  /\ snap[s] = None <=> present'[s] = None
                      /\ snap[s] # None => SameSerial(s, present'[s], snap[s])
    OBVIOUS
  <2>1. /\ TypeOK /\ Reconcile(snap)
        /\ present[s] = None \/ pending[s] = None
        /\ snap[s] = None <=> present[s] = None /\ pending[s] = None
        /\ snap[s] # None => \E d \in {present[s], pending[s]} \ {None} :
                                 SameSerial(s, d, snap[s])
    BY DEF IInv, TracksLast, Tick
  <2>2. CASE Known(s, snap)
    BY <2>1, <2>2, ReconcileSlot DEF Known, Gone, SameSerial
  <2>3. CASE Confirmed(s, snap)
    <3>1. present'[s] = snap[s]
      BY <2>1, <2>3, ReconcileSlot
    <3> QED
      BY <2>3, <3>1 DEF Confirmed, SameSerial
  <2>4. CASE ~Known(s, snap) /\ ~Confirmed(s, snap)
    <3>1. snap[s] = None
      BY <2>1, <2>4 DEF Known, Gone, Confirmed, SameSerial
    <3> QED
      BY <2>1, <2>4, <3>1, ReconcileSlot
  <2> QED
    BY <2>2, <2>3, <2>4
<1> QED
  BY <1>1, IInvInit, IInvStep, PTL DEF Spec

-----------------------------------------------------------------------------
(* The simulated reader, and any number of callers.  Between what the      *)
(* orchestrator knows and what has been sent stand the event the relay     *)
(* holds and those in the buffer: views are what a reader of these would   *)
(* know, one after the other.                                              *)

Views == [Slots -> Directories \cup {None}]

Effect(ev) == IF ev.type = "inserted" THEN ev.card ELSE None

After(view, held) ==
    IF held = None THEN view ELSE [view EXCEPT ![held.slot] = Effect(held)]

Chain(v) ==
    /\ v \in [1 .. Len(buffer) + 1 -> Views]
    /\ v[1] = After(heard, relay)
    /\ \A i \in 1 .. Len(buffer) : v[i + 1] = After(v[i], buffer[i])

\* What the last of these views has of a slot whose last change has been sent.
Current(view) ==
    \A s \in Slots \ overtaken : latest[s] = None => view[s] = simulated[s]

SimTyped ==
    /\ simulated \in Views /\ heard \in Views
    /\ sending \in [Calls -> Sim!Event \cup {None}]
    /\ buffer \in Seq(Sim!Event)
    /\ relay \in Sim!Event \cup {None}
    /\ latest \in [Slots -> Calls \cup {None}]
    /\ overtaken \subseteq Slots

\* The call that last changed a slot, until it has sent, has the event of that
\* change still to send.
LatestInv ==
    \A s \in Slots : latest[s] # None =>
        /\ sending[latest[s]] # None
        /\ sending[latest[s]].slot = s
        /\ Effect(sending[latest[s]]) = simulated[s]

SimInv ==
    /\ SimTyped
    /\ LatestInv
    /\ watching => \E v : Chain(v) /\ Current(v[Len(buffer) + 1])

LEMMA AfterTyped ==
    ASSUME NEW view \in Views, NEW ev \in Sim!Event \cup {None}
    PROVE  After(view, ev) \in Views
BY DEF After, Effect, Views, Sim!Event

LEMMA SimInit == Sim!Init => SimInv
<1> SUFFICES ASSUME Sim!Init PROVE SimInv
  OBVIOUS
<1>1. SimTyped /\ LatestInv
  BY DEF Sim!Init, SimTyped, LatestInv, Views
<1>2. Chain([i \in 1 .. 1 |-> heard])
  <2>1. Len(buffer) = 0 /\ relay = None
    BY DEF Sim!Init
  <2> QED
    BY <1>1, <2>1 DEF Chain, After, SimTyped
<1>3. Len(buffer) = 0 /\ Current(heard)
  BY DEF Sim!Init, Current
<1> QED
  BY <1>1, <1>2, <1>3 DEF SimInv

\* A change and its event are one: the call that made it is the latest.
LEMMA CallStep ==
    ASSUME SimInv, NEW a \in Calls, Sim!Call(a) PROVE SimInv'
<1>1. PICK s \in Slots, ev \in Sim!Event :
          /\ ev.slot = s
          /\ sending[a] = None
          /\ simulated' = [simulated EXCEPT ![s] = Effect(ev)]
          /\ sending' = [sending EXCEPT ![a] = ev]
          /\ latest' = [latest EXCEPT ![s] = a]
          /\ UNCHANGED <<buffer, relay, heard, watching, overtaken>>
  <2> DEFINE Made(s, ev) ==
        /\ ev.slot = s
        /\ sending[a] = None
        /\ simulated' = [simulated EXCEPT ![s] = Effect(ev)]
        /\ sending' = [sending EXCEPT ![a] = ev]
        /\ latest' = [latest EXCEPT ![s] = a]
        /\ UNCHANGED <<buffer, relay, heard, watching, overtaken>>
  <2>1. ASSUME NEW s \in Slots, Sim!Remove(a, s)
        PROVE  \E ev \in Sim!Event : Made(s, ev)
    <3> DEFINE ev == [type |-> "removed", slot |-> s, card |-> simulated[s]]
    <3>1. ev \in Sim!Event /\ ev.slot = s /\ Effect(ev) = None
      BY <2>1 DEF Sim!Remove, Sim!Event, SimInv, SimTyped, Views, Effect
    <3>2. Made(s, ev)
      BY <2>1, <3>1 DEF Sim!Remove
    <3> QED
      BY <3>1, <3>2
  <2>2. ASSUME NEW s \in Slots, NEW c \in Directories, Sim!Insert(a, s, c)
        PROVE  \E ev \in Sim!Event : Made(s, ev)
    <3> DEFINE ev == [type |-> "inserted", slot |-> s, card |-> c]
    <3>1. ev \in Sim!Event /\ ev.slot = s /\ Effect(ev) = c
      BY DEF Sim!Event, Effect
    <3>2. Made(s, ev)
      BY <2>2, <3>1 DEF Sim!Insert
    <3> QED
      BY <3>1, <3>2
  <2> QED
    BY <2>1, <2>2 DEF Sim!Call
<1>2. ev # None /\ a # None /\ Effect(ev) \in Directories \cup {None}
  BY NoneIsNoEvent, NoneIsNoCall DEF Effect, Sim!Event
<1>3. SimTyped'
  BY <1>1, <1>2 DEF SimInv, SimTyped, Views
<1>4. LatestInv'
  <2> SUFFICES ASSUME NEW t \in Slots, latest'[t] # None
               PROVE  /\ sending'[latest'[t]] # None
                      /\ sending'[latest'[t]].slot = t
                      /\ Effect(sending'[latest'[t]]) = simulated'[t]
    BY DEF LatestInv, Effect
  <2>1. CASE t = s
    BY <1>1, <1>2, <2>1 DEF SimInv, SimTyped, Views
  <2>2. CASE t # s
    <3>1. latest'[t] = latest[t] /\ latest[t] # a
      BY <1>1, <2>2 DEF SimInv, SimTyped, LatestInv
    <3> QED
      BY <1>1, <2>2, <3>1 DEF SimInv, SimTyped, LatestInv, Views
  <2> QED
    BY <2>1, <2>2
<1>5. ASSUME NEW v, Chain(v), Current(v[Len(buffer) + 1])
      PROVE  Chain(v)' /\ Current(v[Len(buffer) + 1])'
  <2>1. Chain(v)'
    BY <1>1, <1>5 DEF Chain
  <2>2. Current(v[Len(buffer) + 1])'
    BY <1>1, <1>2, <1>5 DEF Current, SimInv, SimTyped, Views
  <2> QED
    BY <2>1, <2>2
<1> QED
  BY <1>1, <1>3, <1>4, <1>5 DEF SimInv

\* What is sent is current if it is of the last change; otherwise the slot has
\* been overtaken.
LEMMA SendStep ==
    ASSUME SimInv, NEW a \in Calls, Sim!Send(a) PROVE SimInv'
<1> DEFINE ev == sending[a]
           s == ev.slot
<1>1. /\ ev \in Sim!Event /\ s \in Slots /\ ev # None
      /\ buffer' = Append(buffer, ev)
      /\ sending' = [sending EXCEPT ![a] = None]
      /\ UNCHANGED <<simulated, relay, heard, watching>>
  BY DEF Sim!Send, SimInv, SimTyped, Sim!Event
<1>2. \/ /\ latest[s] = a
         /\ latest' = [latest EXCEPT ![s] = None]
         /\ overtaken' = overtaken \ {s}
      \/ /\ latest[s] # a
         /\ latest' = latest
         /\ overtaken' = overtaken \cup {s}
  BY DEF Sim!Send, Sim!Overtake
<1> HIDE DEF ev, s
<1>3. SimTyped'
  BY <1>1, <1>2 DEF SimInv, SimTyped
<1>4. ASSUME NEW t \in Slots, t # s
      PROVE  latest[t] # a /\ latest'[t] = latest[t]
  <2>1. latest[t] # a
    BY <1>4, NoneIsNoCall DEF SimInv, LatestInv, s, ev
  <2> QED
    BY <1>2, <1>4, <2>1 DEF SimInv, SimTyped
<1>5. LatestInv'
  <2> SUFFICES ASSUME NEW t \in Slots, latest'[t] # None
               PROVE  /\ sending'[latest'[t]] # None
                      /\ sending'[latest'[t]].slot = t
                      /\ Effect(sending'[latest'[t]]) = simulated'[t]
    BY DEF LatestInv, Effect
  <2>1. latest'[t] = latest[t] /\ latest[t] # a /\ latest[t] \in Calls
    BY <1>1, <1>2, <1>4 DEF SimInv, SimTyped
  <2> QED
    BY <1>1, <2>1 DEF SimInv, SimTyped, LatestInv
<1>6. ASSUME NEW v, Chain(v), Current(v[Len(buffer) + 1])
      PROVE  \E u : Chain(u)' /\ Current(u[Len(buffer) + 1])'
  <2> DEFINE k == Len(buffer) + 1
             new == After(v[k], ev)
             u == [i \in 1 .. k + 1 |-> IF i <= k THEN v[i] ELSE new]
  <2>1. /\ Len(buffer) \in Nat /\ Len(buffer') = k
        /\ \A i \in 1 .. Len(buffer) : buffer'[i] = buffer[i]
        /\ buffer'[k] = ev
    BY <1>1 DEF SimInv, SimTyped
  <2>2. v[k] \in Views
    BY <1>6, <2>1 DEF Chain
  <2>3. new \in Views
    BY <1>1, <2>2, AfterTyped
  <2>4. (\A i \in 1 .. k : u[i] = v[i]) /\ u[k + 1] = new
    BY <2>1
  <2>5. u \in [1 .. k + 1 -> Views]
    BY <1>6, <2>1, <2>3 DEF Chain
  <2>6. u[1] = After(heard, relay)
    BY <1>6, <2>1, <2>4 DEF Chain
  <2>7. \A i \in 1 .. Len(buffer) : u[i + 1] = After(u[i], buffer'[i])
    BY <1>6, <2>1, <2>4 DEF Chain
  <2>8. u[k + 1] = After(u[k], buffer'[k])
    BY <2>1, <2>4
  <2>9. ASSUME NEW t \in Slots \ overtaken', latest'[t] = None
        PROVE  new[t] = simulated[t]
    <3>1. new = [v[k] EXCEPT ![s] = Effect(ev)]
      BY <1>1 DEF After, s
    <3>2. CASE t = s
      <4>1. latest[s] = a /\ a # None
        BY <1>2, <2>9, <3>2, NoneIsNoCall
      <4>2. Effect(ev) = simulated[s]
        BY <1>1, <4>1 DEF SimInv, LatestInv, ev
      <4> QED
        BY <1>1, <2>2, <3>1, <3>2, <4>2 DEF Views
    <3>3. CASE t # s
      <4>1. latest[t] = None /\ t \notin overtaken
        BY <1>2, <1>4, <2>9, <3>3
      <4>2. v[k][t] = simulated[t]
        BY <1>6, <4>1 DEF Current
      <4> QED
        BY <2>2, <3>1, <3>3, <4>2 DEF Views
    <3> QED
      BY <3>2, <3>3
  <2> HIDE DEF u, new
  <2>10. \A i \in 1 .. k : u[i + 1] = After(u[i], buffer'[i])
    BY <2>1, <2>7, <2>8
  <2>11. PICK w : w = u
    OBVIOUS
  <2>12. Chain(w)'
    BY <1>1, <2>1, <2>5, <2>6, <2>10, <2>11 DEF Chain, After, Effect
  <2>13. Current(w[Len(buffer) + 1])'
    BY <1>1, <2>1, <2>4, <2>9, <2>11 DEF Current
  <2> QED
    BY <2>12, <2>13
<1> QED
  BY <1>1, <1>3, <1>5, <1>6 DEF SimInv

LEMMA TakeStep == ASSUME SimInv, Sim!Take PROVE SimInv'
<1>1. /\ relay = None /\ buffer # <<>>
      /\ relay' = Head(buffer) /\ buffer' = Tail(buffer)
      /\ UNCHANGED <<simulated, sending, heard, watching, latest, overtaken>>
  BY DEF Sim!Take
<1>2. SimTyped' /\ LatestInv'
  BY <1>1 DEF SimInv, SimTyped, LatestInv, Effect
<1>3. /\ Len(buffer) \in Nat /\ Len(buffer) >= 1
      /\ relay' = buffer[1] /\ Len(buffer') = Len(buffer) - 1
      /\ \A i \in 1 .. Len(buffer) - 1 : buffer'[i] = buffer[i + 1]
  BY <1>1 DEF SimInv, SimTyped
<1>4. ASSUME NEW v, Chain(v), Current(v[Len(buffer) + 1])
      PROVE  \E u : Chain(u)' /\ Current(u[Len(buffer) + 1])'
  <2> DEFINE k == Len(buffer)
             u == [i \in 1 .. k |-> v[i + 1]]
  <2>1. \A i \in 1 .. k : u[i] = v[i + 1]
    OBVIOUS
  <2>2. u \in [1 .. k -> Views]
    BY <1>3, <1>4 DEF Chain
  <2>3. v[1] = heard
    BY <1>1, <1>4 DEF Chain, After
  <2>4. u[1] = After(heard, buffer[1])
    BY <1>3, <1>4, <2>1, <2>3 DEF Chain
  <2>5. \A i \in 1 .. k - 1 : u[i + 1] = After(u[i], buffer[i + 1])
    <3> SUFFICES ASSUME NEW i \in 1 .. k - 1
                 PROVE  u[i + 1] = After(u[i], buffer[i + 1])
      OBVIOUS
    <3>1. v[i + 1 + 1] = After(v[i + 1], buffer[i + 1])
      BY <1>3, <1>4 DEF Chain
    <3> QED
      BY <1>3, <2>1, <3>1
  <2>6. u[k] = v[k + 1]
    BY <1>3, <2>1
  <2> HIDE DEF u
  <2>7. \A i \in 1 .. k - 1 : u[i + 1] = After(u[i], buffer'[i])
    BY <1>3, <2>5
  <2>8. PICK w : w = u
    OBVIOUS
  <2>9. Chain(w)'
    BY <1>1, <1>3, <2>2, <2>4, <2>7, <2>8 DEF Chain, After, Effect
  <2>10. Current(w[Len(buffer) + 1])'
    BY <1>1, <1>3, <1>4, <2>6, <2>8 DEF Current
  <2> QED
    BY <2>9, <2>10
<1> QED
  BY <1>1, <1>2, <1>4 DEF SimInv

LEMMA HandOverStep == ASSUME SimInv, Sim!HandOver PROVE SimInv'
<1>1. /\ relay # None /\ relay' = None /\ heard' = After(heard, relay)
      /\ UNCHANGED <<simulated, sending, buffer, watching, latest, overtaken>>
  BY DEF Sim!HandOver, After, Effect
<1>2. SimTyped' /\ LatestInv'
  BY <1>1, AfterTyped DEF SimInv, SimTyped, LatestInv, Effect
<1>3. ASSUME NEW v, Chain(v), Current(v[Len(buffer) + 1])
      PROVE  Chain(v)' /\ Current(v[Len(buffer) + 1])'
  <2>1. v[1] = After(heard', relay')
    BY <1>1, <1>3 DEF Chain, After
  <2>2. Chain(v)'
    BY <1>1, <1>3, <2>1 DEF Chain, After, Effect
  <2>3. Current(v[Len(buffer) + 1])'
    BY <1>1, <1>3 DEF Current
  <2> QED
    BY <2>2, <2>3
<1> QED
  BY <1>1, <1>2, <1>3 DEF SimInv

LEMMA SimStep == SimInv /\ [ReadersNext]_readers => SimInv'
<1> SUFFICES ASSUME SimInv, [ReadersNext]_readers PROVE SimInv'
  OBVIOUS
<1>1. CASE UNCHANGED simVars
  <2>1. SimTyped' /\ LatestInv'
    BY <1>1 DEF SimInv, SimTyped, LatestInv, Effect, simVars
  <2>2. ASSUME NEW v, Chain(v), Current(v[Len(buffer) + 1])
        PROVE  Chain(v)' /\ Current(v[Len(buffer) + 1])'
    BY <1>1, <2>2 DEF Chain, Current, After, Effect, simVars
  <2> QED
    BY <1>1, <2>1, <2>2 DEF SimInv, simVars
<1>2. CASE UNCHANGED readers \/ RealStep
  BY <1>1, <1>2 DEF readers, RealStep
<1>3. ASSUME NEW a \in Calls, Sim!Call(a) \/ Sim!Send(a) PROVE SimInv'
  BY <1>3, CallStep, SendStep
<1>4. CASE Sim!Watch
  BY <1>4, TakeStep, HandOverStep DEF Sim!Watch
<1>5. CASE Sim!Stop
  BY <1>5 DEF Sim!Stop, SimInv, SimTyped, LatestInv, Effect
<1> QED
  BY <1>2, <1>3, <1>4, <1>5 DEF ReadersNext, SimulatedStep, Sim!Next

\* With any number of callers for any slots, and whatever the size of the
\* buffer: once the calls have returned and their events have been handed
\* over, the orchestrator knows of a slot what is simulated there, unless the
\* event that was sent last for it is not that of its last change.
THEOREM SimulationIsTold == ReadersSpec => []ToldUnlessOvertaken
<1>1. New => SimInv
  BY SimInit DEF New, NewReal, NewMock
<1>2. SimInv => ToldUnlessOvertaken
  <2> SUFFICES ASSUME SimInv, watching, buffer = <<>>, relay = None,
                      \A a \in Calls : sending[a] = None,
                      NEW s \in Slots \ overtaken
               PROVE  heard[s] = simulated[s]
    BY DEF ToldUnlessOvertaken, Sim!ToldUnlessOvertaken
  <2>1. PICK v : Chain(v) /\ Current(v[Len(buffer) + 1])
    BY DEF SimInv
  <2>2. Len(buffer) = 0 /\ latest[s] = None
    BY DEF SimInv, SimTyped, LatestInv
  <2> QED
    BY <2>1, <2>2 DEF Chain, After, Current
<1> QED
  BY <1>1, <1>2, SimStep, PTL DEF ReadersSpec

=============================================================================
