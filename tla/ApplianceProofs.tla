-------------------------- MODULE ApplianceProofs --------------------------
(***************************************************************************)
(* Proofs about Appliance, for any number of slots, cards and jobs and     *)
(* whatever serials the enumerator reads: detector and orchestrator joined *)
(* by the channel, with cards that move and restarts at any step.          *)
(***************************************************************************)
EXTENDS Appliance, TLAPS

Devices == [Slots -> Cards \cup {None}]

Typed ==
    /\ told \in Devices /\ present \in Devices /\ pending \in Devices
    /\ removals \subseteq Det!Event /\ insertions \subseteq Det!Event
    /\ workers \in [Slots -> Workers \cup {None}]
    /\ step \in [Workers -> Orch!Steps]
    /\ slotOf \in [Workers -> Slots \cup {None}]
    /\ cancelled \in [Workers -> BOOLEAN]
    /\ cardOf \in [Workers -> Cards \cup {None}]

\* Events under way for a slot.
Going(s) == \E ev \in removals : ev.slot = s
Coming(s) == \E ev \in insertions : ev.slot = s

\* What the orchestrator is about to be told of a slot: never of a card while
\* it still believes in another.
FeedInv ==
    \A s \in Slots :
        /\ present[s] = None \/ pending[s] = None
        /\ open =>
              /\ Going(s) => present[s] = None /\ ~Coming(s)
              /\ Coming(s) => told[s] = None
              /\ \A ev \in insertions : ev.slot = s => ev.card = present[s]
              /\ \A ev \in removals : ev.slot = s => ev.card = told[s]
              /\ ~Going(s) /\ ~Coming(s) => told[s] = present[s]

\* The map has the worker that serves a slot, and that worker has a card.
MapInv ==
    \A w \in Workers : step[w] \in Orch!Active =>
        /\ slotOf[w] \in Slots
        /\ workers[slotOf[w]] = w
        /\ cardOf[w] # None

IInv == Typed /\ FeedInv /\ MapInv /\ GoneIsCancelled

LEMMA IInvInit == Init => IInv
<1> SUFFICES ASSUME Init PROVE IInv
  OBVIOUS
<1>1. Typed
  BY DEF Init, Det!Init, Orch!Init, Typed, Devices, Orch!Steps
<1>2. FeedInv
  BY DEF Init, Det!Init, FeedInv, Going, Coming
<1>3. \A w \in Workers : step[w] \notin Orch!Active
  BY DEF Init, Orch!Init, Orch!Active
<1> QED
  BY <1>1, <1>2, <1>3 DEF IInv, MapInv, GoneIsCancelled, Orch!Serving

-----------------------------------------------------------------------------
(* The detector.                                                           *)

\* What one reconcile does to a slot.
LEMMA ReconcileSlot ==
    ASSUME Typed, NEW snap \in Devices, Det!Reconcile(snap), NEW s \in Slots
    PROVE  /\ present'[s] \in Cards \cup {None}
           /\ pending'[s] \in Cards \cup {None}
           /\ present'[s] = None \/ pending'[s] = None
           /\ Going(s)' <=> Det!Gone(s, snap)
           /\ Coming(s)' <=> Det!Confirmed(s, snap)
           /\ Det!Known(s, snap) => present'[s] = present[s]
           /\ Det!Confirmed(s, snap) => present'[s] = snap[s]
           /\ ~Det!Known(s, snap) /\ ~Det!Confirmed(s, snap) =>
                 present'[s] = None
           /\ \A ev \in insertions' : ev.slot = s => ev.card = snap[s]
           /\ \A ev \in removals' : ev.slot = s => ev.card = present[s]
<1>1. Det!Confirmed(s, snap) => ~Det!Known(s, snap)
  BY DEF Det!Confirmed
<1>2. removals' = {[slot |-> t, card |-> present[t]] :
                      t \in {u \in Slots : Det!Gone(u, snap)}}
  BY DEF Det!Reconcile
<1>3. insertions' = {[slot |-> t, card |-> snap[t]] :
                        t \in {u \in Slots : Det!Confirmed(u, snap)}}
  BY DEF Det!Reconcile
<1>4. present'[s] = CASE Det!Known(s, snap)     -> present[s]
                      [] Det!Confirmed(s, snap) -> snap[s]
                      [] OTHER                  -> None
  BY DEF Det!Reconcile
<1>5. pending'[s] = IF Det!Known(s, snap) \/ Det!Confirmed(s, snap)
                    THEN None ELSE snap[s]
  BY DEF Det!Reconcile
<1>6. /\ Going(s)' <=> Det!Gone(s, snap)
      /\ \A ev \in removals' : ev.slot = s => ev.card = present[s]
  <2>1. Det!Gone(s, snap) => [slot |-> s, card |-> present[s]] \in removals'
    BY <1>2
  <2>2. \A ev \in removals' : ev.slot = s =>
            Det!Gone(s, snap) /\ ev.card = present[s]
    BY <1>2
  <2> QED
    BY <2>1, <2>2 DEF Going
<1>7. /\ Coming(s)' <=> Det!Confirmed(s, snap)
      /\ \A ev \in insertions' : ev.slot = s => ev.card = snap[s]
  <2>1. Det!Confirmed(s, snap) =>
            [slot |-> s, card |-> snap[s]] \in insertions'
    BY <1>3
  <2>2. \A ev \in insertions' : ev.slot = s =>
            Det!Confirmed(s, snap) /\ ev.card = snap[s]
    BY <1>3
  <2> QED
    BY <2>1, <2>2 DEF Coming
<1>8. snap[s] \in Cards \cup {None} /\ present[s] \in Cards \cup {None}
  BY DEF Typed, Devices
<1> QED
  BY <1>1, <1>4, <1>5, <1>6, <1>7, <1>8

LEMMA TickStep ==
    ASSUME Typed, FeedInv, NEW snap \in Devices, Det!Tick(snap)
    PROVE  /\ told' \in Devices /\ present' \in Devices /\ pending' \in Devices
           /\ last' \in Devices /\ UNCHANGED <<inSlot, open>>
           /\ removals' \subseteq Det!Event /\ insertions' \subseteq Det!Event
           /\ FeedInv'
<1>1. /\ Det!Reconcile(snap) /\ told' = told /\ open' = open /\ open
      /\ \A s \in Slots : ~Going(s) /\ ~Coming(s)
      /\ last' = snap /\ inSlot' = inSlot
  BY DEF Det!Tick, Going, Coming
<1>2. present' \in Devices /\ pending' \in Devices
  <2>1. present' = [s \in Slots |-> present'[s]]
        /\ pending' = [s \in Slots |-> pending'[s]]
    BY <1>1 DEF Det!Reconcile
  <2> QED
    BY <1>1, <2>1, ReconcileSlot DEF Devices
<1>3. removals' \subseteq Det!Event /\ insertions' \subseteq Det!Event
  <2>1. \A s \in Slots : Det!Gone(s, snap) => present[s] \in Cards
    BY DEF Det!Gone, Typed, Devices
  <2>2. \A s \in Slots : Det!Confirmed(s, snap) => snap[s] \in Cards
    BY DEF Det!Confirmed, Devices
  <2> QED
    BY <1>1, <2>1, <2>2 DEF Det!Reconcile, Det!Event
<1>4. FeedInv'
  <2> SUFFICES ASSUME NEW s \in Slots
               PROVE  /\ present'[s] = None \/ pending'[s] = None
                      /\ Going(s)' => present'[s] = None /\ ~Coming(s)'
                      /\ Coming(s)' => told[s] = None
                      /\ \A ev \in insertions' :
                            ev.slot = s => ev.card = present'[s]
                      /\ \A ev \in removals' :
                            ev.slot = s => ev.card = told[s]
                      /\ ~Going(s)' /\ ~Coming(s)' => told[s] = present'[s]
    BY <1>1 DEF FeedInv, Coming, Going
  <2>1. told[s] = present[s] /\ (present[s] = None \/ pending[s] = None)
    BY <1>1 DEF FeedInv
  <2>2. Det!Gone(s, snap) =>
            ~Det!Known(s, snap) /\ ~Det!Confirmed(s, snap)
    BY <2>1 DEF Det!Gone, Det!Known, Det!Confirmed
  <2>3. Det!Confirmed(s, snap) => present[s] = None
    BY <2>1 DEF Det!Confirmed
  <2>4. \/ Det!Known(s, snap) \/ Det!Gone(s, snap)
        \/ present[s] = None
    BY DEF Det!Known
  <2>5. \A ev \in insertions' : ev.slot = s =>
            Coming(s)' /\ ev.card = snap[s]
    BY <1>1, ReconcileSlot DEF Coming
  <2>6. \A ev \in removals' : ev.slot = s => ev.card = present[s]
    BY <1>1, ReconcileSlot
  <2> QED
    BY <1>1, <2>1, <2>2, <2>3, <2>4, <2>5, <2>6, ReconcileSlot
<1> QED
  BY <1>1, <1>2, <1>3, <1>4 DEF Typed

\* Handing over an event of a slot leaves those of the others under way.
LEMMA RemovedStep ==
    ASSUME Typed, FeedInv, NEW s \in Slots, Det!SendRemoved(s)
    PROVE  FeedInv' /\ told' \in Devices /\ removals' \subseteq removals
<1>1. PICK ev \in removals : ev.slot = s /\ removals' = removals \ {ev}
  BY DEF Det!SendRemoved
<1>2. /\ UNCHANGED <<present, pending, insertions, open>> /\ open
      /\ told' = [told EXCEPT ![s] = None]
  BY DEF Det!SendRemoved
<1>3. Going(s) /\ present[s] = None /\ ~Coming(s)
  BY <1>1, <1>2 DEF Going, FeedInv
<1>4. /\ \A t \in Slots \ {s} : Going(t)' = Going(t) /\ told'[t] = told[t]
      /\ \A t \in Slots : Coming(t)' = Coming(t)
      /\ told'[s] = None
  BY <1>1, <1>2 DEF Going, Coming, Typed, Devices
<1>5. ~Going(s)'
  <2>1. \A e \in removals : e.slot = s => e = ev
    BY <1>1, <1>2 DEF FeedInv, Typed, Det!Event
  <2> QED
    BY <1>1, <2>1 DEF Going
<1>6. FeedInv'
  BY <1>1, <1>2, <1>3, <1>4, <1>5 DEF FeedInv, Going
<1> QED
  BY <1>1, <1>2, <1>6 DEF Typed, Devices

LEMMA InsertedStep ==
    ASSUME Typed, FeedInv, NEW s \in Slots, NEW c \in Cards,
           Det!SendInserted(s, c)
    PROVE  /\ FeedInv' /\ told' \in Devices /\ insertions' \subseteq insertions
           /\ told[s] = None
<1> DEFINE ev == [slot |-> s, card |-> c]
<1>1. /\ UNCHANGED <<present, pending, removals, open>> /\ open
      /\ removals = {}
      /\ told' = [told EXCEPT ![s] = c]
      /\ ev \in insertions /\ insertions' = insertions \ {ev}
  BY DEF Det!SendInserted
<1>2. Coming(s) /\ told[s] = None /\ present[s] = c
  BY <1>1 DEF Coming, FeedInv
<1>3. \A e \in insertions : e.slot = s => e = ev
  BY <1>1, <1>2 DEF FeedInv, Typed, Det!Event
<1>4. ~Coming(s)' /\ told'[s] = c
  BY <1>1, <1>3 DEF Coming, Typed, Devices
<1>5. \A t \in Slots \ {s} : Coming(t)' = Coming(t) /\ told'[t] = told[t]
  BY <1>1 DEF Coming, Typed, Devices
<1>6. \A t \in Slots : ~Going(t) /\ ~Going(t)'
  BY <1>1 DEF Going
<1>7. FeedInv'
  BY <1>1, <1>2, <1>4, <1>5, <1>6 DEF FeedInv
<1> QED
  BY <1>1, <1>2, <1>7 DEF Typed, Devices

-----------------------------------------------------------------------------
(* The orchestrator.                                                       *)

OrchTyped ==
    /\ workers \in [Slots -> Workers \cup {None}]
    /\ step \in [Workers -> Orch!Steps]
    /\ slotOf \in [Workers -> Slots \cup {None}]
    /\ cancelled \in [Workers -> BOOLEAN]

\* A worker goes its way without touching another, and takes its entry out
\* of the map when it leaves.
LEMMA WorkStep ==
    ASSUME Typed, MapInv, NEW w \in Workers, Orch!Work(w)
    PROVE  /\ OrchTyped' /\ slotOf' = slotOf
           /\ \A v \in Workers : step'[v] \in Orch!Active =>
                 /\ step[v] \in Orch!Active
                 /\ workers'[slotOf[v]] = v
           /\ \A v \in Workers : cancelled[v] => cancelled'[v]
<1> USE DEF Typed, OrchTyped, Orch!Steps, Orch!Alive, Orch!Active, Orch!Goto
<1>1. CASE Orch!FinishWorker(w)
  <2>1. /\ step[w] = "leave" /\ step' = [step EXCEPT ![w] = "done"]
        /\ workers' = [workers EXCEPT ![slotOf[w]] = None]
        /\ slotOf' = slotOf
    BY <1>1 DEF Orch!FinishWorker
  <2>2. cancelled' \in [Workers -> BOOLEAN]
        /\ \A v \in Workers : cancelled[v] => cancelled'[v]
    <3>1. cancelled' = [v \in Workers |->
                          cancelled[v] \/ workers[slotOf[w]] = v]
      BY <1>1 DEF Orch!FinishWorker
    <3> QED
      BY <3>1, Zenon
  <2>3. ASSUME NEW v \in Workers, step'[v] \in Orch!Active
        PROVE  step[v] \in Orch!Active /\ workers'[slotOf[v]] = v
    <3>1. v # w /\ step[v] \in Orch!Active
      BY <2>1, <2>3
    <3>2. slotOf[v] # slotOf[w]
      BY <2>1, <3>1 DEF MapInv
    <3> QED
      BY <2>1, <3>1, <3>2 DEF MapInv
  <2> QED
    BY <2>1, <2>2, <2>3
<1>2. CASE Orch!WgDone(w)
  BY <1>2 DEF Orch!WgDone, MapInv
<1>3. CASE ~Orch!FinishWorker(w) /\ ~Orch!WgDone(w)
  <2>1. /\ UNCHANGED <<workers, slotOf, cancelled>>
        /\ step[w] \in Orch!Active
        /\ \E next \in Orch!Active : step' = [step EXCEPT ![w] = next]
    BY <1>3
       DEF Orch!Work, Orch!StartJob, Orch!Announce, Orch!Mount, Orch!Ingest,
           Orch!Remount, Orch!Erase, Orch!Complete, Orch!Fail, Orch!Unmount,
           Orch!SetIdle
  <2> QED
    BY <2>1 DEF MapInv
<1> QED
  BY <1>1, <1>2, <1>3

-----------------------------------------------------------------------------
(* Both.                                                                   *)

LEMMA IInvStep == IInv /\ [Next]_vars => IInv'
<1> SUFFICES ASSUME IInv, [Next]_vars PROVE IInv'
  OBVIOUS
<1> USE DEF IInv
<1>1. ASSUME UNCHANGED <<told, workers, step, slotOf, cardOf>>,
             Typed', FeedInv', \A w \in Workers : cancelled[w] => cancelled'[w]
      PROVE  IInv'
  BY <1>1 DEF MapInv, GoneIsCancelled, Orch!Serving, Typed
<1>2. CASE UNCHANGED vars
  BY <1>2 DEF vars, detVars, appVars, links, Typed, FeedInv, Going, Coming,
              MapInv, GoneIsCancelled, Orch!Serving
<1>3. CASE Move \/ Close
  <2>1. /\ UNCHANGED <<told, present, pending, appVars, links>>
        /\ \/ UNCHANGED <<removals, insertions, open>>
           \/ removals' = {} /\ insertions' = {} /\ ~open'
    BY <1>3 DEF Move, Close, Det!Move, Det!Pull, Det!Insert, Det!Close
  <2>2. Typed'
    BY <2>1 DEF Typed, appVars, links
  <2>3. FeedInv'
    BY <2>1 DEF FeedInv, Going, Coming
  <2> QED
    BY <1>1, <2>1, <2>2, <2>3 DEF appVars, links
<1>4. CASE Poll
  <2>1. PICK snap \in Devices : Det!Tick(snap) /\ UNCHANGED <<appVars, links>>
    BY <1>4 DEF Poll, Det!Poll, Det!Snapshots, Det!Devices, Devices
  <2>2. FeedInv' /\ Typed'
    BY <2>1, TickStep DEF appVars, links, Typed
  <2> QED
    BY <1>1, <2>1, <2>2 DEF Det!Tick, appVars, links
<1>5. ASSUME NEW s \in Slots, Removed(s) PROVE IInv'
  <2>1. /\ FeedInv' /\ told' \in Devices /\ removals' \subseteq removals
        /\ told' = [told EXCEPT ![s] = None]
        /\ UNCHANGED <<present, pending, insertions>>
    BY <1>5, RemovedStep DEF Removed, Det!SendRemoved
  <2>2. /\ cancelled' = [w \in Workers |-> cancelled[w] \/ workers[s] = w]
        /\ UNCHANGED <<workers, step, slotOf, cardOf>>
    BY <1>5 DEF Removed, Orch!StopWorker, links
  <2>3. /\ cancelled' \in [Workers -> BOOLEAN]
        /\ \A w \in Workers : cancelled[w] => cancelled'[w]
        /\ \A w \in Workers : workers[s] = w => cancelled'[w]
    BY <2>2, Zenon
  <2>4. Typed'
    BY <2>1, <2>2, <2>3 DEF Typed
  <2>5. MapInv'
    BY <2>2 DEF MapInv
  <2>6. ASSUME NEW t \in Slots, NEW w \in Workers, ~cancelled'[w],
               step[w] \in Orch!Active, slotOf[w] = t
        PROVE  told'[t] = cardOf[w]
    <3>1. workers[t] = w /\ ~cancelled[w]
      BY <2>3, <2>6 DEF MapInv
    <3>2. t # s
      BY <2>3, <2>6, <3>1
    <3> QED
      BY <2>1, <2>6, <3>1, <3>2
         DEF GoneIsCancelled, Orch!Serving, Typed, Devices
  <2> QED
    BY <2>1, <2>2, <2>4, <2>5, <2>6 DEF GoneIsCancelled, Orch!Serving
<1>6. ASSUME NEW s \in Slots, NEW c \in Cards, Accept(s, c) PROVE IInv'
  <2>1. /\ FeedInv' /\ told' \in Devices /\ insertions' \subseteq insertions
        /\ told' = [told EXCEPT ![s] = c]
        /\ UNCHANGED <<present, pending, removals>>
    BY <1>6, InsertedStep DEF Accept, Det!SendInserted
  <2>2. PICK w \in Workers :
            /\ step[w] = "new" /\ workers[s] = None
            /\ workers' = [workers EXCEPT ![s] = w]
            /\ step' = [step EXCEPT ![w] = "start"]
            /\ slotOf' = [slotOf EXCEPT ![w] = s]
            /\ cancelled' = cancelled
    BY <1>6 DEF Accept, Orch!StartWorker, Orch!Free
  <2>3. cardOf' = [v \in Workers |-> IF workers'[s] = v THEN c ELSE cardOf[v]]
    BY <1>6 DEF Accept
  <2>4. \A v \in Workers : cardOf'[v] = IF v = w THEN c ELSE cardOf[v]
    BY <2>2, <2>3 DEF Typed
  <2>5. Typed'
    <3>1. cardOf' \in [Workers -> Cards \cup {None}]
      BY <2>3 DEF Typed
    <3> QED
      BY <2>1, <2>2, <3>1 DEF Typed, Orch!Steps, Orch!Alive, Orch!Active
  <2>6. ASSUME NEW v \in Workers, v # w, step'[v] \in Orch!Active
        PROVE  /\ step[v] \in Orch!Active /\ slotOf'[v] = slotOf[v]
               /\ slotOf[v] # s
    BY <2>2, <2>6, NoneIsNothing DEF Typed, MapInv
  <2>7. MapInv'
    BY <2>2, <2>4, <2>6, NoneIsNothing DEF Typed, MapInv
  <2>8. ASSUME NEW t \in Slots, NEW v \in Workers, ~cancelled'[v],
               step'[v] \in Orch!Active, slotOf'[v] = t
        PROVE  told'[t] = cardOf'[v]
    <3>1. CASE v = w
      BY <2>1, <2>2, <2>4, <2>8, <3>1 DEF Typed, Devices
    <3>2. CASE v # w
      <4>1. step[v] \in Orch!Active /\ slotOf[v] = t /\ t # s /\ ~cancelled[v]
        BY <2>2, <2>6, <2>8, <3>2
      <4> QED
        BY <2>1, <2>4, <3>2, <4>1
           DEF GoneIsCancelled, Orch!Serving, Typed, Devices
    <3> QED
      BY <3>1, <3>2
  <2> QED
    BY <2>1, <2>5, <2>7, <2>8 DEF GoneIsCancelled, Orch!Serving
<1>7. ASSUME NEW s \in Slots, NEW c \in Cards, Ignore(s, c) PROVE IInv'
  <2>1. /\ FeedInv' /\ told' \in Devices /\ insertions' \subseteq insertions
        /\ told' = [told EXCEPT ![s] = c] /\ told[s] = None
        /\ UNCHANGED <<present, pending, removals>>
    BY <1>7, InsertedStep DEF Ignore, Det!SendInserted
  <2>2. UNCHANGED <<workers, step, slotOf, cancelled, cardOf>>
    BY <1>7 DEF Ignore, Orch!IgnoreInsert, Orch!vars
  <2>3. Typed' /\ MapInv'
    BY <2>1, <2>2 DEF Typed, MapInv
  <2>4. ASSUME NEW t \in Slots, NEW w \in Workers, ~cancelled[w],
               step[w] \in Orch!Active, slotOf[w] = t
        PROVE  told'[t] = cardOf[w]
    <3>1. told[t] = cardOf[w] /\ cardOf[w] # None
      BY <2>4 DEF GoneIsCancelled, Orch!Serving, MapInv
    <3> QED
      BY <2>1, <3>1 DEF Typed, Devices
  <2> QED
    BY <2>1, <2>2, <2>3, <2>4 DEF GoneIsCancelled, Orch!Serving
<1>8. CASE Signal \/ Shutdown \/ Wait
  <2>1. UNCHANGED <<detVars, links, workers, step, slotOf>>
    BY <1>8 DEF Signal, Shutdown, Wait, Orch!Signal, Orch!Shutdown, Orch!Wait
  <2>2. /\ cancelled' \in [Workers -> BOOLEAN]
        /\ \A w \in Workers : cancelled[w] => cancelled'[w]
    <3>1. CASE Orch!Shutdown
      BY <3>1, Zenon DEF Orch!Shutdown
    <3>2. CASE Orch!Signal \/ Orch!Wait
      BY <3>2 DEF Orch!Signal, Orch!Wait, Typed
    <3> QED
      BY <1>8, <3>1, <3>2 DEF Signal, Shutdown, Wait
  <2>3. Typed' /\ FeedInv'
    BY <2>1, <2>2 DEF detVars, links, Typed, FeedInv, Going, Coming
  <2> QED
    BY <1>1, <2>1, <2>2, <2>3 DEF detVars, links
<1>9. ASSUME NEW w \in Workers, Work(w) PROVE IInv'
  <2>1. Orch!Work(w) /\ UNCHANGED <<detVars, links>>
    BY <1>9 DEF Work
  <2>2. Typed'
    BY <2>1, WorkStep DEF Typed, OrchTyped, detVars, links
  <2>3. FeedInv'
    BY <2>1 DEF detVars, FeedInv, Going, Coming
  <2>4. MapInv' /\ GoneIsCancelled'
    BY <2>1, WorkStep
       DEF MapInv, GoneIsCancelled, Orch!Serving, detVars, links
  <2> QED
    BY <2>2, <2>3, <2>4
<1>10. CASE Restart
  <2>1. /\ told' = [s \in Slots |-> None] /\ present' = told'
        /\ pending' = told' /\ removals' = {} /\ insertions' = {}
        /\ UNCHANGED <<cardOf, slotOf>>
        /\ workers' = [s \in Slots |-> None]
        /\ step' = [w \in Workers |->
                      IF step[w] \in Orch!Alive THEN "gone" ELSE step[w]]
    BY <1>10 DEF Restart, Orch!Restart
  <2>2. cancelled' \in [Workers -> BOOLEAN]
    BY <1>10, Zenon DEF Restart, Orch!Restart
  <2>3. Typed'
    BY <2>1, <2>2 DEF Typed, Devices, Orch!Steps
  <2>4. \A w \in Workers : step'[w] \notin Orch!Active
    BY <2>1 DEF Orch!Alive, Orch!Active
  <2>5. FeedInv'
    BY <2>1 DEF FeedInv, Going, Coming
  <2> QED
    BY <2>3, <2>4, <2>5 DEF MapInv, GoneIsCancelled, Orch!Serving
<1> QED
  BY <1>2, <1>3, <1>4, <1>5, <1>6, <1>7, <1>8, <1>9, <1>10 DEF Next, Event

\* A worker whose card has been reported gone, or has been swapped between
\* two polls, has been cancelled: for any number of slots, cards and jobs,
\* whatever enumerations miss and whatever serials they read, over shutdowns
\* and restarts.
THEOREM NoJobOutlivesItsCard == Spec => []GoneIsCancelled
<1>1. IInv => GoneIsCancelled
  BY DEF IInv
<1> QED
  BY <1>1, IInvInit, IInvStep, PTL DEF Spec

\* The events still to be handed over and what the orchestrator has been told
\* add up to what the tracker believes, never two of them for one slot: also
\* after a restart, which begins with neither.
THEOREM EventsInStep == Spec => []Det!InFlight
<1>1. IInv => Det!InFlight
  <2> SUFFICES ASSUME IInv, open, NEW s \in Slots
               PROVE  /\ Coming(s) => /\ ~Going(s) /\ told[s] = None
                                      /\ [slot |-> s, card |-> present[s]]
                                            \in insertions
                      /\ Going(s) => /\ present[s] = None
                                     /\ [slot |-> s, card |-> told[s]]
                                           \in removals
                      /\ ~Coming(s) /\ ~Going(s) => told[s] = present[s]
    BY DEF Det!InFlight, Going, Coming
  <2>1. \A ev \in removals \cup insertions :
            ev = [slot |-> ev.slot, card |-> ev.card]
    BY DEF IInv, Typed, Det!Event
  <2> QED
    BY <2>1 DEF IInv, FeedInv, Going, Coming
<1> QED
  BY <1>1, IInvInit, IInvStep, PTL DEF Spec

-----------------------------------------------------------------------------
(* The orchestrator is the one of App: what is proved of it there, with    *)
(* events of any order and number, holds here.                             *)

Alone == INSTANCE AppProofs

LEMMA OrchParts ==
    /\ Alone!IsFiniteSet(Workers) /\ None \notin Workers
    /\ Recording \in BOOLEAN /\ Alerting \in BOOLEAN
<1>1. Alone!IsFiniteSet(Workers)
  BY PartsTyped DEF Alone!IsFiniteSet, IsFiniteSet
<1> QED
  BY <1>1, PartsTyped, NoneIsNothing

\* Every step of the appliance is one of the orchestrator's, or none of its.
LEMMA OrchSteps == [Next]_vars => [Orch!Next]_(Orch!vars)
<1> SUFFICES ASSUME [Next]_vars PROVE Orch!Next \/ UNCHANGED Orch!vars
  OBVIOUS
<1>1. CASE UNCHANGED vars
  BY <1>1 DEF vars, appVars, Orch!vars
<1>2. CASE Move \/ Poll \/ Close
  BY <1>2 DEF Move, Poll, Close, appVars, Orch!vars
<1>3. CASE Event
  <2>1. ASSUME NEW s \in Slots, Removed(s) PROVE Orch!Next
    BY <2>1 DEF Removed, Orch!Next, Orch!Loop
  <2>2. ASSUME NEW s \in Slots, NEW c \in Cards, Accept(s, c) \/ Ignore(s, c)
        PROVE  Orch!Next
    BY <2>2 DEF Accept, Ignore, Orch!Next, Orch!Loop, Orch!HandleInserted
  <2> QED
    BY <1>3, <2>1, <2>2 DEF Event
<1>4. CASE Signal \/ Shutdown \/ Wait
  BY <1>4 DEF Signal, Shutdown, Wait, Orch!Next, Orch!Loop
<1>5. ASSUME NEW w \in Workers, Work(w) PROVE Orch!Next
  BY <1>5 DEF Work, Orch!Next
<1>6. CASE Restart
  BY <1>6 DEF Restart, Orch!Next
<1> QED
  BY <1>1, <1>2, <1>3, <1>4, <1>5, <1>6 DEF Next

\* The orchestrator inside the appliance implements App.
THEOREM OrchestratorIsApp == Spec => Orch!Spec
<1>1. Init => Orch!Init
  BY DEF Init
<1> QED
  BY <1>1, OrchSteps, PTL DEF Spec, Orch!Spec

\* App, looked at on its own, is the same.
LEMMA SameWork == ASSUME NEW w PROVE Orch!Work(w) <=> Alone!Work(w)
BY DEF Orch!Work, Alone!Work, Orch!StartJob, Alone!StartJob, Orch!Announce,
       Alone!Announce, Orch!Mount, Alone!Mount, Orch!Ingest, Alone!Ingest,
       Orch!Remount, Alone!Remount, Orch!Erase, Alone!Erase, Orch!Complete,
       Alone!Complete, Orch!Fail, Alone!Fail, Orch!Unmount, Alone!Unmount,
       Orch!SetIdle, Alone!SetIdle, Orch!FinishWorker, Alone!FinishWorker,
       Orch!WgDone, Alone!WgDone, Orch!Goto, Alone!Goto, Orch!EmitError,
       Alone!EmitError, Orch!Done, Alone!Done, Orch!InsertRow, Alone!InsertRow,
       Orch!UpdateRow, Alone!UpdateRow, Orch!FinishJob, Alone!FinishJob

LEMMA SameLoop == Orch!Loop <=> Alone!Loop
BY DEF Orch!Loop, Alone!Loop, Orch!HandleInserted, Alone!HandleInserted,
       Orch!StartWorker, Alone!StartWorker, Orch!Free, Alone!Free,
       Orch!IgnoreInsert, Alone!IgnoreInsert, Orch!vars, Alone!vars,
       Orch!StopWorker, Alone!StopWorker, Orch!Signal, Alone!Signal,
       Orch!Shutdown, Alone!Shutdown, Orch!Wait, Alone!Wait

LEMMA SameRestart == Orch!Restart <=> Alone!Restart
BY DEF Orch!Restart, Alone!Restart, Orch!Alive, Alone!Alive, Orch!Active,
       Alone!Active, Orch!Live, Alone!Live

LEMMA SameSteps ==
    /\ Orch!Init <=> Alone!Init
    /\ [Orch!Next]_(Orch!vars) <=> [Alone!Next]_(Alone!vars)
<1>1. Orch!Init <=> Alone!Init
  BY DEF Orch!Init, Alone!Init
<1>2. [Orch!Next]_(Orch!vars) <=> [Alone!Next]_(Alone!vars)
  BY SameWork, SameLoop, SameRestart
     DEF Orch!Next, Alone!Next, Orch!vars, Alone!vars
<1> QED
  BY <1>1, <1>2

LEMMA AloneSpec == Spec => Alone!Spec
<1>1. Init => Alone!Init
  BY SameSteps DEF Init
<1>2. [Next]_vars => [Alone!Next]_(Alone!vars)
  BY OrchSteps, SameSteps
<1> QED
  BY <1>1, <1>2, PTL DEF Spec, Alone!Spec

\* What App promises for events in any order and number holds of the
\* appliance: one worker for a slot, nothing mounted unseen, a stop that leaves
\* nothing behind, a history written once.
THEOREM PromisesCarryOver ==
    Spec => /\ []Orch!OneWorkerPerSlot /\ []Orch!MountShown
            /\ []Orch!WaitGroupCounts /\ []Orch!CleanStop
            /\ Orch!OutcomeIsFinal
<1>1. Spec => Alone!Spec
  BY AloneSpec
<1>2. /\ Alone!OneWorkerPerSlot => Orch!OneWorkerPerSlot
      /\ Alone!MountShown => Orch!MountShown
      /\ Alone!CleanStop => Orch!CleanStop
  BY DEF Orch!OneWorkerPerSlot, Alone!OneWorkerPerSlot, Orch!Serving,
         Alone!Serving, Orch!MountShown, Alone!MountShown, Orch!Live,
         Alone!Live, Orch!CleanStop, Alone!CleanStop, Orch!Alive, Alone!Alive,
         Orch!Active, Alone!Active
<1>3. Alone!WaitGroupCounts => Orch!WaitGroupCounts
  <2>1. \A S : Alone!Cardinality(S) = Orch!Cardinality(S)
    BY DEF Alone!Cardinality, Orch!Cardinality
  <2>2. {w \in Workers : step[w] \in Alone!Alive} =
            {w \in Workers : step[w] \in Orch!Alive}
    BY DEF Orch!Alive, Alone!Alive, Orch!Active, Alone!Active
  <2> QED
    BY <2>1, <2>2 DEF Alone!WaitGroupCounts, Orch!WaitGroupCounts
<1>4. Alone!Spec => []Alone!OneWorkerPerSlot
  BY OrchParts, Alone!MapAgrees
<1>5. Alone!Spec => []Alone!MountShown
  BY OrchParts, Alone!NeverMountedUnseen
<1>6. Alone!Spec => []Alone!WaitGroupCounts
  BY OrchParts, Alone!WaitGroupExact
<1>7. Alone!Spec => []Alone!CleanStop
  BY OrchParts, Alone!StopIsClean
<1>8. Alone!Spec => Alone!OutcomeIsFinal
  BY OrchParts, Alone!HistoryStays
<1>9. Alone!OutcomeIsFinal => Orch!OutcomeIsFinal
  BY PTL DEF Alone!OutcomeIsFinal, Orch!OutcomeIsFinal, Alone!vars, Orch!vars
<1> QED
  BY <1>1, <1>2, <1>3, <1>4, <1>5, <1>6, <1>7, <1>8, <1>9, PTL

-----------------------------------------------------------------------------
(* Both again.                                                             *)

\* What is not told apart above.
RestTyped ==
    /\ inSlot \in Devices /\ last \in Devices
    /\ open \in BOOLEAN
    /\ accepted \in [Slots -> BOOLEAN]

LEMMA RestInit == Init => RestTyped
BY DEF Init, Det!Init, Det!Devices, Devices, RestTyped

LEMMA RestStep == RestTyped /\ [Next]_vars => RestTyped'
<1> SUFFICES ASSUME RestTyped, [Next]_vars PROVE RestTyped'
  OBVIOUS
<1> USE DEF RestTyped, Devices
<1>1. CASE UNCHANGED vars
  BY <1>1 DEF vars, detVars, links
<1>2. CASE Move
  BY <1>2 DEF Move, Det!Move, Det!Pull, Det!Insert, links
<1>3. CASE Poll
  BY <1>3 DEF Poll, Det!Poll, Det!Snapshots, Det!Devices, Det!Tick, links
<1>4. CASE Close
  BY <1>4 DEF Close, Det!Close, links
<1>5. CASE Event
  <2>1. UNCHANGED <<inSlot, last, open>>
    BY <1>5 DEF Event, Removed, Accept, Ignore, Det!SendRemoved,
                Det!SendInserted
  <2>2. accepted' \in [Slots -> BOOLEAN]
    BY <1>5 DEF Event, Removed, Accept, Ignore, links
  <2> QED
    BY <2>1, <2>2
<1>6. CASE Signal \/ Shutdown \/ Wait \/ \E w \in Workers : Work(w)
  BY <1>6 DEF Signal, Shutdown, Wait, Work, detVars, links
<1>7. CASE Restart
  BY <1>7 DEF Restart
<1> QED
  BY <1>1, <1>2, <1>3, <1>4, <1>5, <1>6, <1>7 DEF Next

\* Every state of the appliance is well typed.
THEOREM TypeCorrect == Spec => []TypeOK
<1>1. Alone!Spec => []Alone!TypeOK
  BY OrchParts, Alone!TypeCorrect
<1>2. IInv /\ RestTyped /\ Alone!TypeOK => TypeOK
  <2> SUFFICES ASSUME IInv, RestTyped, Alone!TypeOK PROVE TypeOK
    OBVIOUS
  <2>1. Det!TypeOK
    BY DEF IInv, Typed, RestTyped, Devices, Det!TypeOK, Det!Devices
  <2>2. Alone!Cardinality(Workers) = Orch!Cardinality(Workers)
    BY DEF Alone!Cardinality, Orch!Cardinality
  <2>3. Orch!TypeOK
    BY <2>2 DEF Orch!TypeOK, Alone!TypeOK, Orch!Steps, Alone!Steps,
       Orch!Alive, Alone!Alive, Orch!Active, Alone!Active, Orch!Live,
       Alone!Live
  <2>4. LinksOK
    BY DEF IInv, Typed, RestTyped, LinksOK
  <2> QED
    BY <2>1, <2>3, <2>4 DEF TypeOK
<1> QED
  BY <1>1, <1>2, AloneSpec, IInvInit, IInvStep, RestInit, RestStep, PTL
     DEF Spec

\* A card that is mounted is shown in its slot, by the one worker the slot has,
\* and unless that worker has been told to stop it is the card the orchestrator
\* was last told of there.
MountedIsReported ==
    \A w \in Workers : mount[w] \in Orch!Live =>
        /\ status[slotOf[w]] = w /\ workers[slotOf[w]] = w
        /\ cancelled[w] \/ told[slotOf[w]] = cardOf[w]

\* App's strengthened invariant, in the appliance.
LEMMA AloneInit == Init => Alone!FullInv
BY OrchParts, SameSteps, Alone!FullInit DEF Init

LEMMA AloneStep == Alone!FullInv /\ [Next]_vars => Alone!FullInv'
BY OrchParts, OrchSteps, SameSteps, Alone!FullStep

\* Nothing is mounted for a job that goes on but the card the orchestrator was
\* last told of in that slot, however cards were swapped and processes
\* restarted.
THEOREM NothingElseIsMounted == Spec => []MountedIsReported
<1>1. Alone!FullInv /\ IInv => MountedIsReported
  <2> SUFFICES ASSUME Alone!FullInv, IInv, NEW w \in Workers,
                      mount[w] \in Orch!Live
               PROVE  /\ status[slotOf[w]] = w /\ workers[slotOf[w]] = w
                      /\ cancelled[w] \/ told[slotOf[w]] = cardOf[w]
    BY DEF MountedIsReported
  <2>1. step[w] \in Alone!Mounted /\ status[slotOf[w]] = w
    BY DEF Alone!FullInv, Alone!IInv, Alone!WorkerInv, Orch!Live, Alone!Live,
           Alone!Mounted, Alone!Showing
  <2>2. step[w] \in Orch!Active
    BY <2>1 DEF Alone!Mounted, Orch!Active
  <2> QED
    BY <2>1, <2>2 DEF IInv, MapInv, GoneIsCancelled, Orch!Serving
<1> QED
  BY <1>1, AloneInit, AloneStep, IInvInit, IInvStep, PTL DEF Spec

\* An insertion is only ever dropped while a worker that has been told to stop,
\* for a card reported gone, still holds the slot: never because of a card
\* whose job goes on.
THEOREM OnlyLeaversAreInTheWay ==
    Spec => [][\A s \in Slots : \A c \in Cards :
                  Ignore(s, c) => /\ workers[s] \in Workers
                                  /\ cancelled[workers[s]]]_vars
<1>1. Alone!FullInv /\ IInv /\ [Next]_vars =>
          [\A s \in Slots : \A c \in Cards :
              Ignore(s, c) => /\ workers[s] \in Workers
                              /\ cancelled[workers[s]]]_vars
  <2> SUFFICES ASSUME Alone!FullInv, IInv, NEW s \in Slots, NEW c \in Cards,
                      Ignore(s, c)
               PROVE  workers[s] \in Workers /\ cancelled[workers[s]]
    OBVIOUS
  <2>1. told[s] = None
    BY InsertedStep DEF IInv, Ignore
  <2>2. workers[s] \in Workers
    BY DEF Ignore, Orch!IgnoreInsert, IInv, Typed
  <2>3. step[workers[s]] \in Orch!Active /\ slotOf[workers[s]] = s
    BY <2>2 DEF Alone!FullInv, Alone!IInv, Alone!OneWorkerPerSlot,
                Alone!Serving, Alone!Active, Orch!Active
  <2>4. cardOf[workers[s]] # None
    BY <2>2, <2>3 DEF IInv, MapInv
  <2> QED
    BY <2>1, <2>2, <2>3, <2>4 DEF IInv, GoneIsCancelled, Orch!Serving
<1> QED
  BY <1>1, AloneInit, AloneStep, IInvInit, IInvStep, PTL DEF Spec

=============================================================================
