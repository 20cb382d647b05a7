------------------------------ MODULE Detector ------------------------------
(***************************************************************************)
(* Card detection: the poll loop of internal/detect/poll.go, its tracker   *)
(* (state.go) and what the Linux enumerator (detect_linux.go) can report.  *)
(*                                                                         *)
(* A device is modelled by the card it holds; its Serial, the only thing   *)
(* the tracker compares, is what the enumerator reads for that card in     *)
(* that slot.  Cards move at any time, also between two polls; an          *)
(* enumeration may miss a card that is there.                              *)
(***************************************************************************)
EXTENDS Naturals, FiniteSets

CONSTANTS
    Slots,          \* ports of allowlisted readers
    Cards,
    Serials,
    SerialOf,       \* the serial the enumerator reads: of a card in a slot
    None

ASSUME SerialTyped ==
    /\ SerialOf \in [Slots -> [Cards -> Serials]]
    /\ None \notin Cards

VARIABLES
    inSlot,         \* the card physically in each slot, or None
    last,           \* the last successful snapshot (history)
    present,        \* tracker.present: reported inserted, awaiting removal
    pending,        \* tracker.pending: seen once
    removals,       \* events of the last reconcile still to be sent:
    insertions,     \*   removals come before insertions in its slice
    told,           \* the card last reported to the orchestrator in a slot
    open            \* the event channel is open

vars == <<inSlot, last, present, pending, removals, insertions, told, open>>

Devices == [Slots -> Cards \cup {None}]
Event == [slot : Slots, card : Cards]

SameSerial(s, c, d) == SerialOf[s][c] = SerialOf[s][d]

TypeOK ==
    /\ inSlot \in Devices /\ last \in Devices /\ told \in Devices
    /\ present \in Devices /\ pending \in Devices
    /\ removals \subseteq Event /\ insertions \subseteq Event
    /\ open \in BOOLEAN

Init ==
    /\ inSlot \in {d \in Devices : \A s, t \in Slots :
                      d[s] # None /\ d[s] = d[t] => s = t}
    /\ last = [s \in Slots |-> None]
    /\ present = last /\ pending = last /\ told = last
    /\ removals = {} /\ insertions = {}
    /\ open = TRUE

-----------------------------------------------------------------------------
(* The user.                                                               *)

Insert(s, c) ==
    /\ inSlot[s] = None
    /\ \A t \in Slots : inSlot[t] # c
    /\ inSlot' = [inSlot EXCEPT ![s] = c]
    /\ UNCHANGED <<last, present, pending, removals, insertions, told, open>>

Pull(s) ==
    /\ inSlot[s] # None
    /\ inSlot' = [inSlot EXCEPT ![s] = None]
    /\ UNCHANGED <<last, present, pending, removals, insertions, told, open>>

-----------------------------------------------------------------------------
(* The detector's goroutine.                                               *)

\* What an enumeration may return: the card of every slot, except that a slot
\* whose link, attributes or size cannot be read is left out, as all are when
\* the by-path directory is missing.
Snapshots ==
    {snap \in Devices : \A s \in Slots : snap[s] \in {inSlot[s], None}}

\* tracker.reconcile: who is removed, who is confirmed, who is seen once.
\* Mutant of Gone: the serial is not compared.
GoneVanished(s, snap) == present[s] # None /\ snap[s] = None

Gone(s, snap) ==
    /\ present[s] # None
    /\ snap[s] = None \/ ~SameSerial(s, snap[s], present[s])

\* Mutant of Known: the check for what has been reported is left out.
KnownNever(s, snap) == FALSE

Known(s, snap) == present[s] # None /\ ~Gone(s, snap)

\* Mutant of Confirmed: the first sighting is enough.
ConfirmedAtOnce(s, snap) == snap[s] # None /\ ~Known(s, snap)

Confirmed(s, snap) ==
    /\ snap[s] # None
    /\ ~Known(s, snap)
    /\ pending[s] # None
    /\ SameSerial(s, snap[s], pending[s])

Reconcile(snap) ==
    /\ removals' = {[slot |-> s, card |-> present[s]] :
                       s \in {t \in Slots : Gone(t, snap)}}
    /\ insertions' = {[slot |-> s, card |-> snap[s]] :
                         s \in {t \in Slots : Confirmed(t, snap)}}
    /\ present' = [s \in Slots |->
          CASE Known(s, snap)     -> present[s]
            [] Confirmed(s, snap) -> snap[s]
            [] OTHER              -> None]
    /\ pending' = [s \in Slots |->
          IF Known(s, snap) \/ Confirmed(s, snap) THEN None ELSE snap[s]]

\* Mutant of Tick: polls go on while events wait, and replace them.
TickWhileSending(snap) ==
    /\ open
    /\ Reconcile(snap)
    /\ last' = snap
    /\ UNCHANGED <<inSlot, told, open>>

\* A tick.  The goroutine has handed over the events of the tick before; a
\* failed enumeration leaves everything as it was.
Tick(snap) ==
    /\ open
    /\ removals = {} /\ insertions = {}
    /\ Reconcile(snap)
    /\ last' = snap
    /\ UNCHANGED <<inSlot, told, open>>

Poll == \E snap \in Snapshots : Tick(snap)

\* A tick at which the enumeration misses nothing.
CleanPoll == Tick(inSlot)

SendRemoved(s) ==
    /\ open
    /\ \E ev \in removals : ev.slot = s /\ removals' = removals \ {ev}
    /\ told' = [told EXCEPT ![s] = None]
    /\ UNCHANGED <<inSlot, last, present, pending, insertions, open>>

SendInserted(s, c) ==
    /\ open
    /\ removals = {}
    /\ [slot |-> s, card |-> c] \in insertions
    /\ insertions' = insertions \ {[slot |-> s, card |-> c]}
    /\ told' = [told EXCEPT ![s] = c]
    /\ UNCHANGED <<inSlot, last, present, pending, removals, open>>

\* The context is done: the channel is closed, events not sent are lost.
Close ==
    /\ open
    /\ open' = FALSE
    /\ removals' = {} /\ insertions' = {}
    /\ UNCHANGED <<inSlot, last, present, pending, told>>

Send ==
    \E s \in Slots : SendRemoved(s) \/ \E c \in Cards : SendInserted(s, c)

Move == \E s \in Slots : Pull(s) \/ \E c \in Cards : Insert(s, c)

Next == Move \/ Poll \/ Send \/ Close

Spec == Init /\ [][Next]_vars

\* The ticker ticks, enumerations come back and do not miss a card every time;
\* the orchestrator takes events off the channel.
Fairness == WF_vars(CleanPoll) /\ WF_vars(Send)

FairSpec == Spec /\ Fairness

-----------------------------------------------------------------------------
(* Properties.                                                             *)

\* The tracker's two maps split the last snapshot between them: nothing seen
\* is forgotten, nothing is kept that was not seen, and no slot is in both.
\* (What present holds may be another card with the same serial.)
TracksLast ==
    \A s \in Slots :
        /\ present[s] = None \/ pending[s] = None
        /\ last[s] = None <=> present[s] = None /\ pending[s] = None
        /\ last[s] # None =>
              \E d \in {present[s], pending[s]} \ {None} :
                  SameSerial(s, d, last[s])

\* Debounce: an insertion is only reported for a device that two consecutive
\* snapshots saw.
Debounced ==
    [][\A ev \in insertions' \ insertions :
          /\ last[ev.slot] # None
          /\ last'[ev.slot] = ev.card
          /\ SameSerial(ev.slot, last[ev.slot], ev.card)]_vars

\* What the orchestrator has been told and what is still on its way to it add
\* up to what the tracker believes, with never two events under way for one
\* slot: a swap is a removal now and an insertion no sooner than the next tick.
InFlight ==
    open => \A s \in Slots :
        LET gone == \E ev \in removals : ev.slot = s
            new == \E ev \in insertions : ev.slot = s
        IN  /\ new => /\ ~gone /\ told[s] = None
                      /\ [slot |-> s, card |-> present[s]] \in insertions
            /\ gone => /\ present[s] = None
                       /\ [slot |-> s, card |-> told[s]] \in removals
            /\ ~new /\ ~gone => told[s] = present[s]

\* Reports alternate: removed and inserted in turn, also when a card was
\* swapped between two polls or missed by one.
Feed == INSTANCE CardFeed
Alternates == Feed!Spec

\* Whatever the slot went through before: once every snapshot agrees on what
\* is in it, the orchestrator is told so, for good.
Settles ==
    \A s \in Slots : \A d \in Cards \cup {None} :
        <>[](open /\ last[s] = d) => <>[](told[s] = d)

=============================================================================
