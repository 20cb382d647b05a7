----------------------------- MODULE MockReader -----------------------------
(***************************************************************************)
(* The simulated reader of internal/detect/mock.go, as the handlers        *)
(* DevInsert and DevRemove of internal/web/web.go drive it: a map of what  *)
(* is present, a buffer of events that Insert and Remove fill after they   *)
(* have let go of the lock, and the goroutine of Watch, which hands the    *)
(* events to the orchestrator one by one.  Handlers run concurrently: two  *)
(* calls for one slot may send their events in the other order than they   *)
(* changed the map, which overtaken keeps track of.                        *)
(***************************************************************************)
EXTENDS Naturals, Sequences, FiniteSets

CONSTANTS
    Slots,
    Cards,          \* directories that stand for cards
    Calls,          \* API calls in flight, each used for ever again
    Buffer,         \* capacity of the channel in (32 in mock.go)
    None

VARIABLES
    present,        \* MockDetector.present
    sending,        \* the event each call has still to send, or None
    buffer,         \* the channel in
    relay,          \* the event Watch's goroutine holds, or None
    told,           \* the card last reported to the orchestrator in a slot
    watching,       \* Watch's goroutine runs
    latest,         \* the call that last changed a slot, until it has sent
                    \*   its event, or None (history)
    overtaken       \* slots whose last event sent is not that of their last
                    \*   change (history)

vars == <<present, sending, buffer, relay, told, watching, latest, overtaken>>

Event == [type : {"inserted", "removed"}, slot : Slots, card : Cards]

TypeOK ==
    /\ present \in [Slots -> Cards \cup {None}]
    /\ sending \in [Calls -> Event \cup {None}]
    /\ buffer \in Seq(Event) /\ Len(buffer) <= Buffer
    /\ relay \in Event \cup {None}
    /\ told \in [Slots -> Cards \cup {None}]
    /\ watching \in BOOLEAN
    /\ latest \in [Slots -> Calls \cup {None}]
    /\ overtaken \subseteq Slots

Init ==
    /\ present = [s \in Slots |-> None]
    /\ sending = [a \in Calls |-> None]
    /\ buffer = <<>>
    /\ relay = None
    /\ told = [s \in Slots |-> None]
    /\ watching = TRUE
    /\ latest = [s \in Slots |-> None]
    /\ overtaken = {}

-----------------------------------------------------------------------------
(* The calls.  One that finds its slot occupied, or empty, returns an error *)
(* and changes nothing.                                                    *)

\* Insert, up to the unlock.
Insert(a, s, c) ==
    /\ sending[a] = None
    /\ present[s] = None
    /\ present' = [present EXCEPT ![s] = c]
    /\ sending' = [sending EXCEPT ![a] =
                     [type |-> "inserted", slot |-> s, card |-> c]]
    /\ latest' = [latest EXCEPT ![s] = a]
    /\ UNCHANGED <<buffer, relay, told, watching, overtaken>>

\* Remove, up to the unlock.
Remove(a, s) ==
    /\ sending[a] = None
    /\ present[s] # None
    /\ present' = [present EXCEPT ![s] = None]
    /\ sending' = [sending EXCEPT ![a] =
                     [type |-> "removed", slot |-> s, card |-> present[s]]]
    /\ latest' = [latest EXCEPT ![s] = a]
    /\ UNCHANGED <<buffer, relay, told, watching, overtaken>>

\* The event of a goes out: another call may have changed the slot since.
Overtake(a) ==
    LET s == sending[a].slot
    IN  IF latest[s] = a
        THEN /\ latest' = [latest EXCEPT ![s] = None]
             /\ overtaken' = overtaken \ {s}
        ELSE UNCHANGED latest /\ overtaken' = overtaken \cup {s}

\* Mutant of Send: an event that finds the buffer full is dropped.
SendOrDrop(a) ==
    /\ sending[a] # None
    /\ buffer' = IF Len(buffer) < Buffer THEN Append(buffer, sending[a])
                                         ELSE buffer
    /\ sending' = [sending EXCEPT ![a] = None]
    /\ Overtake(a)
    /\ UNCHANGED <<present, relay, told, watching>>

\* The send, which waits while the buffer is full, and the return.
Send(a) ==
    /\ sending[a] # None
    /\ Len(buffer) < Buffer
    /\ buffer' = Append(buffer, sending[a])
    /\ sending' = [sending EXCEPT ![a] = None]
    /\ Overtake(a)
    /\ UNCHANGED <<present, relay, told, watching>>

-----------------------------------------------------------------------------
(* Watch's goroutine.                                                      *)

Take ==
    /\ watching
    /\ relay = None
    /\ buffer # <<>>
    /\ relay' = Head(buffer)
    /\ buffer' = Tail(buffer)
    /\ UNCHANGED <<present, sending, told, watching, latest, overtaken>>

\* Mutant of HandOver: the loop offers the same event again.
HandOverAgain ==
    /\ watching
    /\ relay # None
    /\ told' = [told EXCEPT ![relay.slot] =
                  IF relay.type = "inserted" THEN relay.card ELSE None]
    /\ UNCHANGED <<present, sending, buffer, relay, watching, latest,
                   overtaken>>

\* The orchestrator takes the event.
HandOver ==
    /\ watching
    /\ relay # None
    /\ told' = [told EXCEPT ![relay.slot] =
                  IF relay.type = "inserted" THEN relay.card ELSE None]
    /\ relay' = None
    /\ UNCHANGED <<present, sending, buffer, watching, latest, overtaken>>

\* The context is done: whatever has not been handed over never will be.
Stop ==
    /\ watching
    /\ watching' = FALSE
    /\ relay' = None
    /\ UNCHANGED <<present, sending, buffer, told, latest, overtaken>>

Call(a) ==
    \E s \in Slots : Remove(a, s) \/ \E c \in Cards : Insert(a, s, c)

Watch == Take \/ HandOver

Next == Watch \/ Stop \/ \E a \in Calls : Call(a) \/ Send(a)

Spec == Init /\ [][Next]_vars

\* The goroutines are scheduled, senders on a channel are served in turn, and
\* the orchestrator takes the events while it loops.
Fairness == WF_vars(Watch) /\ \A a \in Calls : SF_vars(Send(a))

FairSpec == Spec /\ Fairness

-----------------------------------------------------------------------------
(* Properties.                                                             *)

\* While the reader is watched, a call comes back, however full the buffer.
CallsReturn ==
    \A a \in Calls : sending[a] # None ~> (sending[a] = None \/ ~watching)

\* What the orchestrator was told last of a slot is what the reader simulates
\* there, once all calls have returned and their events have been handed over:
\* no event is lost, repeated or told out of the order in which it was sent.
\* A slot is excused only while a call that changed it before another did was
\* the last to send.
ToldUnlessOvertaken ==
    watching /\ buffer = <<>> /\ relay = None
        /\ (\A a \in Calls : sending[a] = None)
        => \A s \in Slots \ overtaken : told[s] = present[s]

=============================================================================
