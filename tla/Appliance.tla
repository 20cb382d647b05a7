----------------------------- MODULE Appliance -----------------------------
(***************************************************************************)
(* Detector and orchestrator together, joined as in main.go by the event   *)
(* channel: it is unbuffered, so that sending an event and handling it are *)
(* one step of both.  Cards move while polls, workers and the shutdown go  *)
(* their own pace.                                                         *)
(***************************************************************************)
EXTENDS Naturals, FiniteSets

CONSTANTS Slots, Cards, Serials, SerialOf, Workers, Recording, Alerting, None

ASSUME NoneIsNothing == None \notin Cards \cup Workers
ASSUME PartsTyped ==
    /\ SerialOf \in [Slots -> [Cards -> Serials]]
    /\ IsFiniteSet(Workers)
    /\ Recording \in BOOLEAN /\ Alerting \in BOOLEAN

VARIABLES
    inSlot, last, present, pending, removals, insertions, told, open,
    run, stopping, workers, wg, status, step, slotOf, cancelled, mount, row,
    alerted,
    cardOf,         \* the card whose insertion started a worker
    accepted        \* the last insertion reported in a slot started a worker

detVars == <<inSlot, last, present, pending, removals, insertions, told, open>>
appVars == <<run, stopping, workers, wg, status, step, slotOf, cancelled,
             mount, row, alerted>>
links == <<cardOf, accepted>>
vars == <<detVars, appVars, links>>

Det == INSTANCE Detector
Orch == INSTANCE App

LinksOK ==
    /\ cardOf \in [Workers -> Cards \cup {None}]
    /\ accepted \in [Slots -> BOOLEAN]

TypeOK == Det!TypeOK /\ Orch!TypeOK /\ LinksOK

Init ==
    /\ Det!Init
    /\ Orch!Init
    /\ cardOf = [w \in Workers |-> None]
    /\ accepted = [s \in Slots |-> FALSE]

\* A removal comes out of the channel: handle calls stopWorker.
Removed(s) ==
    /\ Det!SendRemoved(s)
    /\ Orch!StopWorker(s)
    /\ UNCHANGED links

\* An insertion comes out of the channel: handle calls startWorker, which
\* starts a worker for the card or drops the event.
Accept(s, c) ==
    /\ Det!SendInserted(s, c)
    /\ Orch!StartWorker(s)
    /\ cardOf' = [w \in Workers |->
                    IF workers'[s] = w THEN c ELSE cardOf[w]]
    /\ accepted' = [accepted EXCEPT ![s] = TRUE]

Ignore(s, c) ==
    /\ Det!SendInserted(s, c)
    /\ Orch!IgnoreInsert(s)
    /\ accepted' = [accepted EXCEPT ![s] = FALSE]
    /\ UNCHANGED cardOf

Event ==
    \E s \in Slots :
        Removed(s) \/ \E c \in Cards : Accept(s, c) \/ Ignore(s, c)

Move == Det!Move /\ UNCHANGED <<appVars, links>>
Poll == Det!Poll /\ UNCHANGED <<appVars, links>>
CleanPoll == Det!CleanPoll /\ UNCHANGED <<appVars, links>>

\* The detector's goroutine sees the context done.
Close == stopping /\ Det!Close /\ UNCHANGED <<appVars, links>>

Signal == Orch!Signal /\ UNCHANGED <<detVars, links>>
Shutdown == Orch!Shutdown /\ UNCHANGED <<detVars, links>>
Wait == Orch!Wait /\ UNCHANGED <<detVars, links>>
Work(w) == Orch!Work(w) /\ UNCHANGED <<detVars, links>>

\* A new process: the tracker starts empty, and so reports every card that
\* is still in a slot again.
Restart ==
    /\ Orch!Restart
    /\ last' = [s \in Slots |-> None]
    /\ present' = last' /\ pending' = last' /\ told' = last'
    /\ removals' = {} /\ insertions' = {}
    /\ open' = TRUE
    /\ accepted' = [s \in Slots |-> FALSE]
    /\ UNCHANGED <<inSlot, cardOf>>

Next ==
    \/ Move \/ Poll \/ Event \/ Close \/ Signal \/ Shutdown \/ Wait \/ Restart
    \/ \E w \in Workers : Work(w)

Spec == Init /\ [][Next]_vars

\* Enumerations do not miss a card every time; goroutines are scheduled and
\* what they call returns; the selects of Run and of the detector take a
\* context that stays done in the end.
Fairness ==
    /\ WF_vars(CleanPoll) /\ WF_vars(Event) /\ WF_vars(Close)
    /\ WF_vars(Shutdown) /\ WF_vars(Wait)
    /\ \A w \in Workers : WF_vars(Work(w))

FairSpec == Spec /\ Fairness

-----------------------------------------------------------------------------
(* Properties.                                                             *)

\* A worker whose card has been reported gone, also by a swap between
\* two polls, has been told to stop: no job goes on uncancelled behind
\* another card's back.
GoneIsCancelled ==
    \A s \in Slots : \A w \in Workers :
        Orch!Serving(w, s) /\ ~cancelled[w] => told[s] = cardOf[w]

\* A worker that was started gives its slot back, whatever becomes of its card
\* and of the process.
SlotComesBack == \A s \in Slots : workers[s] # None ~> workers[s] = None

\* Once the process has been told to stop, it stops, also when the detector
\* is waiting to hand over an event nobody will take.
StopEnds == stopping ~> (~stopping \/ (run = "stopped" /\ ~open))

\* What the appliance is for ("detects cards inserted ... copies wanted
\* files"): a card that stays in its slot, reported, is not left without a
\* job for ever.
InsertedIsServed ==
    \A s \in Slots :
        []<>(told[s] = None \/ accepted[s] \/ run # "looping")

=============================================================================
