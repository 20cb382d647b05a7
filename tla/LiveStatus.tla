----------------------------- MODULE LiveStatus -----------------------------
(***************************************************************************)
(* The live state of the slots on its way to the browsers: setStatus of    *)
(* internal/app/app.go, the hub of internal/events/hub.go and one handler  *)
(* of internal/web/sse.go per connected browser.                           *)
(*                                                                         *)
(* A status event carries a snapshot of all slots, taken after the change  *)
(* it announces and published after that, each step under a lock of its    *)
(* own.  Only status events are modelled: the others share the buffers and *)
(* are lost like them, and nothing the browser shows of a slot's state     *)
(* depends on them.                                                        *)
(***************************************************************************)
EXTENDS Naturals, Sequences, FiniteSets

CONSTANTS
    Slots,
    Clients,        \* connections of browsers, each used for ever again
    Buffer,         \* capacity of a subscriber's channel (64 in hub.go)
    None

ASSUME BufferPositive == Buffer \in Nat \ {0}

VARIABLES
    statuses,       \* App.statuses; None before the first job of a slot
    pub,            \* where the worker of each slot is in setStatus
    snap,           \* the snapshot its call of Status returned
    subs,           \* Hub.subs
    queue,          \* the channel of each subscriber
    closed,         \* the channel has been closed
    sse,            \* where the handler of each connection is
    gone,           \* its request's context is done
    view,           \* the last snapshot written to the browser, or None
    lagging,        \* the last event for this subscriber was dropped (history)
    old,            \* workers whose snapshot a change has overtaken (history)
    outdated        \* the snapshot published last was an old one (history)

vars == <<statuses, pub, snap, subs, queue, closed, sse, gone, view, lagging,
          old, outdated>>

States == {"idle", "ingesting"}
Snapshots == [Slots -> States \cup {None}]

TypeOK ==
    /\ statuses \in Snapshots
    /\ pub \in [Slots -> {"rest", "stored", "snapped"}]
    /\ snap \in [Slots -> Snapshots \cup {None}]
    /\ subs \subseteq Clients
    /\ queue \in [Clients -> Seq(Snapshots)]
    /\ \A c \in Clients : Len(queue[c]) <= Buffer
    /\ closed \in [Clients -> BOOLEAN]
    /\ sse \in [Clients -> {"away", "streaming", "leaving"}]
    /\ gone \in [Clients -> BOOLEAN]
    /\ view \in [Clients -> Snapshots \cup {None}]
    /\ lagging \in [Clients -> BOOLEAN]
    /\ old \subseteq Slots /\ outdated \in BOOLEAN

Init ==
    /\ statuses = [s \in Slots |-> None]
    /\ pub = [s \in Slots |-> "rest"]
    /\ snap = [s \in Slots |-> None]
    /\ subs = {}
    /\ queue = [c \in Clients |-> <<>>]
    /\ closed = [c \in Clients |-> FALSE]
    /\ sse = [c \in Clients |-> "away"]
    /\ gone = [c \in Clients |-> FALSE]
    /\ view = [c \in Clients |-> None]
    /\ lagging = [c \in Clients |-> FALSE]
    /\ old = {} /\ outdated = FALSE

hub == <<subs, queue, closed, lagging>>
browser == <<sse, gone, view>>
history == <<old, outdated>>

-----------------------------------------------------------------------------
(* A worker, from setStatus on: one worker per slot (see App).             *)

Snapped == {s \in Slots : pub[s] = "snapped"}

\* Mutant of Store: the snapshot is taken before the change is made.
StoreAfterStatus(s, state) ==
    /\ pub[s] = "rest"
    /\ statuses[s] # state
    /\ snap' = [snap EXCEPT ![s] = statuses]
    /\ statuses' = [statuses EXCEPT ![s] = state]
    /\ pub' = [pub EXCEPT ![s] = "snapped"]
    /\ old' = Snapped
    /\ UNCHANGED <<hub, browser, outdated>>

\* The assignment under App.mu.  A slot alternates between its two states.
Store(s, state) ==
    /\ pub[s] = "rest"
    /\ statuses[s] # state
    /\ statuses[s] = None => state = "ingesting"
    /\ statuses' = [statuses EXCEPT ![s] = state]
    /\ pub' = [pub EXCEPT ![s] = "stored"]
    /\ old' = Snapped
    /\ UNCHANGED <<snap, hub, browser, outdated>>

\* Status, under App.mu again.
Status(s) ==
    /\ pub[s] = "stored"
    /\ snap' = [snap EXCEPT ![s] = statuses]
    /\ pub' = [pub EXCEPT ![s] = "snapped"]
    /\ UNCHANGED <<statuses, hub, browser, history>>

Full(c) == Len(queue[c]) = Buffer

\* Mutant of Publish: it waits for room in every channel.
PublishBlocking(s) ==
    /\ pub[s] = "snapped"
    /\ \A c \in subs : ~Full(c)
    /\ queue' = [c \in Clients |->
                   IF c \in subs THEN Append(queue[c], snap[s]) ELSE queue[c]]
    /\ lagging' = [c \in Clients |-> lagging[c] /\ c \notin subs]
    /\ pub' = [pub EXCEPT ![s] = "rest"]
    /\ snap' = [snap EXCEPT ![s] = None]
    /\ outdated' = (s \in old) /\ old' = old \ {s}
    /\ UNCHANGED <<statuses, subs, closed, browser>>

\* Publish, under Hub.mu: every subscriber gets the event, or loses it when
\* its channel is full.
Publish(s) ==
    /\ pub[s] = "snapped"
    /\ queue' = [c \in Clients |->
                   IF c \in subs /\ ~Full(c) THEN Append(queue[c], snap[s])
                                             ELSE queue[c]]
    /\ lagging' = [c \in Clients |->
                     IF c \in subs THEN Full(c) ELSE lagging[c]]
    /\ pub' = [pub EXCEPT ![s] = "rest"]
    /\ snap' = [snap EXCEPT ![s] = None]
    /\ outdated' = (s \in old) /\ old' = old \ {s}
    /\ UNCHANGED <<statuses, subs, closed, browser>>

-----------------------------------------------------------------------------
(* A connection.                                                           *)

\* The handler subscribes: a new channel, and a page that shows nothing yet.
Subscribe(c) ==
    /\ sse[c] = "away"
    /\ subs' = subs \cup {c}
    /\ queue' = [queue EXCEPT ![c] = <<>>]
    /\ closed' = [closed EXCEPT ![c] = FALSE]
    /\ lagging' = [lagging EXCEPT ![c] = FALSE]
    /\ sse' = [sse EXCEPT ![c] = "streaming"]
    /\ gone' = [gone EXCEPT ![c] = FALSE]
    /\ view' = [view EXCEPT ![c] = None]
    /\ UNCHANGED <<statuses, pub, snap, history>>

\* An event is taken from the channel and written to a browser that is there.
Receive(c) ==
    /\ sse[c] = "streaming"
    /\ ~gone[c]
    /\ queue[c] # <<>>
    /\ view' = [view EXCEPT ![c] = Head(queue[c])]
    /\ queue' = [queue EXCEPT ![c] = Tail(@)]
    /\ UNCHANGED <<statuses, pub, snap, subs, closed, lagging, sse, gone,
                  history>>

\* The browser goes away, or its connection breaks.
Disconnect(c) ==
    /\ sse[c] = "streaming"
    /\ ~gone[c]
    /\ gone' = [gone EXCEPT ![c] = TRUE]
    /\ UNCHANGED <<statuses, pub, snap, hub, sse, view, history>>

\* Mutants of Leave: the channel is closed before it is taken out of the map;
\* the handler returns without its deferred cancel.
LeaveClosing(c) ==
    /\ sse[c] = "streaming"
    /\ gone[c]
    /\ closed' = [closed EXCEPT ![c] = TRUE]
    /\ sse' = [sse EXCEPT ![c] = "leaving"]
    /\ UNCHANGED <<statuses, pub, snap, subs, queue, lagging, gone, view,
                  history>>

LeaveForgetting(c) ==
    /\ sse[c] = "streaming"
    /\ gone[c]
    /\ sse' = [sse EXCEPT ![c] = "leaving"]
    /\ UNCHANGED <<statuses, pub, snap, hub, gone, view, history>>

\* The handler sees the context done, or a write fails; it returns, and the
\* deferred cancel takes the channel out of the map, under Hub.mu ...
Leave(c) ==
    /\ sse[c] = "streaming"
    /\ gone[c]
    /\ subs' = subs \ {c}
    /\ sse' = [sse EXCEPT ![c] = "leaving"]
    /\ UNCHANGED <<statuses, pub, snap, queue, closed, lagging, gone, view,
                  history>>

\* ... and closes it, outside the lock.
CloseChannel(c) ==
    /\ sse[c] = "leaving"
    /\ closed' = [closed EXCEPT ![c] = TRUE]
    /\ sse' = [sse EXCEPT ![c] = "away"]
    /\ UNCHANGED <<statuses, pub, snap, subs, queue, lagging, gone, view,
                  history>>

SetStatus(s) ==
    (\E state \in States : Store(s, state)) \/ Status(s) \/ Publish(s)

Handle(c) ==
    Subscribe(c) \/ Receive(c) \/ Disconnect(c) \/ Leave(c) \/ CloseChannel(c)

Next == (\E s \in Slots : SetStatus(s)) \/ (\E c \in Clients : Handle(c))

Spec == Init /\ [][Next]_vars

\* Workers and handlers are scheduled; nothing is assumed of browsers, which
\* need not read.
Fairness ==
    /\ \A s \in Slots : WF_vars(Status(s) \/ Publish(s))
    /\ \A c \in Clients : WF_vars(Leave(c) \/ CloseChannel(c))

FairSpec == Spec /\ Fairness

-----------------------------------------------------------------------------
(* Properties.                                                             *)

\* Publish never sends on a closed channel, which would panic the process in
\* the middle of a job: cancel takes the channel out of the map first.
NeverSendsOnClosed == \A c \in subs : ~closed[c]

\* A connection that is gone gives its subscription back, also when nothing is
\* published any more.
UnsubscribedWhenGone ==
    \A c \in Clients : gone[c] ~> (c \notin subs)

\* However slow the browsers are, a job is never held up by them.
NeverStalls == \A s \in Slots : pub[s] # "rest" ~> pub[s] = "rest"

Newest(c) == IF queue[c] = <<>> THEN view[c] ELSE queue[c][Len(queue[c])]

\* What a browser is shown in the end is the truth: with no change under way,
\* the newest snapshot a subscriber has, or has still to read, is the state
\* of the slots, unless the hub dropped its last event or it has had none.  It
\* takes two slots at once to break this, one that changes and publishes while
\* the other, with its snapshot taken, has still to publish.
ShowsTheTruth ==
    \A c \in subs :
        /\ \A s \in Slots : pub[s] = "rest"
        /\ ~outdated /\ ~lagging[c] /\ Newest(c) # None
        => Newest(c) = statuses

=============================================================================
