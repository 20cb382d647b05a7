------------------------------ MODULE Process -------------------------------
(***************************************************************************)
(* The process: main and run of cmd/cardingest/main.go.  run opens one     *)
(* component after the other, each of which may fail, and defers closing   *)
(* what it has opened; it serves the API (internal/web) while the          *)
(* orchestrator loops; and at the end the deferred calls run, last first,  *)
(* beside the handlers that are still at work.  The requests that save a   *)
(* policy are those of PolicyStore, which this module extends.             *)
(*                                                                         *)
(* Of the orchestrator only this is left: while Run loops jobs start, and  *)
(* Run returns when none is left (App.tla, StopIsClean).                   *)
(***************************************************************************)
EXTENDS PolicyStore, Sequences

CONSTANTS
    Jobs,           \* jobs that may run at once, one per slot
    Reads,          \* GET requests in flight, each used for ever again
    Streams         \* browsers that may hold an event stream open

VARIABLES
    phase,          \* where main is
    defers,         \* run's deferred calls, the next one first
    open,           \* what has been opened and not closed
    server,         \* the HTTP server
    stopping,       \* the signal context is done
    busy,           \* the jobs that run
    call,           \* where each GET request is
    streams,        \* the event streams that are served
    gaveUp,         \* Shutdown's five seconds ran out before the handlers did
    refused         \* a handler has met a closed store (history)

policyVars == <<disk, mem, up, step, doc, tmp, onDisk, crossed>>
serving == <<busy, call, streams, refused>>
processVars == <<phase, defers, open, server, stopping, busy, call, streams,
                 gaveUp, refused>>
allVars == <<policyVars, processVars>>

Components == {"telemetry", "detector", "store"}
Booting == {"environment", "telemetry", "policy", "detector", "mounter",
            "store", "rules", "serve"}

ProcessTypeOK ==
    /\ phase \in Booting \cup {"loop", "drain", "return", "exited"}
    /\ defers \in Seq(Components \cup {"server"})
    /\ open \subseteq Components
    /\ server \in {"none", "listening", "failed", "draining", "closed"}
    /\ stopping \in BOOLEAN
    /\ busy \subseteq Jobs
    /\ call \in [Reads -> {"idle", "entered", "querying", "answering"}]
    /\ streams \subseteq Streams
    /\ gaveUp \in BOOLEAN /\ refused \in BOOLEAN

\* Nothing runs yet.
ProcessInit ==
    /\ Init /\ ~up
    /\ phase = "exited"
    /\ defers = <<>>
    /\ open = {}
    /\ server = "none"
    /\ stopping = FALSE
    /\ busy = {}
    /\ call = [q \in Reads |-> "idle"]
    /\ streams = {}
    /\ gaveUp = FALSE
    /\ refused = FALSE

-----------------------------------------------------------------------------
(* The start.  A step that succeeds goes on to the next; one that fails    *)
(* returns, and the deferred calls run.                                    *)

Goes(from, to) == phase = from /\ phase' = to

Fails(from) == Goes(from, "return") /\ UNCHANGED <<defers, open>>

\* What a step opens, it defers closing.
Opens(c) == open' = open \cup {c} /\ defers' = <<c>> \o defers

\* A new process, by hand or by the container's restart policy.
Launch ==
    /\ Goes("exited", "environment")
    /\ stopping' = FALSE
    /\ gaveUp' = FALSE
    /\ refused' = FALSE
    /\ UNCHANGED <<policyVars, defers, open, server, busy, call, streams>>

\* main: the log level and the environment.  Either may be in error, and then
\* the process exits without having opened anything.
ReadEnvironment ==
    /\ Goes("environment", "telemetry") \/ Goes("environment", "exited")
    /\ UNCHANGED <<policyVars, defers, open, server, stopping, serving, gaveUp>>

\* initTelemetry: when one of the two collectors fails to start, the exporter
\* that is up already has nobody to shut it down.
InitTelemetry ==
    /\ \/ Goes("telemetry", "policy") /\ Opens("telemetry")
       \/ Fails("telemetry")
       \/ Goes("telemetry", "return") /\ open' = open \cup {"telemetry"}
          /\ UNCHANGED defers
    /\ UNCHANGED <<policyVars, server, stopping, serving, gaveUp>>

\* Mutant of LoadPolicy: the file is read and the snapshot not set.
LoadNothing ==
    /\ Goes("policy", "detector")
    /\ up' = TRUE /\ mem' = None /\ crossed' = FALSE
    /\ UNCHANGED <<disk, step, doc, tmp, onDisk>>
    /\ UNCHANGED <<defers, open, server, stopping, serving, gaveUp>>

\* NewStore and Get: a file that does not parse, or cannot be read, is fatal.
LoadPolicy ==
    /\ \/ /\ Goes("policy", "detector")
          /\ disk # Torn
          /\ up' = TRUE /\ mem' = disk /\ crossed' = FALSE
          /\ UNCHANGED <<disk, step, doc, tmp, onDisk>>
          /\ UNCHANGED <<defers, open>>
       \/ Fails("policy") /\ UNCHANGED policyVars
    /\ UNCHANGED <<server, stopping, serving, gaveUp>>

\* detect.New: the real detector exists on Linux only.
NewDetector ==
    /\ \/ Goes("detector", "mounter") /\ Opens("detector")
       \/ Fails("detector")
    /\ UNCHANGED <<policyVars, server, stopping, serving, gaveUp>>

\* mounter.New, which opens nothing.
NewMounter ==
    /\ \/ Goes("mounter", "store") /\ UNCHANGED <<defers, open>>
       \/ Fails("mounter")
    /\ UNCHANGED <<policyVars, server, stopping, serving, gaveUp>>

\* Mutant of OpenStore: nobody closes the database.
OpenStoreOnly ==
    /\ Goes("store", "rules") /\ open' = open \cup {"store"}
    /\ UNCHANGED <<policyVars, defers, server, stopping, serving, gaveUp>>

\* OpenSQLite, which closes the database itself when the schema fails.
OpenStore ==
    /\ \/ Goes("store", "rules") /\ Opens("store")
       \/ Fails("store")
    /\ UNCHANGED <<policyVars, server, stopping, serving, gaveUp>>

\* rules.Compile of the policy read at the start.  The destination directory
\* and the notifiers before and after it only warn.
CompileRules ==
    /\ \/ mem \in Policies \cup {None} /\ Goes("rules", "serve")
       \/ mem \notin Policies \cup {None} /\ Goes("rules", "return")
    /\ UNCHANGED <<policyVars, defers, open, server, stopping, serving, gaveUp>>

\* The server's goroutine: a port that cannot be bound is only logged, and
\* cards are ingested without an API.
Serve ==
    /\ Goes("serve", "loop")
    /\ server' \in {"listening", "failed"}
    /\ defers' = <<"server">> \o defers
    /\ UNCHANGED <<policyVars, open, stopping, serving, gaveUp>>

Boot ==
    \/ ReadEnvironment \/ InitTelemetry \/ LoadPolicy \/ NewDetector
    \/ NewMounter \/ OpenStore \/ CompileRules \/ Serve

-----------------------------------------------------------------------------
(* The orchestrator.  The signal may come at any time; nothing but Run     *)
(* looks at it, so that a process told to stop while it starts does start. *)

Signal ==
    /\ phase # "exited" /\ ~stopping
    /\ stopping' = TRUE
    /\ UNCHANGED <<policyVars, phase, defers, open, server, serving, gaveUp>>

StartJob(j) ==
    /\ phase = "loop" /\ j \notin busy
    /\ busy' = busy \cup {j}
    /\ UNCHANGED <<policyVars, phase, defers, open, server, stopping, call,
                   streams, gaveUp, refused>>

EndJob(j) ==
    /\ j \in busy
    /\ busy' = busy \ {j}
    /\ UNCHANGED <<policyVars, phase, defers, open, server, stopping, call,
                   streams, gaveUp, refused>>

Drain ==
    /\ stopping
    /\ Goes("loop", "drain")
    /\ UNCHANGED <<policyVars, defers, open, server, stopping, serving, gaveUp>>

\* Mutant of RunReturns: Run does not wait for its workers.
RunReturnsAtOnce ==
    /\ Goes("drain", "return")
    /\ UNCHANGED <<policyVars, defers, open, server, stopping, serving, gaveUp>>

RunReturns ==
    /\ busy = {}
    /\ Goes("drain", "return")
    /\ UNCHANGED <<policyVars, defers, open, server, stopping, serving, gaveUp>>

-----------------------------------------------------------------------------
(* The handlers.  New requests are served while the server listens; those  *)
(* that are under way go on until they are done or the process is gone.    *)

\* PutConfig, then the steps of Save.
Put(r) == server = "listening" /\ PutConfig(r) /\ UNCHANGED processVars

SaveStep(r) == Save(r) /\ UNCHANGED processVars

\* GetJobs and GetStats enter, query the store and answer.  GetStatus and
\* GetConfig do the same without the query.
Enter(q) ==
    /\ server = "listening"
    /\ call[q] = "idle"
    /\ call' = [call EXCEPT ![q] = "entered"]
    /\ UNCHANGED <<policyVars, phase, defers, open, server, stopping, busy,
                   streams, gaveUp, refused>>

Query(q) ==
    /\ call[q] = "entered"
    /\ \/ /\ "store" \in open
          /\ call' = [call EXCEPT ![q] = "querying"]
          /\ UNCHANGED refused
       \/ /\ "store" \notin open
          /\ call' = [call EXCEPT ![q] = "answering"]
          /\ refused' = TRUE
       \/ /\ call' = [call EXCEPT ![q] = "answering"]
          /\ UNCHANGED refused
    /\ UNCHANGED <<policyVars, phase, defers, open, server, stopping, busy,
                   streams, gaveUp>>

Fetch(q) ==
    /\ call[q] = "querying"
    /\ call' = [call EXCEPT ![q] = "answering"]
    /\ UNCHANGED <<policyVars, phase, defers, open, server, stopping, busy,
                   streams, gaveUp, refused>>

\* The answer is read by a client, who need not do so.
Answer(q) ==
    /\ call[q] = "answering"
    /\ call' = [call EXCEPT ![q] = "idle"]
    /\ UNCHANGED <<policyVars, phase, defers, open, server, stopping, busy,
                   streams, gaveUp, refused>>

\* An event stream ends with its connection, never with the signal.
Connect(b) ==
    /\ server = "listening"
    /\ b \notin streams
    /\ streams' = streams \cup {b}
    /\ UNCHANGED <<policyVars, phase, defers, open, server, stopping, busy,
                   call, gaveUp, refused>>

Disconnect(b) ==
    /\ b \in streams
    /\ streams' = streams \ {b}
    /\ UNCHANGED <<policyVars, phase, defers, open, server, stopping, busy,
                   call, gaveUp, refused>>

Handlers ==
    \/ \E r \in Requests : Put(r) \/ SaveStep(r)
    \/ \E q \in Reads : Enter(q) \/ Query(q) \/ Fetch(q) \/ Answer(q)
    \/ \E b \in Streams : Connect(b) \/ Disconnect(b)

-----------------------------------------------------------------------------
(* The end.                                                                *)

Defers(c) == phase = "return" /\ defers # <<>> /\ Head(defers) = c

HandlersIdle ==
    /\ \A r \in Requests : step[r] = "idle"
    /\ \A q \in Reads : call[q] = "idle"
    /\ streams = {}

\* Shutdown closes the listener and waits for the handlers ...
StopListening ==
    /\ Defers("server")
    /\ server \in {"listening", "failed"}
    /\ server' = "draining"
    /\ UNCHANGED <<policyVars, phase, defers, open, stopping, serving, gaveUp>>

HandlersDone ==
    /\ Defers("server") /\ server = "draining"
    /\ HandlersIdle
    /\ server' = "closed"
    /\ defers' = Tail(defers)
    /\ UNCHANGED <<policyVars, phase, open, stopping, serving, gaveUp>>

\* Mutant of TimeOut: Shutdown with a context that never ends.
NoTimeOut == FALSE

\* ... for five seconds.
TimeOut ==
    /\ Defers("server") /\ server = "draining"
    /\ ~HandlersIdle
    /\ gaveUp' = TRUE
    /\ server' = "closed"
    /\ defers' = Tail(defers)
    /\ UNCHANGED <<policyVars, phase, open, stopping, serving>>

\* Close of the database lets the queries finish that have begun, and refuses
\* new ones.
CloseStore ==
    /\ Defers("store")
    /\ \A q \in Reads : call[q] # "querying"
    /\ open' = open \ {"store"}
    /\ defers' = Tail(defers)
    /\ UNCHANGED <<policyVars, phase, server, stopping, serving, gaveUp>>

CloseDetector ==
    /\ Defers("detector")
    /\ open' = open \ {"detector"}
    /\ defers' = Tail(defers)
    /\ UNCHANGED <<policyVars, phase, server, stopping, serving, gaveUp>>

\* The shutdown of the telemetry is given the signal context, which may be done
\* by then.  It may fail, and its error is dropped.
ShutdownTelemetry ==
    /\ Defers("telemetry")
    /\ open' \in {open \ {"telemetry"}, open}
    /\ defers' = Tail(defers)
    /\ UNCHANGED <<policyVars, phase, server, stopping, serving, gaveUp>>

\* Whatever still runs ends with the process.
Ends ==
    /\ phase' = "exited"
    /\ defers' = <<>> /\ open' = {} /\ server' = "none"
    /\ busy' = {} /\ call' = [q \in Reads |-> "idle"] /\ streams' = {}
    /\ UNCHANGED <<stopping, gaveUp, refused>>
    /\ IF up THEN Stop ELSE UNCHANGED policyVars

Exit == phase = "return" /\ defers = <<>> /\ Ends

Crash == phase # "exited" /\ Ends

Close ==
    \/ StopListening \/ HandlersDone \/ TimeOut
    \/ CloseStore \/ CloseDetector \/ ShutdownTelemetry

Main == Boot \/ Drain \/ RunReturns \/ Close \/ Exit

ProcessNext ==
    \/ Launch \/ Main \/ Signal \/ Crash \/ Handlers
    \/ \E j \in Jobs : StartJob(j) \/ EndJob(j)

ProcessSpec == ProcessInit /\ [][ProcessNext]_allVars

\* The main goroutine is scheduled and its timer fires, jobs end (App.tla,
\* Ingest.tla) and so do queries.  Clients need not read, nor leave.
ProcessFairness ==
    /\ WF_allVars(Main)
    /\ \A j \in Jobs : WF_allVars(EndJob(j))
    /\ \A q \in Reads : WF_allVars(Fetch(q))

ProcessFairSpec == ProcessSpec /\ ProcessFairness

-----------------------------------------------------------------------------
(* Properties.                                                             *)

\* The database is there for whoever was promised it: no job ever runs
\* without it, and a handler meets it closed only when the server's shutdown
\* had to give up on the handlers.
StoreOutlivesItsUsers ==
    /\ busy # {} => "store" \in open
    /\ refused => gaveUp

\* However far the start came, and however the process ends short of a crash,
\* the database and the detector have been closed if they were opened.  No such
\* promise is made of the telemetry: initTelemetry may fail halfway, and its
\* shutdown may fail.
ReleasesAll ==
    phase = "return" /\ defers = <<>> => open \subseteq {"telemetry"}

\* A signal ends the process, whoever holds a connection open and whatever
\* requests are under way.
SignalEnds == stopping /\ phase # "exited" ~> phase = "exited"

\* The process treats the policy as PolicyStore says, of which the theorems
\* are proved: the snapshot is loaded once, before anything is served, and
\* changes by whole saves only.
KeepsPolicy == Spec

=============================================================================
