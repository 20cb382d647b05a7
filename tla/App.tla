-------------------------------- MODULE App --------------------------------
(***************************************************************************)
(* The orchestrator of internal/app/app.go: Run's event loop, the map of   *)
(* workers, one goroutine per accepted insertion with its deferred         *)
(* teardown, the status shown by the API, the job history                  *)
(* (internal/store/jobs.go), the mount of each job (internal/mounter) and  *)
(* the notifications.  What pipeline.Ingest does with the bytes is         *)
(* Ingest.tla; here it returns, with or without an error.                  *)
(*                                                                         *)
(* A worker is one goroutine and one job: Workers bounds how many are ever *)
(* started, over all runs of the process.                                  *)
(***************************************************************************)
EXTENDS Naturals, FiniteSets

CONSTANTS
    Slots,
    Workers,
    Recording,      \* Config.Jobs is set: jobs are recorded
    Alerting,       \* the notifier sends something (it is not Noop)
    None

ASSUME WorkersFinite == IsFiniteSet(Workers) /\ None \notin Workers
ASSUME OptionsTyped == Recording \in BOOLEAN /\ Alerting \in BOOLEAN

VARIABLES
    run,            \* Run: in its loop, in shutdown's wait, or returned
    stopping,       \* Run's context is done
    workers,        \* App.workers: the worker whose cancel is in the map
    wg,             \* App.wg
    status,         \* App.statuses: the job shown as ingesting, or None
    step,           \* where each goroutine is
    slotOf,         \* the slot of the event it was started for
    cancelled,      \* its own cancel function has been called
    mount,          \* its mount; "stuck" when it outlived the unmount
    row,            \* its row in the jobs table
    alerted         \* an error notification has left the machine for it

vars == <<run, stopping, workers, wg, status, step, slotOf, cancelled, mount,
          row, alerted>>

\* The steps between startWorker and finishWorker, and those of a goroutine.
Active == {"start", "announce", "mount", "ingest", "remount", "erase",
           "complete", "fail", "unmount", "idle", "leave"}
Alive == Active \cup {"done"}
Steps == Alive \cup {"new", "gone"}

Live == {"ro", "rw"}

TypeOK ==
    /\ run \in {"looping", "draining", "stopped"}
    /\ stopping \in BOOLEAN
    /\ workers \in [Slots -> Workers \cup {None}]
    /\ wg \in 0 .. Cardinality(Workers)
    /\ status \in [Slots -> Workers \cup {None}]
    /\ step \in [Workers -> Steps]
    /\ slotOf \in [Workers -> Slots \cup {None}]
    /\ cancelled \in [Workers -> BOOLEAN]
    /\ mount \in [Workers -> Live \cup {"none", "stuck"}]
    /\ row \in [Workers -> {"none", "running", "complete", "error"}]
    /\ alerted \in [Workers -> BOOLEAN]

Init ==
    /\ run = "looping"
    /\ stopping = FALSE
    /\ workers = [s \in Slots |-> None]
    /\ wg = 0
    /\ status = [s \in Slots |-> None]
    /\ step = [w \in Workers |-> "new"]
    /\ slotOf = [w \in Workers |-> None]
    /\ cancelled = [w \in Workers |-> FALSE]
    /\ mount = [w \in Workers |-> "none"]
    /\ row = [w \in Workers |-> "none"]
    /\ alerted = [w \in Workers |-> FALSE]

\* A worker's context: its own cancel, or the parent's.
Done(w) == cancelled[w] \/ stopping

-----------------------------------------------------------------------------
(* Run's goroutine.                                                        *)

Free == {w \in Workers : step[w] = "new"}

\* Mutant of StartWorker: the busy check is left out.
StartWorkerAnyway(s) ==
    /\ run = "looping"
    /\ \E w \in Free :
          /\ workers' = [workers EXCEPT ![s] = w]
          /\ step' = [step EXCEPT ![w] = "start"]
          /\ slotOf' = [slotOf EXCEPT ![w] = s]
    /\ wg' = wg + 1
    /\ UNCHANGED <<run, stopping, status, cancelled, mount, row, alerted>>

\* startWorker.
StartWorker(s) ==
    /\ run = "looping"
    /\ workers[s] = None
    /\ \E w \in Free :
          /\ workers' = [workers EXCEPT ![s] = w]
          /\ step' = [step EXCEPT ![w] = "start"]
          /\ slotOf' = [slotOf EXCEPT ![w] = s]
    /\ wg' = wg + 1
    /\ UNCHANGED <<run, stopping, status, cancelled, mount, row, alerted>>

\* startWorker, "slot busy, ignoring insert": the event is dropped.
IgnoreInsert(s) ==
    /\ run = "looping"
    /\ workers[s] # None
    /\ UNCHANGED vars

\* stopWorker: cancels, and leaves the map entry to finishWorker.  The mutant
\* leaves the cancelling to finishWorker as well.
StopWorkerLater(s) == run = "looping" /\ UNCHANGED vars

StopWorker(s) ==
    /\ run = "looping"
    /\ cancelled' = [w \in Workers |-> cancelled[w] \/ workers[s] = w]
    /\ UNCHANGED <<run, stopping, workers, wg, status, step, slotOf, mount,
                   row, alerted>>

HandleInserted(s) == StartWorker(s) \/ IgnoreInsert(s)

\* SIGTERM: the context every worker's context descends from.
Signal ==
    /\ ~stopping
    /\ stopping' = TRUE
    /\ UNCHANGED <<run, workers, wg, status, step, slotOf, cancelled, mount,
                   row, alerted>>

\* shutdown: cancel all, then wait for the wait group.
Shutdown ==
    /\ run = "looping"
    /\ stopping
    /\ run' = "draining"
    /\ cancelled' = [w \in Workers |->
                       cancelled[w] \/ \E s \in Slots : workers[s] = w]
    /\ UNCHANGED <<stopping, workers, wg, status, step, slotOf, mount, row,
                   alerted>>

\* Mutant of Wait: shutdown returns without waiting.
WaitForNobody ==
    /\ run = "draining"
    /\ run' = "stopped"
    /\ UNCHANGED <<stopping, workers, wg, status, step, slotOf, cancelled,
                   mount, row, alerted>>

Wait ==
    /\ run = "draining"
    /\ wg = 0
    /\ run' = "stopped"
    /\ UNCHANGED <<stopping, workers, wg, status, step, slotOf, cancelled,
                   mount, row, alerted>>

-----------------------------------------------------------------------------
(* A worker's goroutine: App.ingest and the deferred calls around it.      *)

Goto(w, next) == step' = [step EXCEPT ![w] = next]

\* emitError: Notify gives up at once when its context is done.  (The
\* notifications of the start and of the completion change nothing here.)
EmitError(w) ==
    alerted' = [alerted EXCEPT ![w] = @ \/ (Alerting /\ ~Done(w))]

\* The store's two writes to the jobs table.
InsertRow(w) == row' = [row EXCEPT ![w] = "running"]
UpdateRow(w, outcome) == row[w] # "none" /\ row' = [row EXCEPT ![w] = outcome]

\* startJob: without a recorder, or when it fails, the job has no row.
StartJob(w) ==
    /\ step[w] = "start"
    /\ \/ UNCHANGED row
       \/ Recording /\ InsertRow(w)
    /\ Goto(w, "announce")
    /\ UNCHANGED <<run, stopping, workers, wg, status, slotOf, cancelled,
                   mount, alerted>>

\* setStatus "ingesting", and the start notification.
Announce(w) ==
    /\ step[w] = "announce"
    /\ status' = [status EXCEPT ![slotOf[w]] = w]
    /\ Goto(w, "mount")
    /\ UNCHANGED <<run, stopping, workers, wg, slotOf, cancelled, mount, row,
                   alerted>>

Mount(w) ==
    /\ step[w] = "mount"
    /\ \/ Goto(w, "ingest") /\ mount' = [mount EXCEPT ![w] = "ro"]
       \/ Goto(w, "fail") /\ UNCHANGED mount
    /\ UNCHANGED <<run, stopping, workers, wg, status, slotOf, cancelled, row,
                   alerted>>

\* pipeline.Ingest returns: an error, something to erase, or nothing.
Ingest(w) ==
    /\ step[w] = "ingest"
    /\ \E next \in {"fail", "remount", "complete"} : Goto(w, next)
    /\ UNCHANGED <<run, stopping, workers, wg, status, slotOf, cancelled,
                   mount, row, alerted>>

Remount(w) ==
    /\ step[w] = "remount"
    /\ \/ Goto(w, "erase") /\ mount' = [mount EXCEPT ![w] = "rw"]
       \/ Goto(w, "fail") /\ UNCHANGED mount
    /\ UNCHANGED <<run, stopping, workers, wg, status, slotOf, cancelled, row,
                   alerted>>

\* Mutant of Erase: an incomplete erase also fails the job.
EraseFailsJob(w) ==
    /\ step[w] = "erase"
    /\ \/ UNCHANGED <<row, alerted>>
       \/ row' = [row EXCEPT ![w] = IF @ = "none" THEN @ ELSE "error"]
          /\ EmitError(w)
    /\ Goto(w, "complete")
    /\ UNCHANGED <<run, stopping, workers, wg, status, slotOf, cancelled,
                   mount>>

\* Erase and Sync: an incomplete erase is notified as an error, and the job
\* completes all the same.
Erase(w) ==
    /\ step[w] = "erase"
    /\ UNCHANGED alerted \/ EmitError(w)
    /\ Goto(w, "complete")
    /\ UNCHANGED <<run, stopping, workers, wg, status, slotOf, cancelled,
                   mount, row>>

\* finishJob: without a row, or when the store fails, nothing is recorded.
FinishJob(w, outcome) == UNCHANGED row \/ UpdateRow(w, outcome)

\* Mutant of Complete: the successful path returns past the unmount.
CompleteNoUnmount(w) ==
    /\ step[w] = "complete"
    /\ FinishJob(w, "complete")
    /\ Goto(w, "idle")
    /\ UNCHANGED <<run, stopping, workers, wg, status, slotOf, cancelled,
                   mount, alerted>>

Complete(w) ==
    /\ step[w] = "complete"
    /\ FinishJob(w, "complete")
    /\ Goto(w, "unmount")
    /\ UNCHANGED <<run, stopping, workers, wg, status, slotOf, cancelled,
                   mount, alerted>>

\* failJob and the return: the unmount is only deferred once mounted.
Fail(w) ==
    /\ step[w] = "fail"
    /\ FinishJob(w, "error")
    /\ EmitError(w)
    /\ Goto(w, IF mount[w] = "none" THEN "idle" ELSE "unmount")
    /\ UNCHANGED <<run, stopping, workers, wg, status, slotOf, cancelled,
                   mount>>

\* The deferred Unmount, which may fail also lazily, and Eject.
Unmount(w) ==
    /\ step[w] = "unmount"
    /\ \E left \in {"none", "stuck"} : mount' = [mount EXCEPT ![w] = left]
    /\ Goto(w, "idle")
    /\ UNCHANGED <<run, stopping, workers, wg, status, slotOf, cancelled, row,
                   alerted>>

\* The deferred setStatus "idle".
SetIdle(w) ==
    /\ step[w] = "idle"
    /\ status' = [status EXCEPT ![slotOf[w]] = None]
    /\ Goto(w, "leave")
    /\ UNCHANGED <<run, stopping, workers, wg, slotOf, cancelled, mount, row,
                   alerted>>

\* Mutant of FinishWorker: cancels without deleting the entry.
FinishWorkerKeeps(w) ==
    /\ step[w] = "leave"
    /\ cancelled' = [v \in Workers |->
                       cancelled[v] \/ workers[slotOf[w]] = v]
    /\ Goto(w, "done")
    /\ UNCHANGED <<run, stopping, workers, wg, status, slotOf, mount, row,
                   alerted>>

\* finishWorker: whatever entry the map has for the slot is cancelled and
\* deleted.
FinishWorker(w) ==
    /\ step[w] = "leave"
    /\ workers' = [workers EXCEPT ![slotOf[w]] = None]
    /\ cancelled' = [v \in Workers |->
                       cancelled[v] \/ workers[slotOf[w]] = v]
    /\ Goto(w, "done")
    /\ UNCHANGED <<run, stopping, wg, status, slotOf, mount, row, alerted>>

\* Mutant of WgDone: a goroutine that ends without wg.Done.
WgNotDone(w) ==
    /\ step[w] = "done"
    /\ Goto(w, "gone")
    /\ UNCHANGED <<run, stopping, workers, wg, status, slotOf, cancelled,
                   mount, row, alerted>>

\* wg.Done.
WgDone(w) ==
    /\ step[w] = "done"
    /\ wg' = wg - 1
    /\ Goto(w, "gone")
    /\ UNCHANGED <<run, stopping, workers, status, slotOf, cancelled, mount,
                   row, alerted>>

Work(w) ==
    \/ StartJob(w) \/ Announce(w) \/ Mount(w) \/ Ingest(w) \/ Remount(w)
    \/ Erase(w) \/ Complete(w) \/ Fail(w) \/ Unmount(w) \/ SetIdle(w)
    \/ FinishWorker(w) \/ WgDone(w)

-----------------------------------------------------------------------------
\* The process ends, by a crash or after Run returned, and is started again:
\* goroutines are gone, the table keeps its rows, the kernel its mounts.
Restart ==
    /\ run' = "looping"
    /\ stopping' = FALSE
    /\ workers' = [s \in Slots |-> None]
    /\ wg' = 0
    /\ status' = [s \in Slots |-> None]
    /\ step' = [w \in Workers |->
                  IF step[w] \in Alive THEN "gone" ELSE step[w]]
    /\ mount' = [w \in Workers |->
                   IF mount[w] \in Live THEN "stuck" ELSE mount[w]]
    /\ cancelled' = [w \in Workers |-> cancelled[w] \/ step[w] \in Alive]
    /\ UNCHANGED <<slotOf, row, alerted>>

\* The events come in any order and number: nothing here relies on the
\* detector's care.
Loop ==
    \/ \E s \in Slots : HandleInserted(s) \/ StopWorker(s)
    \/ Signal \/ Shutdown \/ Wait

Next == Loop \/ Restart \/ \E w \in Workers : Work(w)

Spec == Init /\ [][Next]_vars

-----------------------------------------------------------------------------
(* Safety.                                                                 *)

Serving(w, s) == step[w] \in Active /\ slotOf[w] = s

\* The map and the goroutines agree: a slot's entry is that of the one worker
\* serving it, so that neither a second card nor a stale finishWorker can
\* cancel or delete another worker's entry.
OneWorkerPerSlot ==
    \A s \in Slots : \A w \in Workers : workers[s] = w <=> Serving(w, s)

\* A mounted card is never shown as idle, and two jobs never have the same
\* mount point mounted.
MountShown ==
    \A w \in Workers : mount[w] \in Live => status[slotOf[w]] = w

\* The wait group counts exactly the goroutines that are left.
WaitGroupCounts == wg = Cardinality({w \in Workers : step[w] \in Alive})

\* Run returns only when every worker has torn down: nothing runs, nothing is
\* mounted that could be unmounted, no slot is shown as ingesting.
CleanStop ==
    run = "stopped" =>
        /\ \A w \in Workers : step[w] \notin Alive /\ mount[w] \notin Live
        /\ \A s \in Slots : workers[s] = None /\ status[s] = None

\* History is written once: a row that has its outcome keeps it.
OutcomeIsFinal ==
    [][\A w \in Workers :
          row[w] \in {"complete", "error"} => row'[w] = row[w]]_vars

\* What failJob's comment says: a job recorded as failed has been notified as
\* such once it is over.
ErrorNotified ==
    \A w \in Workers :
        step[w] = "gone" /\ row[w] = "error" => alerted[w]

=============================================================================
