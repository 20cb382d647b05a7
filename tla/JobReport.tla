----------------------------- MODULE JobReport ------------------------------
(***************************************************************************)
(* What one job of a slot reports about itself, and whether it is true:    *)
(* App.ingest of internal/app/app.go with the counters of pipeline.Ingest, *)
(* the row in the jobs table (internal/store/jobs.go) that the API lists   *)
(* and sums up, the events on the hub, and the notifications that go out   *)
(* through every notifier of Notify.tla, one after another, while the job  *)
(* waits.  The card is mounted by the kernel or, by the mounter of         *)
(* internal/mounter/fake.go, as a private copy of a directory.  Where the  *)
(* copies of Ingest end up, and what else may land there, is the business  *)
(* of Ingest.tla: here a copy is only counted.                             *)
(*                                                                         *)
(* Jobs follow each other; MaxJobs bounds how many.                        *)
(***************************************************************************)
EXTENDS Notify, FiniteSets

CONSTANTS
    Files,          \* numbered as the walk of the card meets them
    Kept,           \* what the rules keep and a category takes
    Hash,           \* of a file: two with the same are duplicates, or collide
    Policies,       \* ErasePolicy: [ingested, skipped : BOOLEAN]
    NotifierLists,
    MaxJobs

ASSUME FilesTyped ==
    Files \subseteq Nat /\ IsFiniteSet(Files) /\ Kept \subseteq Files

ASSUME NotifiersTyped ==
    NotifierLists \subseteq Seq([type : STRING, url : STRING, userKey : STRING,
                                on : SUBSET STRING, priority : Int,
                                tokenEnv : STRING])

VARIABLES
    policy, notifiers,
    fake,           \* the mounter is the simulated one
    card,           \* files on the card, or in the directory that stands for it
    copy,           \* files in the private copy
    mode,           \* the mount: "none", "ro" or "rw"
    temps,          \* jobs whose private copy is on disk
    unremoved,      \* jobs that failed, or died, to remove it (history)
    step, then,     \* where the job is; where it goes on once it has notified
    done,           \* its context is done
    n, id,          \* jobs so far; the id of the row, 0 without one
    scanned, todo,  \* files found; files still to be looked at
    res,            \* pipeline.Result
    erasing,        \* toErase
    rows,           \* the jobs table
    index, landed,  \* hashes recorded; copies placed, per job
    note, at, wire, \* the notification, whose turn it is, and if it is posted
    posted, events, \* by this job: to the writers, on the hub (histories)
    noted,          \* events it has notified, not cut short (history)
    unrecorded      \* FinishJob failed for it (history)

setup == <<policy, notifiers, fake>>
mounted == <<card, copy, mode, temps, unremoved>>
work == <<scanned, todo, res, erasing, index, landed>>
table == <<n, id, rows, unrecorded>>
notifying == <<note, at, wire, posted, noted>>

vars == <<setup, mounted, step, then, done, work, table, notifying, events>>

NoResult == [verified |-> {}, skipped |-> {}, failed |-> {}, copied |-> 0,
             deduped |-> 0]
NoNote == [event |-> "none"]

Init ==
    /\ policy \in Policies /\ notifiers \in NotifierLists /\ fake \in BOOLEAN
    /\ card = Files /\ copy = {} /\ mode = "none"
    /\ temps = {} /\ unremoved = {}
    /\ step = "idle" /\ then = "idle" /\ done = FALSE
    /\ n = 0 /\ id = 0 /\ rows = <<>> /\ unrecorded = FALSE
    /\ scanned = {} /\ todo = {} /\ res = NoResult /\ erasing = {}
    /\ index = {} /\ landed = {}
    /\ note = NoNote /\ at = 1 /\ wire = FALSE
    /\ posted = {} /\ events = {} /\ noted = {}

-----------------------------------------------------------------------------
(* The jobs table and what the API makes of it.                            *)

RowOf(status) == [status |-> status, copied |-> 0, deduped |-> 0,
                  skipped |-> 0, erased |-> 0]

CompleteRow(c) == [status |-> "complete", copied |-> c.copied,
                   deduped |-> c.deduped, skipped |-> c.skipped,
                   erased |-> c.erased]

InsertRow == rows' = Append(rows, RowOf("running"))

\* Mutant of UpdateRow: without the WHERE.
UpdateRows(k, row) == rows' = [j \in DOMAIN rows |-> row]

UpdateRow(k, row) == rows' = [rows EXCEPT ![k] = row]

\* ListJobs and toAPIJob: newest first; a limit that is not positive is 50.
GetJobs(limit) ==
    LET count == IF limit <= 0 THEN 50 ELSE limit
        size == IF Len(rows) < count THEN Len(rows) ELSE count
    IN  [k \in 1 .. size |-> [id |-> Len(rows) + 1 - k,
                              row |-> rows[Len(rows) + 1 - k]]]

\* SUM(copied): as many pairs with a row as it counts copies.
Counted == UNION {{k} \X (1 .. rows[k].copied) : k \in DOMAIN rows}

GetStats == [jobs |-> Len(rows), files |-> Cardinality(Counted)]

-----------------------------------------------------------------------------
(* The job starts.                                                         *)

\* A card is inserted: the one that was there, or another that is full.
Insert ==
    /\ step = "idle"
    /\ n < MaxJobs
    /\ n' = n + 1
    /\ card' \in {card, Files}
    /\ step' = "start" /\ done' = FALSE
    /\ scanned' = {} /\ todo' = {} /\ res' = NoResult /\ erasing' = {}
    /\ posted' = {} /\ events' = {} /\ noted' = {}
    /\ unrecorded' = FALSE /\ id' = 0
    /\ UNCHANGED <<setup, copy, mode, temps, unremoved, then, rows, index,
                   landed, note, at, wire>>

\* The card is pulled, or the process is told to stop.
Cancel ==
    /\ step # "idle" /\ ~done
    /\ done' = TRUE
    /\ UNCHANGED <<setup, mounted, step, then, work, table, notifying, events>>

StartJob ==
    /\ step = "start"
    /\ step' = "announce"
    /\ \/ InsertRow /\ id' = Len(rows) + 1
       \/ UNCHANGED <<rows, id>>
    /\ UNCHANGED <<setup, mounted, then, done, work, n, unrecorded, notifying,
                   events>>

\* Notify begins with the first notifier; the job waits for the last.
Emit(notification, next) ==
    /\ note' = notification
    /\ at' = 1
    /\ step' = "notify"
    /\ then' = next
    /\ UNCHANGED <<wire, posted, noted>>

EmitError(size, next) == Emit([event |-> "error", err |-> size], next)

Announce ==
    /\ step = "announce"
    /\ events' = events \cup {[type |-> "job_start", id |-> id]}
    /\ Emit([event |-> "start"], "mount")
    /\ UNCHANGED <<setup, mounted, done, work, table>>

-----------------------------------------------------------------------------
(* Multi.Notify.                                                           *)

built == Build(notifiers)

Delivering == step = "notify" /\ at <= Len(built)
Receiver == notifiers[built[at]]

Turn == at' = at + 1 /\ UNCHANGED <<note, posted, noted>>

\* filtered.Notify: not an event this one wants.
Pass ==
    /\ Delivering
    /\ ~WithEvents(Receiver, note.event)
    /\ Turn
    /\ UNCHANGED <<setup, mounted, step, then, done, work, table, wire, events>>

\* pulsar.Notify: the request leaves, unless the context is already done.
Post ==
    /\ Delivering
    /\ WithEvents(Receiver, note.event)
    /\ ~wire
    /\ IF done THEN Turn /\ UNCHANGED wire
       ELSE /\ wire' = TRUE
            /\ posted' = posted \cup
                 {[to |-> built[at], payload |-> Payload(Receiver, note)]}
            /\ UNCHANGED <<note, at, noted>>
    /\ UNCHANGED <<setup, mounted, step, then, done, work, table, events>>

\* Mutant of Answer: Multi returns with the first error.
AnswerEnding ==
    /\ Delivering
    /\ wire
    /\ wire' = FALSE
    /\ at' \in {at + 1, Len(built) + 1}
    /\ UNCHANGED <<setup, mounted, step, then, done, work, table, note, posted,
                   noted, events>>

\* The writer answers, with whatever status: an error is only collected.
Answer ==
    /\ Delivering
    /\ wire
    /\ wire' = FALSE
    /\ Turn
    /\ UNCHANGED <<setup, mounted, step, then, done, work, table, events>>

\* Mutant of TimeOut: a client without a timeout.
TimeOutNever == wire /\ done /\ Answer

\* The client's timeout of ten seconds, or the end of the context.
TimeOut ==
    /\ Delivering
    /\ wire
    /\ wire' = FALSE
    /\ Turn
    /\ UNCHANGED <<setup, mounted, step, then, done, work, table, events>>

Notified ==
    /\ step = "notify"
    /\ at > Len(built)
    /\ step' = then
    /\ note' = NoNote /\ at' = 1
    /\ noted' = IF done THEN noted ELSE noted \cup {note.event}
    /\ UNCHANGED <<setup, mounted, then, done, work, table, wire, posted,
                   events>>

Deliver == Pass \/ Post \/ TimeOut \/ Notified

-----------------------------------------------------------------------------
(* The mount, and what the job does to the card.                           *)

\* The files Mount.FS shows.
Visible == IF fake THEN copy ELSE card

\* The kernel mounts the card read-only, or does not.
Mount ==
    /\ step = "mount"
    /\ ~fake
    /\ \/ step' = "ingest" /\ mode' = "ro"
       \/ step' = "fail" /\ UNCHANGED mode
    /\ UNCHANGED <<setup, card, copy, temps, unremoved, then, done, work,
                   table, notifying, events>>

\* The simulated mounter makes a directory, with a name of its own, and goes
\* on to copy the card into it.
MakeTemp ==
    /\ step = "mount"
    /\ fake
    /\ \/ step' = "copying" /\ temps' = temps \cup {n}
       \/ step' = "fail" /\ UNCHANGED temps
    /\ UNCHANGED <<setup, card, copy, mode, unremoved, then, done, work,
                   table, notifying, events>>

\* copyTree stops at the first error, with any part of the card copied.
CopyTree ==
    /\ step = "copying"
    /\ \/ step' = "ingest" /\ mode' = "ro" /\ copy' = card
       \/ step' = "discard" /\ copy' \in SUBSET card /\ UNCHANGED mode
    /\ UNCHANGED <<setup, card, temps, unremoved, then, done, work, table,
                   notifying, events>>

\* The private copy is removed, or that fails.
RemoveTemp ==
    /\ copy' = {}
    /\ \/ temps' = temps \ {n} /\ UNCHANGED unremoved
       \/ unremoved' = unremoved \cup {n} /\ UNCHANGED temps

\* Mutant of Discard: Mount returns the error of copyTree at once.
DiscardNothing ==
    /\ step = "discard"
    /\ step' = "fail"
    /\ copy' = {}
    /\ UNCHANGED <<setup, card, mode, temps, unremoved, then, done, work,
                   table, notifying, events>>

\* What copyTree has left is removed, whatever comes of it, before the mount
\* fails.
Discard ==
    /\ step = "discard"
    /\ step' = "fail"
    /\ RemoveTemp
    /\ UNCHANGED <<setup, card, mode, then, done, work, table, notifying,
                   events>>

Scan ==
    /\ step = "ingest"
    /\ \/ step' = "files" /\ scanned' = Visible /\ todo' = Visible
       \/ step' = "fail" /\ UNCHANGED <<scanned, todo>>
    /\ UNCHANGED <<setup, mounted, then, done, res, erasing, index, landed,
                   table, notifying, events>>

CtxDone ==
    /\ step = "files"
    /\ todo # {}
    /\ done
    /\ step' = "fail"
    /\ UNCHANGED <<setup, mounted, then, done, work, table, notifying, events>>

Skip(f) ==
    /\ f \notin Kept
    /\ res' = [res EXCEPT !.skipped = @ \cup {f}]
    /\ UNCHANGED <<step, index, landed>>

\* A file whose hash the index has is verified without a copy.
Dedupe(f) ==
    /\ f \in Kept
    /\ Hash[f] \in index
    /\ res' = [res EXCEPT !.deduped = @ + 1, !.verified = @ \cup {f}]
    /\ UNCHANGED <<step, index, landed>>

Copy(f) ==
    /\ f \in Kept
    /\ Hash[f] \notin index
    /\ landed' = landed \cup {<<n, f>>}
    /\ index' = index \cup {Hash[f]}
    /\ res' = [res EXCEPT !.copied = @ + 1, !.verified = @ \cup {f}]
    /\ UNCHANGED step

\* A file that cannot be read or verified stays on the card.
GiveUp(f) ==
    /\ f \in Kept
    /\ res' = [res EXCEPT !.failed = @ \cup {f}]
    /\ UNCHANGED <<step, index, landed>>

\* Destination or index unhealthy, the latter also after the file was placed.
Abort(f) ==
    /\ f \in Kept
    /\ step' = "fail"
    /\ \/ UNCHANGED landed
       \/ Hash[f] \notin index /\ landed' = landed \cup {<<n, f>>}
    /\ UNCHANGED <<res, index>>

IngestFile ==
    /\ step = "files"
    /\ ~done
    /\ \E f \in todo :
          /\ \A g \in todo : f <= g
          /\ todo' = todo \ {f}
          /\ Skip(f) \/ Dedupe(f) \/ Copy(f) \/ GiveUp(f) \/ Abort(f)
    /\ UNCHANGED <<setup, mounted, then, done, scanned, erasing, table,
                   notifying, events>>

\* Ingest returns its result, and the policy says what may be erased.
Decide ==
    /\ step = "files"
    /\ todo = {}
    /\ erasing' = (IF policy.ingested THEN res.verified ELSE {})
                  \cup (IF policy.skipped THEN res.skipped ELSE {})
    /\ step' = IF erasing' = {} THEN "finish" ELSE "remount"
    /\ UNCHANGED <<setup, mounted, then, done, scanned, todo, res, index,
                   landed, table, notifying, events>>

Remount ==
    /\ step = "remount"
    /\ \/ step' = "erase" /\ mode' = "rw"
       \/ ~fake /\ step' = "fail" /\ UNCHANGED mode
    /\ UNCHANGED <<setup, card, copy, temps, unremoved, then, done, work,
                   table, notifying, events>>

RemoveFiles(S) ==
    IF fake THEN copy' = copy \ S /\ UNCHANGED card
            ELSE card' = card \ S /\ UNCHANGED copy

\* Mutant of Erase: the errors of the removals are dropped.
EraseQuietly ==
    /\ step = "erase"
    /\ \E S \in SUBSET erasing : RemoveFiles(S)
    /\ step' = "finish"
    /\ UNCHANGED <<setup, mode, temps, unremoved, then, done, work, table,
                   notifying, events>>

\* Erase goes on after a removal that fails, and Sync follows.  Every failure
\* adds to the error that is notified.
Erase ==
    /\ step = "erase"
    /\ \E S \in SUBSET erasing :
          /\ RemoveFiles(S)
          /\ IF S = erasing
             THEN step' = "finish" /\ UNCHANGED <<then, notifying>>
             ELSE EmitError(Cardinality(erasing \ S), "finish")
    /\ UNCHANGED <<setup, mode, temps, unremoved, done, work, table, events>>

-----------------------------------------------------------------------------
(* The job ends.                                                           *)

counts == [copied  |-> res.copied, deduped |-> res.deduped,
           skipped |-> Cardinality(res.skipped),
           erased  |-> Cardinality(erasing)]

\* Mutant of FinishJob: it returns early when there is a row.
FinishJobWithout(row) == UNCHANGED <<rows, unrecorded>>

FinishJob(row) ==
    \/ id # 0 /\ UpdateRow(id, row) /\ UNCHANGED unrecorded
    \/ UNCHANGED rows /\ unrecorded' = TRUE

Finish ==
    /\ step = "finish"
    /\ FinishJob(CompleteRow(counts))
    /\ Emit([event |-> "complete", counts |-> counts], "publish")
    /\ UNCHANGED <<setup, mounted, done, work, n, id, events>>

PublishComplete ==
    /\ step = "publish"
    /\ events' = events \cup {[type |-> "job_complete", id |-> id,
                    counts |-> counts, failed |-> Cardinality(res.failed)]}
    /\ step' = "unmount"
    /\ UNCHANGED <<setup, mounted, then, done, work, table, notifying>>

\* failJob.
Fail ==
    /\ step = "fail"
    /\ FinishJob(RowOf("error"))
    /\ EmitError(1, "failed")
    /\ UNCHANGED <<setup, mounted, done, work, n, id, events>>

PublishError ==
    /\ step = "failed"
    /\ events' = events \cup {[type |-> "job_error", id |-> id]}
    /\ step' = IF mode = "none" THEN "idle" ELSE "unmount"
    /\ UNCHANGED <<setup, mounted, then, done, work, table, notifying>>

\* Unmount and Eject; the simulated one removes its copy.
Unmount ==
    /\ step = "unmount"
    /\ step' = "idle"
    /\ mode' = "none"
    /\ IF fake THEN RemoveTemp ELSE UNCHANGED <<copy, temps, unremoved>>
    /\ UNCHANGED <<setup, card, then, done, work, table, notifying, events>>

\* The process dies, also with a private copy half made, and starts again.
Crash ==
    /\ step # "idle"
    /\ step' = "idle" /\ then' = "idle"
    /\ mode' = "none" /\ copy' = {}
    /\ unremoved' = unremoved \cup (temps \cap {n})
    /\ note' = NoNote /\ at' = 1 /\ wire' = FALSE
    /\ UNCHANGED <<setup, card, temps, done, work, table, posted, noted,
                   events>>

Work ==
    \/ StartJob \/ Announce \/ Deliver
    \/ Mount \/ MakeTemp \/ CopyTree \/ Discard
    \/ Scan \/ CtxDone \/ IngestFile \/ Decide \/ Remount \/ Erase
    \/ Finish \/ PublishComplete \/ Fail \/ PublishError \/ Unmount

Next == Insert \/ Cancel \/ Work \/ Answer \/ Crash

Spec == Init /\ [][Next]_vars

\* The goroutine of a job is scheduled, the mount and the file systems answer,
\* and the client's clock runs.  The writer need never answer.
FairSpec == Spec /\ WF_vars(Work)

-----------------------------------------------------------------------------
(* Properties.                                                             *)

Wants(i, e) == Construct(notifiers[i]) /\ WithEvents(notifiers[i], e)
SentTo(i, e) == \E p \in posted : p.to = i /\ p.payload.event = e

\* A row that says "complete" accounts for every file that was found and has
\* as many copies as this job placed.  No file that failed is gone, and no more
\* are gone than it calls erased.  If fewer are, because the row takes what was
\* to be erased for what was, a job that was not cancelled has sent an error
\* to everybody who wants errors, before it wrote the row.  When its context
\* is done, or nobody wants errors, nothing corrects the row.
CompleteRowIsTrue ==
    id # 0 /\ rows[id].status = "complete" =>
        LET row == rows[id]
            gone == scanned \ Visible
        IN  /\ row.copied = Cardinality({l \in landed : l[1] = n})
            /\ row.copied + row.deduped + row.skipped + Cardinality(res.failed)
                  = Cardinality(scanned)
            /\ mode # "none" =>
                  /\ gone \cap res.failed = {}
                  /\ Cardinality(gone) <= row.erased
                  /\ Cardinality(gone) < row.erased =>
                        done \/ \A i \in DOMAIN notifiers :
                                   Wants(i, "error") => SentTo(i, "error")

\* However jobs end, crashes included, the sums of GetStats never show a copy
\* that was not placed, nor a job that was not started: a row is written by
\* its own job only, once with what it placed.
StatsNeverOverstate ==
    /\ GetStats.files <= Cardinality(landed)
    /\ GetStats.jobs <= n

\* "Ingest must never be blocked by a misconfigured notifier", nor one writer
\* kept from an event by the failure of another: whoever can be built and
\* wants the event has been sent it, within the writer's limits, and nobody
\* else has.
EachIsTried ==
    /\ \A e \in noted : \A i \in DOMAIN notifiers : Wants(i, e) => SentTo(i, e)
    /\ \A p \in posted :
          /\ Wants(p.to, p.payload.event)
          /\ p.payload.body \in 1 .. MaxBody
          /\ p.payload.priority \in -2 .. 2

\* Who has been told that a job is complete, by the hub or by a writer, and
\* then asks for the newest job finds that job, complete, and with the counters
\* it was told; a job_error on the hub is an error in the table.  Unless the
\* store failed: then the API goes on to say "running".
AnnouncedIsRecorded ==
    LET told == {p.payload.data : p \in
                    {q \in posted : q.payload.event = "complete"}}
                \cup {e.counts : e \in
                    {d \in events : d.type = "job_complete"}}
        newest == GetJobs(1)[1]
    IN  id # 0 /\ ~unrecorded =>
          /\ \A c \in told : newest = [id |-> id, row |-> CompleteRow(c)]
          /\ (\E e \in events : e.type = "job_error") =>
                newest.id = id /\ newest.row.status = "error"

\* "The fixture is never harmed", a job only ever works on a whole copy of
\* it, and the private copy goes with its job, also when it could only be made
\* in part: left behind are those whose removal failed or whose process died.
SimulationLeavesNoTrace ==
    fake =>
      /\ card = Files
      /\ mode # "none" => n \in temps
      /\ mode = "ro" => copy = Files
      /\ \A k \in temps \ unremoved :
            k = n /\ (mode # "none" \/ step \in {"copying", "discard"})

\* A job ends even when no writer ever answers.
ReportEnds == step # "idle" ~> step = "idle"

=============================================================================
