# cardingest: specifications, model checking and proofs

cardingest is an appliance that watches a card reader, copies the wanted files
of every card that is inserted to a destination (a NAS), verifies the copies and
then erases the originals. What must not go wrong is simple to say: nothing may
leave a card before its bytes are safe at the destination. This directory holds
TLA+ models of the program, the TLC configurations that check them, and TLAPS
proofs of the most important results.

All paths below are relative to the repository; `internal/` stands for
`src/internal/`.

## 1. Inventory

| Component | State it keeps | Operations | Hard behaviour |
|---|---|---|---|
| Detector (`detect/poll.go`, `state.go`, `detect_linux.go`) | the tracker's `present` and `pending` maps, the event channel | tick: enumerate, reconcile, hand over the events | cards move between polls, enumerations miss cards, the hand-over blocks |
| Mock detector (`detect/mock.go`) | `present`, a buffer of 32 events | Insert, Remove (API calls), the relay of Watch | events are sent after the unlock; a full buffer blocks the caller |
| Orchestrator (`app/app.go`) | map of workers, wait group, slot statuses | Run, handle, startWorker, stopWorker, finishWorker, shutdown, ingest, failJob | one goroutine per card, deferred teardown, cancellation at any step |
| Pipeline (`pipeline/pipeline.go`) | none between jobs; files at the destination | Ingest, copyAndVerify, Erase | several slots write at once; errors and crashes between any two steps |
| Hash index (`store/sqlite.go`) | table of verified hashes | Seen, MarkVerified | read, then written, without a transaction |
| Job history (`store/jobs.go`) | table of jobs | StartJob, FinishJob, ListJobs, Stats | rows outlive the process that began them |
| Mounter (`mounter/`) | kernel mounts; the private copies of the fake mounter | Mount, Remount, Sync, Unmount, Eject | teardown must always run; the fixture must stay whole |
| Event hub and event stream (`events/hub.go`, `web/sse.go`) | subscribers and their buffers of 64 | Subscribe, Publish, cancel | drops for slow subscribers; unsubscribe against publish |
| Policy store (`config/file.go`, `web/web.go` PutConfig) | the YAML file, its snapshot in memory | Load, Get, Save | concurrent saves, restarts |
| Rules engine and categories (`rules/`, `pipeline.go` categorize) | the compiled rules | Compile, Decide, categorize | order of rules, several defaults, a map met in any order |
| Notifications (`notify/`) | the notifiers that could be built | Build, Multi.Notify, pulsar.Notify | some are broken, writers do not answer, contexts are done |
| Capture dates (`exifdate/`) | none | DateOf, findAtom, readMvhd | sizes from the card that stand still, go back or overflow |
| Process wiring (`cmd/cardingest/main.go`) | the deferred calls, what is open, the signal context | main, run | a start that fails halfway, the order of the end beside handlers at work |
| Web API (`web/web.go`, `web/ui.go`) | none of its own | GetStatus, GetJobs, GetStats, GetConfig, PutConfig, DevInsert, DevRemove, the event stream | handlers run concurrently, also during the end of the process |
| Environment configuration, logging, generated API | none | read at start | none |

How they interact:

- The detector's goroutine hands events to the orchestrator over an unbuffered
  channel: sending and handling an event is one step of both. The mock puts a
  buffer and a relay in between.
- The orchestrator starts one goroutine (worker) per accepted insertion. The
  worker mounts the card, calls the pipeline, erases, unmounts; the pipelines of
  several slots share the destination and the hash index.
- The worker writes the job history, sets the slot's status, publishes to the
  hub and notifies, one notifier after another, waiting for each. The hub hands
  events to one HTTP handler per browser.
- PUT requests replace the policy file and its snapshot. The process reads the
  policy once, at the start.
- At the end, `Run` waits for the workers; then run's deferred calls shut the
  server down, close the database, the detector and the telemetry, in this
  order, while handlers may still be at work.

What makes each component correct:

- pipeline: nothing is erased that has not landed; nothing unverified reaches a
  final path; the index never runs ahead of the destination; retries recover.
- orchestrator: one worker per slot; teardown always runs; a stop leaves nothing
  behind; outcomes are written once.
- detector: debounce; insertions and removals alternate; reports converge. The
  simulated one: no event is lost or repeated; API calls come back.
- hub: no send on a closed channel; slow browsers cost nobody else anything.
- policy store: the process can always start again; memory is not ahead of disk.
- rules and categories: the loops decide what the comments say, in every order.
- capture dates: the walk ends, and a date that is said to be the video's is.
- job history and notifications: whoever is told something finds it so in the
  table; counters account for every file; one broken notifier costs the others
  nothing, and a silent writer does not hold a job for ever.
- process: the database outlives its users; what was opened is closed; a signal
  ends the process.

## 2. Modules

| Module | Models | Proofs |
|---|---|---|
| `SafeTransfer` | the promise: bytes land before their original goes, and never vanish | abstract |
| `Ingest` | `Pipeline.Ingest`, `copyAndVerify`, `streamCopy`, `hashFile`, `Erase`; mount, remount, erase and unmount of `App.ingest`; the hash index | `IngestProofs` |
| `CardFeed` | the promise: reports of a slot alternate | abstract |
| `Detector` | poll loop, tracker, what the Linux enumerator may return | `DetectorProofs` |
| `MockReader` | the simulated reader, the handlers that drive it and its relay | `DetectorProofs` |
| `Readers` | `detect.New`: the one or the other behind the same channel | `DetectorProofs` |
| `App` | event loop, workers and their deferred calls, wait group, statuses, job rows, error notification | `AppProofs` |
| `Appliance` | `Detector` and `App` composed as in `main.go`, with restarts | `ApplianceProofs` |
| `LiveStatus` | `setStatus`, the hub, the event-stream handlers | `LiveStatusProofs` |
| `PolicyStore` | `Store`, `PutConfig`, the start of `run` | `ProcessProofs` |
| `Process` | `main` and `run`: the start with its failures, the deferred calls, the server and its handlers, the signal; extends `PolicyStore` and implements it | `ProcessProofs` |
| `Selection` | `Compile`, `Decide`, `matches`, `categorize` | `PlacementProofs` |
| `CaptureDate` | `DateOf`, `mp4CreationDate`, `findAtom`, `readMvhd` | `PlacementProofs` |
| `Placement` | rules, category and date of one file, as the pipeline asks for them | `PlacementProofs` |
| `Notify` | `Build`, `withEvents`, the payload of `pulsar.go` | used by `JobReport` |
| `JobReport` | one slot's jobs and what they report: counters, rows, events, the fan-out of notifications, the fake mounter, `ListJobs`, `Stats` | `JobReportProofs` |

`MC*` modules hold the constants of the runs. `PROJECT.json` maps every
definition to its lines. Names follow the code (`StreamCopy`, `FinishWorker`,
`Reconcile`, ...). Operators described as mutants in their comments are wrong
versions of the operator below them: the property they are listed with must
fail when they take its place, which shows that the property depends on the
code.

### How state and actions correspond to the code

**Ingest.** `pc[s]` is the place of a slot's worker between two calls that touch
something shared; everything between two such calls is one action. `dest` is the
destination's final paths, `tmp` the one temporary file a slot has at a time
(its name carries slot and sequence number), `index` the table of hashes.
`onCard`, `inSlot` and `media` separate the files, the card in the slot and what
the mount of a job reaches: a mount whose card was pulled reaches nothing, even
when the same card is back. `verified`, `skipped` and `failed` are the lists of
`pipeline.Result`. Every fallible call has its error branch, taken freely.
`StreamCopy` may leave other bytes than it read; the hash it returns is that of
the bytes read. A path is fixed by date, category and base name; the date can
change between two attempts (it falls back to the modification time), hence
`DestPaths[f]` is a set.

**App.** `step[w]` walks the worker through `App.ingest` and then through its
deferred calls in their order: `Unmount`, `SetIdle`, `FinishWorker`, `WgDone`.
`StopWorker` cancels and leaves the entry in the map. `run` is Run's goroutine.
What the pipeline does is one step here; events come in any order and number.

**Detector.** A tick is one action: it happens only after the events of the tick
before are handed over, because the same goroutine does both. `removals` and
`insertions` are the slice of events still to send; its order within a kind is
that of a Go map, so any. A device is its card; the tracker compares
`SerialOf[slot][card]`.

**MockReader and Readers.** Each API call is the change under the lock and then
the send into the buffer; `Take` and `HandOver` are the relay of `Watch`. Calls
run at once, as HTTP handlers do. `latest` and `overtaken` are history: the call
that changed a slot last and has its event still to send, and the slots of which
the event sent last is not that of the last change. `Readers` extends `Detector`
and instantiates `MockReader`; `mock` is `Config.Mock`, and the reader that was
not chosen never moves. What the orchestrator was told by the one is `told`, by
the other `heard`.

**Appliance.** Joint actions `Removed`, `Accept`, `Ignore` are the hand-over of
an event and `handle`. `cardOf` and `accepted` are history variables.

**LiveStatus.** `setStatus` is three steps (`Store`, `Status`, `Publish`), each
under its own lock. Leaving is two: out of the map under the lock, then close.
`old` and `outdated` are history: a worker's snapshot was overtaken by another
change before it was published, and the last to be published was such a one.

**PolicyStore.** `Save` is `CreateTemp`, `WriteTemp`, `Rename`, `Adopt`; each
but the last may fail. The process may stop between any two. `crossed` is a
history variable: the last rename happened while another request stood between
its rename and its assignment.

**Process.** `phase` is the place of main between two steps of `run`, `defers`
its deferred calls with the next one first, `open` what has been opened. Each
step of the start has its error return. `server` follows the HTTP server:
listening, or failed (a port in use is only logged), draining during `Shutdown`,
closed. `TimeOut` is the five seconds of `main.go:191`. `Fetch` and `CloseStore`
together are `sql.DB.Close`, which lets begun queries finish and refuses new
ones. Put requests go through the steps of `PolicyStore`. `refused` is history:
a handler met the database closed. `CloseDetector`, `CloseStore` and
`ShutdownTelemetry` are the other deferred calls; the last of them is given a
context that may be done, and may leave the telemetry open.

**Selection and Placement.** Each loop of the code is stepped; the map of
categories is met in any order. A glob is the set of directories it accepts.
`Placement` goes on to the date for files that are kept and have a category.

**CaptureDate.** `findAtom` is one action per header, the same action for the
search of the moov in the file and of the mvhd in the moov. Header contents are
chosen freely; offsets are added in `Int64`, which wraps as Go's int64 does.
Reads outside of the file fail. `moov`, `hdr` and `secs` are histories of what
was found where.

**JobReport and Notify.** `step` walks through `App.ingest`; `then` is where it
goes on after a notification. Notifying is stepped: `at` is the notifier whose
turn it is, `wire` whether its request is out; `Answer` is the writer's, with
any status, `TimeOut` the client's or the context's. `posted` and `events` are
what has left for writers and browsers. The walk meets files in the order of
their numbers. `Mount` is the kernel's. The fake mounter's is `MakeTemp`,
`CopyTree` and, when copying stops halfway, `Discard`, whose error the code
drops; a crash may come between any two. `copy` is what the job's private copy
holds, `temps` names the jobs whose copy is on disk; in that mode the fixture is
`card`. `unremoved` is history: the jobs that failed to remove their copy, or
died with it. Copying a file to the destination is one step here: its steps, and
the final paths it may share with others, are `Ingest`'s. The index holds
hashes; that two files have the same may be because they are the same or by
coincidence, and the job does not know. Texts are modelled by their length,
because the only thing that can go wrong with them is the limit.

## 3. Runs

States are distinct states; times are for two TLC workers.

| Run | Instance | Result |
|---|---|---|
| `ingest_race` | 2 slots, 2 cards with one file each of the same bytes, overlapping paths, 2 byte strings | 837k states, 50 s. `DestVerified`, `IndexLanded`, `TransferIsSafe` hold |
| `ingest_card` | 1 slot, 2 cards, 4 files (one duplicate, one skipped), 3 paths, both erase policies | 57k states, 60 s. `ErasedIsLanded`, `FailedStays`, `RetrySucceeds` hold |
| `ingest_clash` | 1 card, 2 different files, one final path | `ErasedIsLanded` fails, see 6 |
| `app_workers` | 2 slots, 3 jobs, symmetric | 390k states, 20 s. `OneWorkerPerSlot`, `MountShown`, `CleanStop`, `OutcomeIsFinal` hold |
| `app_alert` | 1 slot, 1 job, notifier on | `ErrorNotified` fails, see 6 |
| `readers` | either reader: 2 slots, 2 cards, own serials; 2 callers, 1 directory, buffer of 2 | 41k states, 27 s. `InFlight`, `Debounced`, `Alternates`, `Settles`, `ToldUnlessOvertaken`, `CallsReturn` hold |
| `appliance` | 1 slot, 2 cards, 2 jobs, restarts | 191k states, 90 s. `GoneIsCancelled`, `SlotComesBack`, `StopEnds` hold |
| `appliance_busy` | 1 slot, 1 card, 2 jobs | `InsertedIsServed` fails, see 6 |
| `live_status` | 2 slots, 1 browser, buffer of 2 | 333k states, 63 s. `NeverSendsOnClosed`, `ShowsTheTruth`, `UnsubscribedWhenGone`, `NeverStalls` hold |
| `process` | 2 PUT requests, 2 good documents and 1 whose rules do not compile, 1 job, 1 GET request, 1 event stream | 167k states, 29 s. `BootsAgain`, `NeverAheadOfDisk`, `HoldsWhatItPersists`, `StoreOutlivesItsUsers`, `ReleasesAll`, `SignalEnds`, `KeepsPolicy` hold |
| `placement` | all lists of up to 3 entries from a stock of 8, 3 category maps, 12 files, videos of 40 bytes or none | 249k states, 14 s. `FirstMatchWins`, `ExplicitCategoryWins`, `DateIsTheVideos`, `DateIsFound` hold |
| `job_report` | 2 jobs, 3 files (a duplicate, one skipped), kernel or fake mount, no notifiers or 4 of which 2 are broken, erasing on and off | 691k states, 99 s. `CompleteRowIsTrue`, `StatsNeverOverstate`, `EachIsTried`, `AnnouncedIsRecorded`, `SimulationLeavesNoTrace`, `ReportEnds` hold |

Why these bounds are enough. Two slots are all that a race on the destination,
the index, a temporary name or a status snapshot needs, and the two files of
`ingest_race` hold the same bytes because that is when two slots meet.
`ingest_card` is one slot with a second card after the first, because what may
go wrong there is that a job's lists outlive its card; it has each kind of file
(kept, duplicate, skipped). A hash value per byte string and one spare byte
string stand for corruption. In `app_workers` the third job lets a slot be used
again while the other is busy. Buffers of 2 are full after two events and empty
after two reads; nothing depends on the 64 of `hub.go` or the 32 of `mock.go`.
Two PUT requests can cross, and so can two calls for a slot of the simulated
reader, which one directory suffices for. In `process` one job and one reader of
each kind suffice: they share nothing but what main closes under them. Selection
has three entries because first, last and a default among them are the cases
that differ. In `CaptureDate` an int64 is -64..63 (`Half`), a uint32 at most 20
(`Max32`), a second 3 units: small enough to enumerate, and with the order the
real widths have (a 32-bit time never overflows a Duration, a 64-bit one does;
extended sizes include both ends of int64, zero, and lengths below their
header). `job_report` has two jobs so that a second meets the rows, the index
and the copies of the first; `MaxBody` is 1, so that two failed removals exceed
it.

Bounds that cut behaviour off: `Workers` (how many jobs are ever started) and
`MaxJobs`. All other state is finite as modelled.

Deadlock is checked except in three runs: `readers`, where after `Stop` a call
on a full buffer waits until the process exits; `placement`, which ends; and
`job_report`, which ends after its last job.

## 4. Fairness

- `Ingest!Fairness`: a worker that can take a step takes one. Goroutines are
  scheduled and file-system calls return; a destination that hangs for ever is
  outside the model. `RetrySpec` adds the user: every card is inserted and
  given a job again and again, and pulled after it; `RetrySucceeds` also assumes
  that faults cease (`Fault` lists them). Strong fairness is needed of the user
  because a slot is now free, now taken.
- `Appliance!Fairness` and `ReadersFair`: the ticker ticks, an enumeration does
  not miss a card every time, events are taken off the channel while Run is in
  its loop, the selects take a context that stays done in the end. Of the
  simulated reader: the relay runs, and a sender is served when room keeps
  coming (strong), as Go's channels serve waiting senders in turn. Nothing is
  assumed of the user, of API clients or of signals.
- `LiveStatus!Fairness`: workers and handlers only. Browsers need not read or
  leave.
- `ProcessFairness`: main goes on, which includes the timer of its shutdown;
  jobs end (which `SlotComesBack` and `StopEnds` show where the code decides it)
  and so do queries. Clients need not read, nor close their connections; saves
  need not go on.
- `PlacementFairness`: the goroutine goes on once it looks for the date.
- `JobReport!FairSpec`: the job goes on, which includes the client's timeout.
  The writer's answer (`Answer`) is not among the fair actions.

## 5. Proofs

All theorems hold for every value of the constants, under the assumptions the
modules name, which TLC evaluates on the runs: `ConstantsTyped`,
`WorkersFinite`, `OptionsTyped`, `SerialTyped`, `BufferPositive`, `Documents`,
`PoliciesTyped` (a policy is a list of entries), `WidthTyped` (a 32-bit number
of seconds fits in a Duration; sizes and times are numbers of their widths),
`FilesTyped` (finitely many files), `LimitPositive` (the limit of a message is
not zero), `NotifiersTyped` (a notifier's configuration has the fields of its
struct), `PartsTyped` (what detector and orchestrator assume, of the appliance
they make up), `NoneIsNothing`, `NoneIsNoEvent` and `NoneIsNoCall` (the value
for "none" is no card, worker, event or call).

Every safety property of the passing runs is the statement of a theorem. Of the
liveness properties six have a theorem that says what they rest on and needs no
fairness: each step leads on, in an order that cannot go on for ever, and
nothing leads back. What is left to TLC is that the next step is there to be
taken and that it is taken.

| Liveness (TLC) | What each step does (proved) | The order |
|---|---|---|
| `ReportEnds` | `JobsMoveOn` | the stage of the job, then the files still to look at, then notifiers and the answer awaited |
| `SlotComesBack` | `NoStepBack`, for the pipeline inside `JobsGetDone` | the steps of `App.ingest` and its deferred calls; the stage of `Ingest`, then the files to visit or erase, then the steps for one file |
| `StopEnds`, the workers that are waited for | `NoStepBack` | the same |
| `SignalEnds` | `MainMovesOn` | the phases of the start in their order, then the calls still deferred |
| `DateIsFound` | `WalkMovesOn` | the file, then the moov; in each the bytes that are left |
| `Settles` | `AgreeingPollsDecide` | none: two ticks that agree suffice |

**IngestProofs.** `TypeCorrect` and `VerifiedOnly` (`DestVerified` and
`EraseSetSafe`) need no hypothesis. Neither property is inductive: that the
bytes about to be renamed are good follows from the read-back a step earlier,
and that a verified file may be erased from what the index held when it was
appended. `CopyInv` says what a worker at each step may rely on: the temp was
read back, verified files are in the index, skipped ones are not worth keeping.
`NothingLost` (`ErasedIsLanded`, `IndexLanded`) and `ImplementsSafeTransfer`
assume `CollisionFree` (files that share a final path hold the same bytes) and
`HashInjective` (64 bits of xxhash tell byte strings apart). The code checks
neither; the run `ingest_clash` shows what happens without the first. What
holds without both is `ErasedIsVouchedFor`: a file that is gone has its hash in
the index or was given up by the policy.
`MarkLanded` is the strengthening they need: between the rename and
MarkVerified, a copy is at the destination although no table knows, and the
renames of other slots do not take it away. The chain is RenameKeepsHash,
LandedStep, LandedGrows, EraseSetLanded, SafeStep. `FailedFilesStay` uses
`CardInv`: a job's lists are about the card it has mounted, and are disjoint.

**AppProofs.** One inductive invariant ties a worker's step to what it has left
in the shared state (`WorkerInv`, `StatusInv`) next to `OneWorkerPerSlot`. From
it: `MapAgrees`, `NeverMountedUnseen`, `HistoryStays`. With the cardinality of
the set of goroutines: `WaitGroupExact` and `StopIsClean`. `NoStepBack` is about
every change of a worker's step, by whomever.

**DetectorProofs.** `TracksLast`, `InFlight` and the uniqueness of events under
way (`OneEach`) are inductive together; debounce and the refinement of
`CardFeed` follow, whatever the enumerator reads for serials.
`AgreeingPollsDecide` reads off `TracksLast` what a second tick that agrees with
the first must do. Of the simulated reader, `SimulationIsTold` holds for any
number of callers and any buffer. Between what the orchestrator was told of a
slot and what was sent last of it stand the event the relay holds and those in
the buffer: `Chain` follows them, each replacing the view of its slot (`After`).
`LatestInv` says where the chain ends. A slot that is not overtaken, and of
which no call has the event of its last change still to send, ends it with what
the reader holds; a call that has it still to send carries what the reader
holds, and its `Send` makes the chain end there. A call that was overtaken sends
as well: its slot then counts as `overtaken`, and nothing more is said of it
until the event of a last change goes out.

**ApplianceProofs.** The appliance is proved to implement `App`
(`OrchestratorIsApp`): every step of the composition is one of the orchestrator
or leaves it alone. The theorems of `AppProofs`, instantiated, then hold in it
(`PromisesCarryOver`). The same is not so of the detector, whose process starts
again in the appliance and not in `Detector`: `EventsInStep` is its `InFlight`,
proved anew from `FeedInv`, which a restart keeps because it begins with nothing
told, nothing present and nothing under way. `GoneIsCancelled` relates a worker
to what the detector has reported, by way of `MapInv`: the map has the worker
that serves a slot, so that a removal finds it and an insertion behind its back
is dropped. `NothingElseIsMounted` adds the orchestrator's invariant to it: what
is mounted for a job that goes on is the card last reported.
`OnlyLeaversAreInTheWay` bounds the counterexample of `appliance_busy`.

**LiveStatusProofs.** A subscription belongs to a handler that streams, and only
one that has left closes its channel (`SubsInv`). `TruthInv` follows a snapshot
from its taking to the screen: one that no change has overtaken is the state of
the slots, and what a subscriber has of a slot that is not about to publish is
true.

**ProcessProofs.** Of the store: what is about to be renamed is a checked
document in full (`RequestInv`); with no crossing, the one request still to
assign has the document that is on disk (`CrossInv`). `PolicyIsKept` shows that
the process implements `PolicyStore` (the snapshot is not there before the
policy was loaded, `UpInv`), which carries the theorems over; `ProcessBoots` is
the first of them. `DefersInv` names the deferred calls at each phase of the
start and ties them to what is open; `UsersInv` says who may be at work then.
`StoreIsThere` and `NothingLeftOpen` follow. For `MainMovesOn` the distance to
the exit (`ToGo`) is a number of main's steps; that a return at any phase is
nearer to it than going on needs what `DefersInv` says of the deferred calls.

**PlacementProofs.** `RulesInv`: the rules compiled so far, in their order, are
the entries of the list that are no defaults, told by a strictly increasing
function from positions in the one to positions in the other; and the default is
that of the last default entry so far. `FirstMatchDecides` follows for every
list without induction over it, because the loop carries the function along.
`CategoryInv`: a catch-all is remembered, not returned, until all has been met.
`DateInv`: inside a moov, the walk's end is the moov's, and the offset is behind
its start or negative. An addition that overflows yields a negative offset
(`WrapsNegative`), and there nothing can be read, so that a header that is read
lies in its region although the code checks no overflow. `WalkMovesOn` is the
other half of it: a size that stands still or goes back ends the walk.

**JobReportProofs.** `CopiesGoWithTheirJob` (`MountInv`): the fixture is not
touched, what is mounted read-only is all of it, and the only private copy on
disk that nobody failed to remove is that of the job that is making, using or
discarding it. `ToldIsInTheTable`: a row is that of the newest job (`RowInv`),
and what was posted or published carries the counters the row has
(`AnnounceInv`). `CompletedAsRecorded` (`AccountInv`): at each file, verified,
skipped, failed and the ones to come split what was scanned, copies placed and
duplicates found split the verified ones in number; from the erase on, what is
missing from the card is in the erase list, all of it or the error was said
(`ErrorSaid`): it is on its way, or was notified in full, or the job is
cancelled. By `TriedInv`, of `NobodyIsSkipped`, notified in full means sent to
everybody who wants it.
The cardinalities rest on `DisjointUnion`. `SumsAreCovered` needs no induction
over the table: the sum of a column is the size of the set of pairs of a row and
a number up to its counter (`Counted`). `StatsInv` keeps that set no larger than
the copies of earlier jobs, until the row of the newest says that it is complete
and its own copies count. `NobodyIsSkipped` needs to know what `Build`, a
recursive function over the configuration, returns: `BuildListsTheWorking`, by
induction over its length. The library's induction theorem takes an operator and
cannot be used; `Counting` is the same for sets of numbers, proved from the
least number outside of the set. That what a job erases has landed is not
claimed here: it needs the final paths and the hypotheses of `NothingLost`.

Only model-checked: liveness (`RetrySucceeds`, `Settles`, `SlotComesBack`,
`StopEnds`, `UnsubscribedWhenGone`, `NeverStalls`, `CallsReturn`, `SignalEnds`,
`DateIsFound`, `ReportEnds`), which the prover does not handle. It would need to
know when an action is enabled.

## 6. Where the code and its words disagree

Three runs end in a counterexample to something the repository says:

- **`ingest_clash`.** `destPath` (`pipeline.go:303`) drops a file's folder. Two
  different files with the same name, date and category share a final path; the
  second rename replaces the verified copy of the first, and both originals are
  erased. `app.go:244`: "Verified files are safe by construction". Their hashes
  are in the index all the same (`ErasedIsVouchedFor`).
- **`appliance_busy`.** An insertion that arrives before the cancelled worker of
  its slot has left is dropped (`app.go:153`), and the tracker reports a card
  that stays only once. The card is never ingested. That there is no other way
  to be dropped, by a job that goes on, is proved (`OnlyLeaversAreInTheWay`).
- **`app_alert`.** `failJob` notifies with the worker's own context
  (`app.go:310`): a job that failed because it was cancelled is recorded as an
  error, and the notification never leaves.

Others were met while modelling. They have no run of their own; the properties
that concern them say what they exclude:

- A read-back mismatch counts the file as failed and the job goes on
  (`pipeline.go:239`), as the comment there says; the package comment (7-9) says
  that it aborts the job.
- `readUSBAttrs` (`detect_linux.go:110`) takes the serial of the USB device, the
  reader's; `card.go:21` says that it changes with the card. With one serial for
  all cards of a slot a swap between two polls goes unreported: `Settles` is
  checked for serials of the cards' own, the safety properties are proved for
  any.
- `setStatus` (`app.go:346`) takes and publishes its snapshot in steps of their
  own, so that two workers can publish in the other order, the older snapshot
  last. `ShowsTheTruth` excuses exactly these (`outdated`); that there are no
  others is proved.
- Two saves may rename in one order and assign the snapshot in the other
  (`file.go:161`), while `file.go:72` says "safe for concurrent use".
  `HoldsWhatItPersists` excuses exactly these; that there are no others is
  proved.
- The policy is read once (`main.go:81`), while `file.go:12` calls it
  hot-editable: a saved policy is in force after the next start.
- Two API calls for one slot of the simulated reader can send their events in
  the other order than they changed the slot (`mock.go:93`), so that the
  orchestrator ends up with a card in a slot that is empty, or the reverse.
  Without its excuse (`overtaken`) `ToldUnlessOvertaken` fails with two callers,
  in nine states: Insert unlocks, Remove changes the slot back and sends first.
  With it, it is checked for two and proved for any number: there is no other
  way for the two to part.
- The row and the notification of a completed job give `len(toErase)` as erased
  (`app.go:273`), whatever was removed; the row has no column for failed files,
  and jobs that fail have counters of zero although their copies have landed.
  `CompleteRowIsTrue` says how far a row can be trusted: of an incomplete erase
  an error was sent to everybody who wants errors. When the job was cancelled,
  or nobody wants errors, nothing corrects the number. `StatsNeverOverstate`
  says that the sum of the copies only ever claims too little.
- The fake mounter drops the error of removing a copy that could not be
  completed (`fake.go:43`): such a directory stays for ever, as does that of a
  process that dies (`unremoved`).
- `initTelemetry` (`main.go:231`) returns an error without shutting down the
  exporter it has started. The deferred shutdown of a whole one (`main.go:71`)
  is given the signal context, which is done by then after a signal, and its
  error is dropped. `ReleasesAll` is about the database and the detector and
  promises nothing of the telemetry.
- An event stream does not end with the signal context: a stop takes the five
  seconds of `main.go:191` whenever a browser is connected, and handlers that
  are left may find the database closed (`refused` in `Process`).
- A 64-bit time in a video's header overflows a Duration (`mp4.go`, `readMvhd`)
  and yields another date; `DateIsTheVideos` is about the times that fit.
- An event name in `on:` that is misspelt is not an error: that notifier is
  told nothing (`notify.go:135`).
- The destination's `date_source` (`file.go:30`) is parsed and never used.

## 7. Not modelled

- Power loss and the file system's caches: the code syncs neither the copies nor
  their directories before it erases, and the read-back may come from the page
  cache. Crashes in the model are those of the process.
- Temporary files left behind by a crash or a failed removal: never opened
  again.
- A mount that fails in `Ingest` (nothing has changed); mount flags.
- Copies that someone else removes from the destination: the index would still
  vouch for them.
- Bytes and durations in rows and notifications; the wording of messages.
- Parsing: YAML, EXIF tags, sysfs paths, glob syntax, human sizes. Globs and
  sizes that do not parse are refused like the unknown actions that are
  modelled.
- The web UI (static files), log handlers, metrics, and the API code generated
  from `api/openapi.yaml`.

## 8. Plan

Done: first `Ingest` with `SafeTransfer`, `App`, `Detector` with `CardFeed`,
`Appliance`, `LiveStatus`, `PolicyStore`, `MockReader` and `Selection`, with the
proofs of the core; then `Process` around `PolicyStore`, `Readers` around the
two readers, `JobReport` with `Notify` and the fake mounter, `CaptureDate` and
`Placement`; then a proof for every safety property of the runs, the appliance
as an implementation of `App`, and the steps that the liveness properties rest
on.

What is left:

1. Relate `JobReport` to `Ingest` and `App` by more than the same lines of code.
   It is not a refinement as it stands: one step of it is several of theirs, and
   theirs come in between; auxiliary steps would be needed.
2. Compose `MockReader` with `App` as `Appliance` composes `Detector`.
3. Prove what `UnsubscribedWhenGone`, `NeverStalls` and `CallsReturn` rest on,
   as was done for the others.
