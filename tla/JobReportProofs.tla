-------------------------- MODULE JobReportProofs ---------------------------
(***************************************************************************)
(* Proofs about JobReport, for any number of jobs, files and notifiers.    *)
(* Sending a notification changes nothing a job reports: the stage a job   *)
(* has reached is the step it goes on with once it has notified.           *)
(***************************************************************************)
EXTENDS JobReport, FiniteSetTheorems, WellFoundedInduction, TLAPS

stage == IF step = "notify" THEN then ELSE step

\* Mounting, which for the simulated mounter takes several steps.
Before == {"start", "announce", "mount", "copying", "discard"}
Working == {"ingest", "files", "remount", "erase", "finish", "publish"}
Stages == {"idle", "fail", "failed", "unmount"} \cup Before \cup Working

Counts == [copied : Nat, deduped : Nat, skipped : Nat, erased : Nat]

RowsPossible ==
    {RowOf("running"), RowOf("error")} \cup {CompleteRow(c) : c \in Counts}

TypeOK ==
    /\ fake \in BOOLEAN
    /\ card \in SUBSET Files /\ copy \in SUBSET Files
    /\ mode \in {"none", "ro", "rw"}
    /\ temps \in SUBSET Nat /\ unremoved \in SUBSET Nat
    /\ step \in Stages \cup {"notify"}
    /\ then \in Stages \ {"copying", "discard"}
    /\ n \in Nat /\ id \in Nat /\ rows \in Seq(RowsPossible)
    /\ scanned \in SUBSET Files /\ todo \in SUBSET Files
    /\ erasing \in SUBSET Files
    /\ res \in [verified : SUBSET Files, skipped : SUBSET Files,
                failed : SUBSET Files, copied : Nat, deduped : Nat]
    /\ step # "idle" => n # 0
    /\ landed \in SUBSET ((1 .. n) \X Files)

-----------------------------------------------------------------------------
(* Rows.                                                                   *)

\* The job a reader of the newest row finds.
LEMMA NewestJob ==
    ASSUME rows \in Seq(RowsPossible), Len(rows) # 0
    PROVE  GetJobs(1)[1] = [id |-> Len(rows), row |-> rows[Len(rows)]]
<1>1. Len(rows) \in Nat /\ Len(rows) >= 1
  OBVIOUS
<1>2. ~(Len(rows) < 1) /\ ~(1 <= 0)
  BY <1>1
<1> QED
  BY <1>1, <1>2 DEF GetJobs

LEMMA CountsTyped == TypeOK => counts \in Counts
<1> SUFFICES ASSUME TypeOK PROVE counts \in Counts
  OBVIOUS
<1>1. \A S \in SUBSET Files : Cardinality(S) \in Nat
  BY FilesTyped, FS_Subset, FS_CardinalityType
<1> QED
  BY <1>1 DEF TypeOK, counts, Counts

\* Whatever becomes of FinishJob, the table holds rows.
LEMMA FinishTyped ==
    ASSUME rows \in Seq(RowsPossible), NEW row \in RowsPossible,
           FinishJob(row)
    PROVE  rows' \in Seq(RowsPossible)
BY DEF FinishJob, UpdateRow

-----------------------------------------------------------------------------
(* Notifying changes nothing else.                                         *)

LEMMA DeliverKeeps ==
    Deliver \/ Answer =>
        /\ UNCHANGED <<setup, mounted, done, work, table, events, then>>
        /\ stage' = stage
BY DEF Deliver, Pass, Post, TimeOut, Notified, Answer, Delivering, stage

LEMMA TypeInit == Init => TypeOK
BY DEF Init, TypeOK, Stages, Before, Working, NoResult

LEMMA TypeStep == TypeOK /\ [Next]_vars => TypeOK'
<1> SUFFICES ASSUME TypeOK, [Next]_vars PROVE TypeOK'
  OBVIOUS
<1> USE DEF TypeOK, Stages, Before, Working, setup, mounted, work, table,
        notifying
<1>1. CASE UNCHANGED vars
  BY <1>1 DEF vars
<1>2. CASE Insert
  BY <1>2 DEF Insert, NoResult
<1>3. CASE Cancel
  BY <1>3 DEF Cancel
<1>4. CASE StartJob
  <2>1. RowOf("running") \in RowsPossible
    BY DEF RowsPossible
  <2>2. rows' \in Seq(RowsPossible)
    BY <1>4, <2>1 DEF StartJob, InsertRow
  <2>3. id' \in Nat
    BY <1>4 DEF StartJob
  <2> QED
    BY <1>4, <2>2, <2>3 DEF StartJob
<1>5. CASE Announce
  BY <1>5 DEF Announce, Emit
<1>6. CASE Deliver \/ Answer
  <2>1. step' \in Stages \cup {"notify"} /\ step = "notify"
    BY <1>6 DEF Deliver, Pass, Post, TimeOut, Notified, Answer, Delivering
  <2>2. UNCHANGED <<setup, mounted, done, work, table, events, then>>
    BY <1>6, DeliverKeeps
  <2> QED
    BY <1>6, <2>1, <2>2
<1>7. CASE Mount \/ MakeTemp \/ CopyTree \/ Discard
  BY <1>7 DEF Mount, MakeTemp, CopyTree, Discard, RemoveTemp
<1>8. CASE Scan \/ CtxDone
  BY <1>8 DEF Scan, CtxDone, Visible
<1>9. CASE IngestFile
  <2>1. PICK f \in todo :
            /\ todo' = todo \ {f}
            /\ Skip(f) \/ Dedupe(f) \/ Copy(f) \/ GiveUp(f) \/ Abort(f)
    BY <1>9 DEF IngestFile
  <2>2. f \in Files /\ step = "files"
    BY <1>9, <2>1 DEF IngestFile
  <2>3. UNCHANGED <<setup, mounted, then, done, scanned, erasing, table>>
    BY <1>9 DEF IngestFile
  <2>4. res' \in [verified : SUBSET Files, skipped : SUBSET Files,
                  failed : SUBSET Files, copied : Nat, deduped : Nat]
    <3>1. CASE Skip(f)
      BY <3>1, <2>2 DEF Skip
    <3>2. CASE Dedupe(f)
      <4>1. res' = [verified |-> res.verified \cup {f},
                    skipped |-> res.skipped, failed |-> res.failed,
                    copied |-> res.copied, deduped |-> res.deduped + 1]
        BY <3>2 DEF Dedupe
      <4> QED
        BY <4>1, <2>2
    <3>3. CASE Copy(f)
      <4>1. res' = [verified |-> res.verified \cup {f},
                    skipped |-> res.skipped, failed |-> res.failed,
                    copied |-> res.copied + 1, deduped |-> res.deduped]
        BY <3>3 DEF Copy
      <4> QED
        BY <4>1, <2>2
    <3>4. CASE GiveUp(f)
      BY <3>4, <2>2 DEF GiveUp
    <3>5. CASE Abort(f)
      BY <3>5 DEF Abort
    <3> QED
      BY <2>1, <3>1, <3>2, <3>3, <3>4, <3>5
  <2>5. landed' \in SUBSET ((1 .. n) \X Files)
    <3>1. <<n, f>> \in (1 .. n) \X Files
      BY <2>2
    <3> QED
      BY <2>1, <3>1 DEF Skip, Dedupe, Copy, GiveUp, Abort
  <2>6. step' \in {"files", "fail"}
    BY <2>1, <2>2 DEF Skip, Dedupe, Copy, GiveUp, Abort
  <2> QED
    BY <2>1, <2>2, <2>3, <2>4, <2>5, <2>6
<1>10. CASE Decide \/ Remount
  BY <1>10 DEF Decide, Remount
<1>11. CASE Erase
  BY <1>11 DEF Erase, RemoveFiles, EmitError, Emit
<1>12. CASE Finish
  <2>1. CompleteRow(counts) \in RowsPossible
    BY CountsTyped DEF RowsPossible
  <2>2. rows' \in Seq(RowsPossible)
    BY <1>12, <2>1, FinishTyped DEF Finish
  <2>3. /\ step' = "notify" /\ then' = "publish" /\ step = "finish"
        /\ UNCHANGED <<setup, mounted, work, n, id>>
    BY <1>12 DEF Finish, Emit
  <2> QED
    BY <2>2, <2>3
<1>13. CASE Fail
  <2>1. RowOf("error") \in RowsPossible
    BY DEF RowsPossible
  <2>2. rows' \in Seq(RowsPossible)
    BY <1>13, <2>1, FinishTyped DEF Fail
  <2>3. /\ step' = "notify" /\ then' = "failed" /\ step = "fail"
        /\ UNCHANGED <<setup, mounted, work, n, id>>
    BY <1>13 DEF Fail, EmitError, Emit
  <2> QED
    BY <2>2, <2>3
<1>14. CASE PublishComplete \/ PublishError
  BY <1>14 DEF PublishComplete, PublishError
<1>15. CASE Unmount
  BY <1>15 DEF Unmount, RemoveTemp
<1>16. CASE Crash
  BY <1>16 DEF Crash
<1> QED
  BY <1>1, <1>2, <1>3, <1>4, <1>5, <1>6, <1>7, <1>8, <1>9, <1>10, <1>11,
     <1>12, <1>13, <1>14, <1>15, <1>16 DEF Next, Work

\* Every reachable state is well typed.
THEOREM JobTypeCorrect == Spec => []TypeOK
BY TypeInit, TypeStep, PTL DEF Spec

-----------------------------------------------------------------------------
(* The private copy.                                                       *)

MountInv ==
    /\ SimulationLeavesNoTrace
    /\ fake /\ step \in {"copying", "discard"} => n \in temps
    /\ stage \in Before \cup {"idle"} => mode = "none"
    /\ stage \in Working \cup {"unmount"} => mode # "none"
    /\ stage = "erase" => mode = "rw"

LEMMA MountInit == Init => MountInv
BY DEF Init, MountInv, SimulationLeavesNoTrace, stage, Before, Working

LEMMA MountStep == TypeOK /\ MountInv /\ [Next]_vars => MountInv'
<1> SUFFICES ASSUME TypeOK, MountInv, [Next]_vars PROVE MountInv'
  OBVIOUS
<1> USE DEF Before, Working, setup, mounted, table
\* Steps that leave the mount alone and do not enter or leave the copying.
<1>1. ASSUME UNCHANGED <<fake, card, copy, mode, temps, unremoved, n>>,
             step \notin {"copying", "discard"},
             step' \notin {"copying", "discard"},
             stage' \in Before \cup {"idle"} => mode = "none",
             stage' \in Working \cup {"unmount"} => mode # "none",
             stage' = "erase" => mode = "rw"
      PROVE  MountInv'
  BY <1>1 DEF MountInv, SimulationLeavesNoTrace
<1>2. CASE UNCHANGED vars \/ Cancel
  <2>1. UNCHANGED <<fake, card, copy, mode, temps, unremoved, n, step, stage>>
    BY <1>2 DEF vars, Cancel, stage
  <2> QED
    BY <2>1 DEF MountInv, SimulationLeavesNoTrace
<1>3. CASE Insert
  BY <1>3 DEF Insert, stage, MountInv, SimulationLeavesNoTrace
<1>4. CASE Crash
  BY <1>4 DEF Crash, stage, MountInv, SimulationLeavesNoTrace
<1>5. CASE Deliver \/ Answer
  <2>1. UNCHANGED <<setup, mounted, table, then>> /\ stage' = stage
    BY <1>5, DeliverKeeps
  <2>2. step = "notify" /\ step' \in {"notify", then}
    BY <1>5 DEF Deliver, Pass, Post, TimeOut, Notified, Answer, Delivering
  <2> QED
    BY <1>1, <2>1, <2>2 DEF TypeOK, MountInv
<1>6. CASE StartJob \/ Announce
  <2>1. /\ UNCHANGED <<setup, mounted, n>>
        /\ stage \in {"start", "announce"} /\ step = stage
        /\ stage' \in {"announce", "mount"} /\ step' \in {"announce", "notify"}
    BY <1>6 DEF StartJob, Announce, Emit, stage
  <2> QED
    BY <1>1, <2>1 DEF MountInv
<1>7. CASE Mount
  BY <1>7 DEF Mount, stage, MountInv, SimulationLeavesNoTrace
<1>8. CASE MakeTemp
  BY <1>8 DEF MakeTemp, stage, MountInv, SimulationLeavesNoTrace
<1>9. CASE CopyTree
  BY <1>9 DEF CopyTree, stage, MountInv, SimulationLeavesNoTrace
<1>10. CASE Discard
  BY <1>10 DEF Discard, RemoveTemp, stage, MountInv, SimulationLeavesNoTrace
<1>11. CASE Scan \/ CtxDone \/ IngestFile \/ Decide
  <2>1. /\ UNCHANGED <<setup, mounted, n>>
        /\ stage \in {"ingest", "files"} /\ step = stage
        /\ step' \in {"files", "fail", "remount", "finish"} /\ stage' = step'
    BY <1>11 DEF Scan, CtxDone, IngestFile, Skip, Dedupe, Copy, GiveUp, Abort,
                 Decide, stage
  <2> QED
    BY <1>1, <2>1 DEF MountInv
<1>12. CASE Remount
  BY <1>12 DEF Remount, stage, MountInv, SimulationLeavesNoTrace
<1>13. CASE Erase
  <2>1. /\ step = "erase" /\ stage = "erase" /\ stage' = "finish"
        /\ step' \in {"finish", "notify"}
        /\ UNCHANGED <<fake, mode, temps, unremoved, n>>
        /\ fake => card' = card
    BY <1>13 DEF Erase, RemoveFiles, EmitError, Emit, stage
  <2> QED
    BY <2>1 DEF MountInv, SimulationLeavesNoTrace
<1>14. CASE Finish \/ PublishComplete \/ Fail \/ PublishError
  <2>1. /\ UNCHANGED <<setup, mounted, n>>
        /\ step \in {"finish", "publish", "fail", "failed"} /\ step = stage
        /\ step' \in {"notify", "unmount", "idle"}
        /\ \/ stage = "finish" /\ stage' = "publish"
           \/ stage = "publish" /\ stage' = "unmount"
           \/ stage = "fail" /\ stage' = "failed"
           \/ stage = "failed" /\ stage' = "idle" /\ mode = "none"
           \/ stage = "failed" /\ stage' = "unmount" /\ mode # "none"
    BY <1>14 DEF Finish, PublishComplete, Fail, PublishError, EmitError, Emit,
                 stage
  <2> QED
    BY <1>1, <2>1 DEF MountInv
<1>15. CASE Unmount
  BY <1>15 DEF Unmount, RemoveTemp, stage, MountInv, SimulationLeavesNoTrace
<1> QED
  BY <1>2, <1>3, <1>4, <1>5, <1>6, <1>7, <1>8, <1>9, <1>10, <1>11, <1>12,
     <1>13, <1>14, <1>15 DEF Next, Work

\* The fixture stays whole, a job works on all of it, and private copies are
\* left behind only by a removal that failed or the end of the process, also
\* in the middle of the copying, over any number of jobs.
THEOREM CopiesGoWithTheirJob == Spec => []SimulationLeavesNoTrace
<1>1. MountInv => SimulationLeavesNoTrace
  BY DEF MountInv
<1> QED
  BY <1>1, TypeInit, TypeStep, MountInit, MountStep, PTL DEF Spec

-----------------------------------------------------------------------------
(* What is announced.                                                      *)

\* A row is the newest for as long as its job goes on, and it has an outcome
\* only from the moment its job says so.
RowInv ==
    /\ id # 0 => id = Len(rows)
    /\ stage = "start" => id = 0
    /\ id # 0 /\ rows[id].status = "complete"
          => stage \in {"publish", "unmount", "idle"}

RowSays(c) == id # 0 /\ ~unrecorded => rows[id] = CompleteRow(c)
RowSaysError == id # 0 /\ ~unrecorded => rows[id].status = "error"

AnnounceInv ==
    /\ step = "notify" /\ note.event = "complete"
          => then = "publish" /\ note.counts = counts
    /\ stage = "publish" => RowSays(counts)
    /\ stage = "failed" => RowSaysError
    /\ \A p \in posted : p.payload.event = "complete" =>
          /\ stage \in {"publish", "unmount", "idle"}
          /\ RowSays(p.payload.data)
    /\ \A e \in events :
          /\ e.type # "job_start" => stage \in {"unmount", "idle"}
          /\ e.type = "job_complete" => RowSays(e.counts)
          /\ e.type = "job_error" => RowSaysError

LEMMA AnnounceInit == Init => RowInv /\ AnnounceInv
BY DEF Init, RowInv, AnnounceInv, stage

LEMMA RowStep == TypeOK /\ RowInv /\ [Next]_vars => RowInv'
<1> SUFFICES ASSUME TypeOK, RowInv, [Next]_vars PROVE RowInv'
  OBVIOUS
<1> USE DEF TypeOK, RowInv, stage, setup, mounted, work, table, notifying
<1>1. CASE UNCHANGED <<id, rows>> /\ stage' = stage
  <2> HIDE DEF stage
  <2> QED
    BY <1>1
<1>2. CASE UNCHANGED vars \/ Cancel \/ Deliver \/ Answer
  <2>1. UNCHANGED <<id, rows>> /\ stage' = stage
    BY <1>2, DeliverKeeps DEF vars, Cancel
  <2> QED
    BY <1>1, <2>1
<1>3. CASE Insert \/ Crash
  BY <1>3 DEF Insert, Crash
<1>4. CASE StartJob
  <2>1. \/ rows' = Append(rows, RowOf("running")) /\ id' = Len(rows) + 1
        \/ UNCHANGED <<rows, id>>
    BY <1>4 DEF StartJob, InsertRow
  <2>2. step = "start" /\ step' = "announce"
    BY <1>4 DEF StartJob
  <2> QED
    BY <2>1, <2>2 DEF RowOf
<1>5. CASE Announce \/ Mount \/ MakeTemp \/ CopyTree \/ Discard \/ Scan
           \/ CtxDone \/ Decide \/ Remount
  BY <1>5 DEF Announce, Emit, Mount, MakeTemp, CopyTree, Discard, Scan,
              CtxDone, Decide, Remount
<1>6. CASE IngestFile
  BY <1>6 DEF IngestFile, Skip, Dedupe, Copy, GiveUp, Abort
<1>7. CASE Erase
  BY <1>7 DEF Erase, EmitError, Emit
<1>8. CASE Finish
  BY <1>8 DEF Finish, FinishJob, UpdateRow, Emit
<1>9. CASE Fail
  BY <1>9 DEF Fail, FinishJob, UpdateRow, EmitError, Emit, RowOf
<1>10. CASE PublishComplete \/ PublishError \/ Unmount
  BY <1>10 DEF PublishComplete, PublishError, Unmount
<1> QED
  BY <1>2, <1>3, <1>4, <1>5, <1>6, <1>7, <1>8, <1>9, <1>10 DEF Next, Work

LEMMA AnnounceStep ==
    TypeOK /\ RowInv /\ AnnounceInv /\ [Next]_vars => AnnounceInv'
<1> SUFFICES ASSUME TypeOK, RowInv, AnnounceInv, [Next]_vars
             PROVE  AnnounceInv'
  OBVIOUS
<1> USE DEF AnnounceInv, RowSays, RowSaysError, stage,
        setup, mounted, work, table, notifying
<1>1. CASE UNCHANGED vars \/ Cancel
  BY <1>1 DEF vars, Cancel, counts
<1>2. CASE Insert
  BY <1>2 DEF Insert, TypeOK
<1>3. CASE Crash
  BY <1>3 DEF Crash
<1>4. CASE StartJob
  BY <1>4 DEF StartJob
<1>5. CASE Announce
  BY <1>5 DEF Announce, Emit
<1>6. CASE Deliver \/ Answer
  <2>1. UNCHANGED <<work, table, events, then>> /\ stage' = stage
    BY <1>6, DeliverKeeps
  <2>2. counts' = counts
    BY <2>1 DEF counts
  <2>3. step' = "notify" => step = "notify" /\ note' = note
    BY <1>6 DEF Deliver, Pass, Post, TimeOut, Notified, Answer, Turn,
                Delivering, TypeOK, Stages, Before, Working
  <2>4. posted' = posted
        \/ /\ step = "notify"
           /\ posted' = posted \cup
                {[to |-> built[at], payload |-> Payload(Receiver, note)]}
    BY <1>6 DEF Deliver, Pass, Post, TimeOut, Notified, Answer, Turn,
                Delivering
  <2>5. \A p \in posted' : p \in posted
           \/ /\ step = "notify"
              /\ p.payload.event = note.event
              /\ note.event = "complete" => p.payload.data = note.counts
    BY <2>4 DEF Payload, DataMap
  <2>6. AnnounceInv!1' /\ AnnounceInv!2' /\ AnnounceInv!3' /\ AnnounceInv!5'
    BY <2>1, <2>2, <2>3
  <2>7. AnnounceInv!4'
    BY <2>1, <2>2, <2>5
  <2> QED
    BY <2>6, <2>7
<1>7. CASE Mount \/ MakeTemp \/ CopyTree \/ Discard \/ Scan \/ CtxDone
           \/ Decide \/ Remount
  BY <1>7 DEF Mount, MakeTemp, CopyTree, Discard, Scan, CtxDone, Decide,
              Remount
<1>8. CASE IngestFile
  BY <1>8 DEF IngestFile, Skip, Dedupe, Copy, GiveUp, Abort
<1>9. CASE Erase
  BY <1>9 DEF Erase, EmitError, Emit
<1>10. CASE Finish
  <2>1. counts' = counts
    BY <1>10 DEF Finish, counts
  <2>2. step = "finish" /\ step' = "notify" /\ then' = "publish"
        /\ UNCHANGED <<posted, events, id>>
        /\ note' = [event |-> "complete", counts |-> counts]
    BY <1>10 DEF Finish, Emit
  <2>3. RowSays(counts)'
    BY <1>10, <2>1 DEF Finish, FinishJob, UpdateRow, TypeOK, RowInv
  <2> QED
    BY <2>1, <2>2, <2>3
<1>11. CASE PublishComplete
  <2>1. counts' = counts /\ step = "publish" /\ step' = "unmount"
    BY <1>11 DEF PublishComplete, counts
  <2> QED
    BY <1>11, <2>1 DEF PublishComplete
<1>12. CASE Fail
  <2>1. RowSaysError'
    BY <1>12 DEF Fail, FinishJob, UpdateRow, RowOf, TypeOK, RowInv
  <2> QED
    BY <1>12, <2>1 DEF Fail, EmitError, Emit
<1>13. CASE PublishError
  BY <1>13 DEF PublishError
<1>14. CASE Unmount
  BY <1>14 DEF Unmount
<1> QED
  BY <1>1, <1>2, <1>3, <1>4, <1>5, <1>6, <1>7, <1>8, <1>9, <1>10, <1>11,
     <1>12, <1>13, <1>14 DEF Next, Work

\* Who was told that a job is complete, or of an error, finds that job and
\* that outcome in the newest row, whatever the notifiers and whatever order
\* the row, the notification and the event arrive in.
THEOREM ToldIsInTheTable == Spec => []AnnouncedIsRecorded
<1>1. TypeOK /\ RowInv /\ AnnounceInv => AnnouncedIsRecorded
  <2> SUFFICES ASSUME TypeOK, RowInv, AnnounceInv, id # 0, ~unrecorded
               PROVE  AnnouncedIsRecorded
    BY DEF AnnouncedIsRecorded
  <2>1. GetJobs(1)[1] = [id |-> id, row |-> rows[id]]
    BY NewestJob DEF TypeOK, RowInv
  <2>2. \A p \in posted : p.payload.event = "complete" =>
            rows[id] = CompleteRow(p.payload.data)
    BY DEF AnnounceInv, RowSays
  <2>3. \A e \in events :
            /\ e.type = "job_complete" => rows[id] = CompleteRow(e.counts)
            /\ e.type = "job_error" => rows[id].status = "error"
    BY DEF AnnounceInv, RowSays, RowSaysError
  <2> QED
    BY <2>1, <2>2, <2>3 DEF AnnouncedIsRecorded
<1> QED
  BY <1>1, TypeInit, TypeStep, AnnounceInit, RowStep, AnnounceStep, PTL
     DEF Spec

-----------------------------------------------------------------------------
(* What the row of a completed job claims.                                 *)

Copies == {l \in landed : l[1] = n}
Outcomes == res.verified \cup res.skipped \cup res.failed
Gone == scanned \ Visible

\* The result accounts for what was found and for the copies of this job.
Accounts ==
    /\ IsFiniteSet(Copies) /\ res.copied = Cardinality(Copies)
    /\ \A l \in Copies : l[2] \in res.verified
    /\ scanned = Outcomes \cup todo
    /\ Outcomes \cap todo = {}
    /\ res.verified \cap res.skipped = {}
    /\ res.verified \cap res.failed = {}
    /\ res.skipped \cap res.failed = {}
    /\ res.copied + res.deduped = Cardinality(res.verified)

\* The error of an incomplete erase is on its way, has been notified, or was
\* cut short with the job.
ErrorOnItsWay == step = "notify" /\ then = "finish" /\ note.event = "error"
ErrorSaid == done \/ "error" \in noted \/ ErrorOnItsWay

\* Nothing is gone but what was to be erased, and all of that unless the error
\* was said.
ErasedAsSaid ==
    mode # "none" =>
        /\ Gone \subseteq erasing
        /\ Gone = erasing \/ ErrorSaid

Ended == id # 0 /\ rows[id].status = "complete"

AccountInv ==
    /\ stage \in Before \cup Working \/ Ended => Accounts
    /\ stage \in Before \cup {"ingest"} =>
          scanned = {} /\ res.copied = 0 /\ res.deduped = 0
    /\ stage \in {"files", "remount", "erase"} => Visible = scanned
    /\ stage \in {"remount", "erase", "finish", "publish"} \/ Ended =>
          /\ todo = {}
          /\ erasing \subseteq res.verified \cup res.skipped
    /\ stage \in {"finish", "publish"} \/ Ended => ErasedAsSaid
    /\ Ended => rows[id] = CompleteRow(counts)

LEMMA DisjointUnion ==
    ASSUME NEW S, NEW T, IsFiniteSet(S), IsFiniteSet(T), S \cap T = {}
    PROVE  Cardinality(S \cup T) = Cardinality(S) + Cardinality(T)
<1>1. Cardinality(S) \in Nat /\ Cardinality(T) \in Nat
  BY FS_CardinalityType
<1>2. Cardinality(S \cap T) = 0
  BY FS_EmptySet
<1>3. Cardinality(S \cup T)
        = Cardinality(S) + Cardinality(T) - Cardinality(S \cap T)
  BY FS_Union
<1> QED
  BY <1>1, <1>2, <1>3

LEMMA AccountInit == Init => AccountInv
<1> SUFFICES ASSUME Init PROVE AccountInv
  OBVIOUS
<1>1. stage = "idle" /\ id = 0
  BY DEF Init, stage
<1> QED
  BY <1>1 DEF AccountInv, Ended, Before, Working, Init

LEMMA AccountStep ==
    TypeOK /\ RowInv /\ AccountInv /\ [Next]_vars => AccountInv'
<1> SUFFICES ASSUME TypeOK, RowInv, AccountInv, [Next]_vars
             PROVE  AccountInv'
  OBVIOUS
<1> USE DEF Before, Working, setup, mounted, work, table, notifying
<1>1. ASSUME UNCHANGED <<setup, card, copy, work, table>>,
             mode' \in {mode, "none"} \/ mode # "none",
             ErrorSaid => ErrorSaid'
      PROVE  /\ Accounts' = Accounts /\ counts' = counts /\ Ended' = Ended
             /\ Visible' = Visible
             /\ ErasedAsSaid => ErasedAsSaid'
  BY <1>1 DEF Accounts, Copies, Outcomes, counts, Ended, Visible,
              ErasedAsSaid, Gone
<1>2. CASE UNCHANGED vars \/ Cancel \/ Deliver \/ Answer
  <2>1. UNCHANGED <<setup, mounted, work, table>> /\ stage' = stage
    BY <1>2, DeliverKeeps DEF vars, Cancel, stage
  <2>2. ErrorSaid => ErrorSaid'
    BY <1>2 DEF vars, Cancel, Deliver, Pass, Post, TimeOut, Notified, Answer,
                Turn, Delivering, ErrorSaid, ErrorOnItsWay
  <2> QED
    BY <1>1, <2>1, <2>2 DEF AccountInv
<1>3. CASE Insert
  <2>1. Copies' = {}
    BY <1>3 DEF Insert, Copies, TypeOK
  <2>2. Accounts'
    BY <1>3, <2>1, FS_EmptySet DEF Insert, Accounts, Outcomes, NoResult
  <2>3. stage' = "start" /\ id' = 0 /\ scanned' = {} /\ res' = NoResult
    BY <1>3 DEF Insert, stage
  <2> QED
    BY <2>2, <2>3 DEF AccountInv, Ended, NoResult
<1>4. stage \notin {"publish", "unmount", "idle"} => ~Ended
  BY DEF RowInv, Ended
<1>5. CASE StartJob
  <2>1. step = "start" /\ step' = "announce" /\ id = 0
    BY <1>5 DEF StartJob, RowInv, stage
  <2>2. ~Ended'
    BY <1>5, <2>1 DEF StartJob, InsertRow, RowOf, Ended, TypeOK
  <2>3. Accounts' = Accounts /\ UNCHANGED <<scanned, res>>
    BY <1>5 DEF StartJob, Accounts, Copies, Outcomes
  <2> QED
    BY <2>1, <2>2, <2>3 DEF AccountInv, stage
<1>6. CASE Announce
  <2>1. stage = "announce" /\ stage' = "mount"
    BY <1>6 DEF Announce, Emit, stage
  <2>2. /\ UNCHANGED <<setup, mounted, work, table>>
        /\ ErrorSaid => ErrorSaid'
    BY <1>6 DEF Announce, Emit, ErrorSaid, ErrorOnItsWay
  <2>3. Accounts' = Accounts /\ ~Ended' /\ UNCHANGED <<scanned, res>>
    BY <1>1, <1>4, <2>1, <2>2
  <2> QED
    BY <2>1, <2>3 DEF AccountInv
<1>7. CASE Mount \/ MakeTemp \/ CopyTree \/ Discard
  <2>1. /\ stage \in {"mount", "copying", "discard"}
        /\ stage' \in {"copying", "discard", "ingest", "fail"}
    BY <1>7 DEF Mount, MakeTemp, CopyTree, Discard, stage
  <2>2. UNCHANGED <<work, table>>
    BY <1>7 DEF Mount, MakeTemp, CopyTree, Discard
  <2>3. Accounts' = Accounts /\ Ended' = Ended
    BY <2>2 DEF Accounts, Copies, Outcomes, Ended
  <2> QED
    BY <1>4, <2>1, <2>2, <2>3 DEF AccountInv
<1>8. CASE Scan
  <2>1. stage = "ingest" /\ ~Ended /\ ~Ended' /\ UNCHANGED <<n, res, landed>>
    BY <1>4, <1>8 DEF Scan, stage, Ended
  <2>2. Accounts /\ scanned = {} /\ res.copied = 0 /\ res.deduped = 0
    BY <2>1 DEF AccountInv
  <2>3. Outcomes = {} /\ Outcomes' = {} /\ Copies' = Copies
    BY <2>1, <2>2 DEF Accounts, Outcomes, Copies
  <2>4. CASE stage' = "files"
    <3>1. scanned' = Visible /\ todo' = Visible /\ Visible' = Visible
      BY <1>8, <2>4 DEF Scan, Visible, stage
    <3>2. Accounts'
      BY <2>1, <2>2, <2>3, <3>1 DEF Accounts
    <3> QED
      BY <2>1, <2>4, <3>1, <3>2 DEF AccountInv
  <2>5. CASE stage' = "fail"
    BY <2>1, <2>5 DEF AccountInv
  <2> QED
    BY <1>8, <2>4, <2>5 DEF Scan, stage
<1>9. CASE CtxDone
  <2>1. stage = "files" /\ stage' = "fail" /\ Ended' = Ended
    BY <1>9 DEF CtxDone, stage, Ended
  <2> QED
    BY <1>4, <2>1 DEF AccountInv
<1>10. CASE IngestFile
  <2>1. PICK f \in todo :
            /\ todo' = todo \ {f}
            /\ Skip(f) \/ Dedupe(f) \/ Copy(f) \/ GiveUp(f) \/ Abort(f)
    BY <1>10 DEF IngestFile
  <2>2. stage = "files" /\ stage' \in {"files", "fail"}
        /\ UNCHANGED <<setup, mounted, scanned, table>>
    BY <1>10, <2>1 DEF IngestFile, Skip, Dedupe, Copy, GiveUp, Abort, stage
  <2>3. ~Ended' /\ Accounts /\ Visible = scanned /\ Visible' = Visible
    BY <1>4, <2>2 DEF AccountInv, Ended, Visible
  <2>4. CASE stage' = "fail"
    BY <2>3, <2>4 DEF AccountInv
  <2>5. CASE stage' = "files"
    <3>1. f \in scanned /\ f \notin Outcomes
      BY <2>1, <2>3 DEF Accounts
    <3>2. Accounts'
      <4>1. CASE Skip(f)
        BY <2>1, <2>2, <2>3, <3>1, <4>1
           DEF Skip, Accounts, Outcomes, Copies, TypeOK
      <4>2. CASE GiveUp(f)
        BY <2>1, <2>2, <2>3, <3>1, <4>2
           DEF GiveUp, Accounts, Outcomes, Copies, TypeOK
      <4>3. CASE Dedupe(f) \/ Copy(f)
        <5>1. /\ res'.verified = res.verified \cup {f}
              /\ res'.skipped = res.skipped /\ res'.failed = res.failed
              /\ res'.copied + res'.deduped = res.copied + res.deduped + 1
              /\ Dedupe(f) => res'.copied = res.copied
              /\ Copy(f) => res'.copied = res.copied + 1
          <6>1. CASE Dedupe(f)
            <7>1. res' = [verified |-> res.verified \cup {f},
                          skipped |-> res.skipped, failed |-> res.failed,
                          copied |-> res.copied, deduped |-> res.deduped + 1]
              BY <6>1 DEF Dedupe, TypeOK
            <7> QED
              BY <6>1, <7>1 DEF Dedupe, Copy, TypeOK
          <6>2. CASE Copy(f)
            <7>1. res' = [verified |-> res.verified \cup {f},
                          skipped |-> res.skipped, failed |-> res.failed,
                          copied |-> res.copied + 1, deduped |-> res.deduped]
              BY <6>2 DEF Copy, TypeOK
            <7> QED
              BY <6>2, <7>1 DEF Dedupe, Copy, TypeOK
          <6> QED
            BY <4>3, <6>1, <6>2
        <5>2. IsFiniteSet(res.verified)
          BY FilesTyped, FS_Subset DEF TypeOK
        <5>3. Cardinality(res'.verified) = Cardinality(res.verified) + 1
          BY <3>1, <5>1, <5>2, FS_AddElement DEF Outcomes
        <5>4. /\ IsFiniteSet(Copies') /\ res'.copied = Cardinality(Copies')
              /\ \A l \in Copies' : l[2] \in res'.verified
          <6>1. CASE Dedupe(f)
            <7>1. Copies' = Copies
              BY <2>2, <6>1 DEF Dedupe, Copies
            <7> QED
              BY <2>3, <5>1, <6>1, <7>1 DEF Accounts
          <6>2. CASE Copy(f)
            <7>1. Copies' = Copies \cup {<<n, f>>}
              BY <2>2, <6>2 DEF Copy, Copies
            <7>2. <<n, f>> \notin Copies
              BY <2>3, <3>1 DEF Accounts, Outcomes
            <7>3. IsFiniteSet(Copies) /\ res.copied = Cardinality(Copies)
              BY <2>3 DEF Accounts
            <7>4. /\ IsFiniteSet(Copies')
                  /\ Cardinality(Copies') = Cardinality(Copies) + 1
              BY <7>1, <7>2, <7>3, FS_AddElement
            <7>5. \A l \in Copies : l[2] \in res.verified
              BY <2>3 DEF Accounts
            <7>6. \A l \in Copies' : l[2] \in res'.verified
              BY <5>1, <7>1, <7>5
            <7> QED
              BY <5>1, <6>2, <7>3, <7>4, <7>6
          <6> QED
            BY <4>3, <6>1, <6>2
        <5>5. Outcomes' = Outcomes \cup {f}
          BY <5>1 DEF Outcomes
        <5> QED
          BY <2>1, <2>2, <2>3, <3>1, <5>1, <5>3, <5>4, <5>5
             DEF Accounts, Outcomes
      <4>4. CASE Abort(f)
        BY <2>2, <2>5, <4>4 DEF Abort, stage
      <4> QED
        BY <2>1, <4>1, <4>2, <4>3, <4>4
    <3> QED
      BY <2>2, <2>3, <2>5, <3>2 DEF AccountInv
  <2> QED
    BY <2>2, <2>4, <2>5
<1>11. CASE Decide
  <2>1. /\ stage = "files" /\ stage' \in {"finish", "remount"} /\ todo = {}
        /\ UNCHANGED <<setup, mounted, scanned, todo, res, landed, n, table>>
    BY <1>11 DEF Decide, stage
  <2>2. ~Ended' /\ Accounts' /\ Visible = scanned /\ Visible' = Visible
    BY <1>4, <2>1
       DEF AccountInv, Ended, Visible, Accounts, Outcomes, Copies
  <2>3. erasing' \subseteq res.verified \cup res.skipped
    BY <1>11 DEF Decide
  <2>4. stage' = "finish" => ErasedAsSaid'
    <3>1. stage' = "finish" => erasing' = {}
      BY <1>11 DEF Decide, stage
    <3>2. Gone' = {}
      BY <2>1, <2>2 DEF Gone
    <3> QED
      BY <3>1, <3>2 DEF ErasedAsSaid
  <2> QED
    BY <2>1, <2>2, <2>3, <2>4 DEF AccountInv
<1>12. CASE Remount
  <2>1. /\ stage = "remount" /\ stage' \in {"erase", "fail"}
        /\ UNCHANGED <<setup, card, copy, work, table>>
    BY <1>12 DEF Remount, stage
  <2>2. ~Ended' /\ Accounts' = Accounts /\ Visible' = Visible
    BY <1>4, <2>1 DEF Ended, Visible, Accounts, Outcomes, Copies
  <2> QED
    BY <2>1, <2>2 DEF AccountInv
<1>13. CASE Erase
  <2>1. /\ stage = "erase" /\ stage' = "finish"
        /\ UNCHANGED <<setup, mode, work, table>>
    BY <1>13 DEF Erase, EmitError, Emit, stage
  <2>2. ~Ended' /\ Accounts' = Accounts /\ todo = {} /\ Visible = scanned
        /\ erasing \subseteq res.verified \cup res.skipped /\ Accounts
    BY <1>4, <2>1 DEF AccountInv, Ended, Accounts, Outcomes, Copies
  <2>3. ErasedAsSaid'
    <3>1. PICK S \in SUBSET erasing :
              /\ Visible' = Visible \ S
              /\ S = erasing \/ ErrorSaid'
      <4>1. PICK S \in SUBSET erasing :
                /\ RemoveFiles(S)
                /\ \/ S = erasing
                   \/ EmitError(Cardinality(erasing \ S), "finish")
        BY <1>13 DEF Erase
      <4>2. Visible' = Visible \ S
        BY <2>1, <4>1 DEF RemoveFiles, Visible
      <4>3. S = erasing \/ ErrorSaid'
        BY <4>1 DEF EmitError, Emit, ErrorSaid, ErrorOnItsWay
      <4> QED
        BY <4>2, <4>3
    <3>2. S \subseteq scanned
      BY <2>2 DEF Accounts, Outcomes
    <3>3. Gone' = S
      BY <2>1, <2>2, <3>1, <3>2 DEF Gone
    <3> QED
      BY <2>1, <3>1, <3>3 DEF ErasedAsSaid
  <2> QED
    BY <2>1, <2>2, <2>3 DEF AccountInv
<1>14. CASE Finish
  <2>1. /\ stage = "finish" /\ stage' = "publish" /\ ~Ended
        /\ UNCHANGED <<setup, mounted, work, n, id>>
        /\ ErrorSaid => ErrorSaid'
    BY <1>4, <1>14 DEF Finish, Emit, stage, ErrorSaid, ErrorOnItsWay
  <2>2. /\ Accounts' = Accounts /\ counts' = counts
        /\ ErasedAsSaid => ErasedAsSaid'
    BY <2>1 DEF Accounts, Copies, Outcomes, counts, ErasedAsSaid, Gone, Visible
  <2>3. Ended' => rows'[id] = CompleteRow(counts)
    BY <1>14, <2>1 DEF Finish, FinishJob, UpdateRow, Ended, TypeOK, RowInv
  <2> QED
    BY <2>1, <2>2, <2>3 DEF AccountInv
<1>15. CASE PublishComplete
  <2>1. /\ stage = "publish" /\ stage' = "unmount"
        /\ UNCHANGED <<setup, mounted, work, table>>
        /\ ErrorSaid => ErrorSaid'
    BY <1>15 DEF PublishComplete, stage, ErrorSaid, ErrorOnItsWay
  <2>2. /\ Accounts' = Accounts /\ counts' = counts /\ Ended' = Ended
        /\ ErasedAsSaid => ErasedAsSaid'
    BY <1>1, <2>1
  <2> QED
    BY <2>1, <2>2 DEF AccountInv
<1>16. CASE Fail
  <2>1. stage = "fail" /\ stage' = "failed" /\ UNCHANGED id
    BY <1>16 DEF Fail, EmitError, Emit, stage
  <2>2. ~Ended'
    BY <1>4, <1>16, <2>1
       DEF Fail, FinishJob, UpdateRow, RowOf, Ended, TypeOK, RowInv
  <2> QED
    BY <2>1, <2>2 DEF AccountInv
<1>17. CASE PublishError
  <2>1. /\ stage = "failed" /\ stage' \in {"unmount", "idle"}
        /\ UNCHANGED table
    BY <1>17 DEF PublishError, stage
  <2>2. ~Ended'
    BY <1>4, <2>1 DEF Ended
  <2> QED
    BY <2>1, <2>2 DEF AccountInv
<1>18. CASE Unmount \/ Crash
  <2>1. stage' = "idle" /\ mode' = "none"
        /\ UNCHANGED <<work, table>>
    BY <1>18 DEF Unmount, Crash, stage
  <2>2. /\ Accounts' = Accounts /\ counts' = counts /\ Ended' = Ended
        /\ ErasedAsSaid'
    BY <2>1 DEF Accounts, Copies, Outcomes, counts, Ended, ErasedAsSaid
  <2> QED
    BY <2>1, <2>2 DEF AccountInv
<1> QED
  BY <1>2, <1>3, <1>5, <1>6, <1>7, <1>8, <1>9, <1>10, <1>11, <1>12, <1>13,
     <1>14, <1>15, <1>16, <1>17, <1>18 DEF Next, Work

-----------------------------------------------------------------------------
(* What the sums claim.                                                    *)

\* The copies the rows count are those of earlier jobs until the job of the
\* newest row says it is complete; from then on its own are counted too.
StatsInv ==
    /\ IsFiniteSet(landed)
    /\ IsFiniteSet(Counted)
    /\ Cardinality(Counted) <=
          Cardinality(IF Ended THEN landed ELSE landed \ Copies)
    /\ Len(rows) <= n
    /\ stage = "start" => Len(rows) < n

LEMMA UpTo ==
    ASSUME NEW k \in Nat PROVE IsFiniteSet(1 .. k) /\ Cardinality(1 .. k) = k
<1>1. 1 \in Int /\ k \in Int /\ (IF 1 > k THEN 0 ELSE k - 1 + 1) = k
  OBVIOUS
<1>2. /\ IsFiniteSet(1 .. k)
      /\ Cardinality(1 .. k) = IF 1 > k THEN 0 ELSE k - 1 + 1
  BY <1>1, FS_Interval
<1> QED
  BY <1>1, <1>2

\* A row that is not complete counts nothing.
LEMMA OnlyCompleteCount ==
    ASSUME NEW row \in RowsPossible
    PROVE  /\ row.copied \in Nat
           /\ row.status # "complete" => 1 .. row.copied = {}
BY DEF RowsPossible, RowOf, CompleteRow, Counts

\* A row that counts nothing more adds nothing to the sum.
LEMMA CountedKeeps ==
    ASSUME DOMAIN rows \subseteq DOMAIN rows',
           \A k \in DOMAIN rows : rows'[k].copied = rows[k].copied,
           \A k \in DOMAIN rows' \ DOMAIN rows : rows'[k].copied = 0
    PROVE  Counted' = Counted
<1>1. \A k \in DOMAIN rows :
          {k} \X (1 .. rows'[k].copied) = {k} \X (1 .. rows[k].copied)
  OBVIOUS
<1>2. \A k \in DOMAIN rows' \ DOMAIN rows :
          {k} \X (1 .. rows'[k].copied) = {}
  OBVIOUS
<1> QED
  BY <1>1, <1>2 DEF Counted

LEMMA StatsInit == Init => StatsInv
<1> SUFFICES ASSUME Init PROVE StatsInv
  OBVIOUS
<1>1. rows = <<>> /\ landed = {} /\ stage = "idle" /\ n = 0
  BY DEF Init, stage
<1>2. Counted = {} /\ landed \ Copies = {}
  BY <1>1 DEF Counted
<1> QED
  BY <1>1, <1>2, FS_EmptySet DEF StatsInv

LEMMA StatsStep ==
    TypeOK /\ RowInv /\ AccountInv /\ StatsInv /\ [Next]_vars => StatsInv'
<1> SUFFICES ASSUME TypeOK, RowInv, AccountInv, StatsInv, [Next]_vars
             PROVE  StatsInv'
  OBVIOUS
<1> USE DEF setup, mounted, work, table, notifying
<1>1. ASSUME UNCHANGED <<n, id, rows, landed>>, stage' = "start" => FALSE
      PROVE  StatsInv'
  BY <1>1 DEF StatsInv, Counted, Ended, Copies
<1>2. CASE UNCHANGED vars \/ Cancel \/ Deliver \/ Answer
  <2>1. UNCHANGED <<n, id, rows, landed>> /\ stage' = stage
    BY <1>2, DeliverKeeps DEF vars, Cancel, stage
  <2> QED
    BY <2>1 DEF StatsInv, Counted, Ended, Copies
<1>3. CASE Announce \/ Mount \/ MakeTemp \/ CopyTree \/ Discard \/ Scan
           \/ CtxDone \/ Decide \/ Remount \/ Erase \/ PublishComplete
           \/ PublishError \/ Unmount \/ Crash
  <2>1. UNCHANGED <<n, id, rows, landed>>
    BY <1>3 DEF Announce, Mount, MakeTemp, CopyTree, Discard, Scan, CtxDone,
                Decide, Remount, Erase, PublishComplete, PublishError,
                Unmount, Crash
  <2>2. stage' # "start"
    BY <1>3 DEF Announce, Mount, MakeTemp, CopyTree, Discard, Scan, CtxDone,
                Decide, Remount, Erase, PublishComplete, PublishError,
                Unmount, Crash, Emit, EmitError, stage, TypeOK, Stages,
                Before, Working
  <2> QED
    BY <1>1, <2>1, <2>2
<1>4. CASE Insert
  <2>1. n' = n + 1 /\ id' = 0 /\ UNCHANGED <<rows, landed>>
    BY <1>4 DEF Insert
  <2>2. landed' \ Copies' = landed /\ ~Ended'
    BY <2>1 DEF Copies, Ended, TypeOK
  <2>3. Counted' = Counted
    BY <2>1 DEF Counted
  <2>4. /\ Cardinality(landed \ Copies) <= Cardinality(landed)
        /\ Cardinality(landed \ Copies) \in Nat
        /\ Cardinality(landed) \in Nat /\ Cardinality(Counted) \in Nat
    BY FS_Subset, FS_CardinalityType DEF StatsInv
  <2>5. Cardinality(Counted) <= Cardinality(landed)
    BY <2>4 DEF StatsInv
  <2>6. Len(rows) <= n' /\ Len(rows) < n'
    BY <2>1 DEF StatsInv, TypeOK
  <2>7. IsFiniteSet(landed') /\ IsFiniteSet(Counted')
    BY <2>1, <2>3 DEF StatsInv
  <2> QED
    BY <2>1, <2>2, <2>3, <2>5, <2>6, <2>7 DEF StatsInv
<1>5. CASE StartJob
  <2>1. step = "start" /\ step' = "announce" /\ id = 0
        /\ UNCHANGED <<n, landed>>
    BY <1>5 DEF StartJob, RowInv, stage
  <2>2. CASE InsertRow /\ id' = Len(rows) + 1
    <3>1. rows' = Append(rows, RowOf("running")) /\ rows \in Seq(RowsPossible)
      BY <2>2 DEF InsertRow, TypeOK
    <3>2. /\ Len(rows') = Len(rows) + 1 /\ Len(rows) \in Nat
          /\ DOMAIN rows = 1 .. Len(rows)
          /\ DOMAIN rows' = 1 .. (Len(rows) + 1)
          /\ rows'[Len(rows) + 1] = RowOf("running")
          /\ \A k \in DOMAIN rows : rows'[k] = rows[k]
      BY <3>1
    <3>3. RowOf("running").copied = 0 /\ RowOf("running").status = "running"
      BY DEF RowOf
    <3>4. Counted' = Counted
      BY <3>2, <3>3, CountedKeeps
    <3>5. ~Ended /\ ~Ended'
      BY <2>1, <2>2, <3>2, <3>3 DEF Ended
    <3> QED
      BY <2>1, <3>2, <3>4, <3>5 DEF StatsInv, Copies, stage, TypeOK
  <2>3. CASE UNCHANGED <<rows, id>>
    BY <1>1, <2>1, <2>3 DEF stage
  <2> QED
    BY <1>5, <2>2, <2>3 DEF StartJob
<1>6. CASE IngestFile
  <2>1. PICK f \in todo :
            Skip(f) \/ Dedupe(f) \/ Copy(f) \/ GiveUp(f) \/ Abort(f)
    BY <1>6 DEF IngestFile
  <2>2. UNCHANGED <<n, id, rows>> /\ stage = "files" /\ stage' # "start"
    BY <1>6, <2>1
       DEF IngestFile, Skip, Dedupe, Copy, GiveUp, Abort, stage
  <2>3. landed' = landed \/ landed' = landed \cup {<<n, f>>}
    BY <2>1 DEF Skip, Dedupe, Copy, GiveUp, Abort
  <2>4. IsFiniteSet(landed')
    BY <2>3, FS_AddElement DEF StatsInv
  <2>5. landed' \ Copies' = landed \ Copies
    BY <2>2, <2>3 DEF Copies
  <2>6. ~Ended /\ ~Ended'
    BY <2>2 DEF RowInv, Ended
  <2>7. Counted' = Counted
    BY <2>2 DEF Counted
  <2> QED
    BY <2>2, <2>4, <2>5, <2>6, <2>7 DEF StatsInv
<1>7. stage \notin {"publish", "unmount", "idle"} => ~Ended
  BY DEF RowInv, Ended
\* The row of a job that is not complete becomes another.
<1>8. ASSUME id # 0, ~Ended, NEW row \in RowsPossible, UpdateRow(id, row)
      PROVE  /\ Len(rows') = Len(rows) /\ rows'[id] = row
             /\ Counted' = Counted \cup ({id} \X (1 .. row.copied))
             /\ Counted \cap ({id} \X (1 .. row.copied)) = {}
  <2>1. /\ rows \in Seq(RowsPossible) /\ id \in DOMAIN rows
        /\ rows' = [rows EXCEPT ![id] = row]
    BY <1>8 DEF TypeOK, RowInv, UpdateRow
  <2>2. /\ DOMAIN rows' = DOMAIN rows /\ Len(rows') = Len(rows)
        /\ rows'[id] = row
        /\ \A k \in DOMAIN rows : k # id => rows'[k] = rows[k]
    BY <2>1
  <2>3. rows[id] \in RowsPossible
    BY <2>1
  <2>4. 1 .. rows[id].copied = {}
    BY <1>8, <2>3, OnlyCompleteCount DEF Ended
  <2>5. \A c : c \in Counted <=>
          \E k \in DOMAIN rows : k # id /\ c \in {k} \X (1 .. rows[k].copied)
    BY <2>1, <2>4 DEF Counted
  <2>6. \A c : c \in Counted' <=>
          \/ c \in {id} \X (1 .. row.copied)
          \/ \E k \in DOMAIN rows :
                k # id /\ c \in {k} \X (1 .. rows[k].copied)
    BY <2>1, <2>2 DEF Counted
  <2>7. Counted' = Counted \cup ({id} \X (1 .. row.copied))
    BY <2>5, <2>6
  <2>8. Counted \cap ({id} \X (1 .. row.copied)) = {}
    BY <2>5
  <2> QED
    BY <2>2, <2>7, <2>8
<1>9. CASE Finish
  <2>1. /\ stage = "finish" /\ stage' = "publish" /\ ~Ended
        /\ UNCHANGED <<n, id, landed>>
    BY <1>7, <1>9 DEF Finish, Emit, stage
  <2>2. CASE UNCHANGED rows
    BY <1>1, <2>1, <2>2
  <2>3. CASE id # 0 /\ UpdateRow(id, CompleteRow(counts))
    <3>1. CompleteRow(counts) \in RowsPossible
      BY CountsTyped DEF RowsPossible
    <3>2. CompleteRow(counts).copied = res.copied
          /\ CompleteRow(counts).status = "complete"
      BY DEF CompleteRow, counts
    <3>3. /\ Len(rows') = Len(rows)
          /\ Counted' = Counted \cup ({id} \X (1 .. res.copied))
          /\ Counted \cap ({id} \X (1 .. res.copied)) = {}
          /\ Ended'
      BY <1>8, <2>1, <2>3, <3>1, <3>2 DEF Ended
    <3>4. /\ IsFiniteSet({id} \X (1 .. res.copied))
          /\ Cardinality({id} \X (1 .. res.copied)) = res.copied
      <4>1. res.copied \in Nat
        BY DEF TypeOK
      <4>2. /\ IsFiniteSet(1 .. res.copied)
            /\ Cardinality(1 .. res.copied) = res.copied
        BY <4>1, UpTo
      <4>3. IsFiniteSet({id}) /\ Cardinality({id}) = 1
        BY FS_Singleton
      <4> QED
        BY <4>1, <4>2, <4>3, FS_Product
    <3>5. IsFiniteSet(Copies) /\ Cardinality(Copies) = res.copied
      BY <2>1 DEF AccountInv, Accounts, Working
    <3>6. IsFiniteSet(landed \ Copies) /\ Copies \subseteq landed
      BY FS_Subset DEF StatsInv, Copies
    <3>7. Cardinality(landed) = Cardinality(landed \ Copies) + res.copied
      <4>1. (landed \ Copies) \cap Copies = {}
            /\ (landed \ Copies) \cup Copies = landed
        BY <3>6
      <4> QED
        BY <3>5, <3>6, <4>1, DisjointUnion
    <3>8. /\ IsFiniteSet(Counted')
          /\ Cardinality(Counted') = Cardinality(Counted) + res.copied
      <4>1. IsFiniteSet(Counted)
        BY DEF StatsInv
      <4>2. /\ IsFiniteSet(Counted \cup ({id} \X (1 .. res.copied)))
            /\ Cardinality(Counted \cup ({id} \X (1 .. res.copied)))
                  = Cardinality(Counted)
                      + Cardinality({id} \X (1 .. res.copied))
        BY <3>3, <3>4, <4>1, DisjointUnion, FS_Union
      <4> QED
        BY <3>3, <3>4, <4>2
    <3>9. Cardinality(Counted') <= Cardinality(landed)
      <4>1. /\ Cardinality(Counted) \in Nat /\ res.copied \in Nat
            /\ Cardinality(landed \ Copies) \in Nat
        BY <3>6, FS_CardinalityType DEF StatsInv, TypeOK
      <4>2. Cardinality(Counted) <= Cardinality(landed \ Copies)
        BY <2>1 DEF StatsInv
      <4> QED
        BY <3>7, <3>8, <4>1, <4>2
    <3> QED
      BY <2>1, <3>3, <3>8, <3>9 DEF StatsInv
  <2> QED
    BY <1>9, <2>2, <2>3 DEF Finish, FinishJob
<1>10. CASE Fail
  <2>1. /\ stage = "fail" /\ stage' = "failed" /\ ~Ended
        /\ UNCHANGED <<n, id, landed>>
    BY <1>7, <1>10 DEF Fail, EmitError, Emit, stage
  <2>2. CASE UNCHANGED rows
    BY <1>1, <2>1, <2>2
  <2>3. CASE id # 0 /\ UpdateRow(id, RowOf("error"))
    <3>1. /\ RowOf("error") \in RowsPossible /\ RowOf("error").copied = 0
          /\ RowOf("error").status = "error"
      BY DEF RowsPossible, RowOf
    <3>2. /\ Counted' = Counted \cup ({id} \X (1 .. 0))
          /\ Len(rows') = Len(rows) /\ rows'[id] = RowOf("error")
      BY <1>8, <2>1, <2>3, <3>1
    <3>3. 1 .. 0 = {}
      OBVIOUS
    <3>4. Counted' = Counted
      BY <3>2, <3>3
    <3>5. ~Ended'
      BY <2>1, <3>1, <3>2 DEF Ended
    <3> QED
      BY <2>1, <3>2, <3>4, <3>5 DEF StatsInv, Copies
  <2> QED
    BY <1>10, <2>2, <2>3 DEF Fail, FinishJob
<1> QED
  BY <1>2, <1>3, <1>4, <1>5, <1>6, <1>9, <1>10 DEF Next, Work

\* The sums of the API never claim a copy nobody placed, nor a job nobody
\* started, for any number of jobs, whatever ends them.
THEOREM SumsAreCovered == Spec => []StatsNeverOverstate
<1>1. StatsInv => StatsNeverOverstate
  <2> SUFFICES ASSUME StatsInv PROVE StatsNeverOverstate
    OBVIOUS
  <2>1. /\ Cardinality(landed \ Copies) <= Cardinality(landed)
        /\ Cardinality(landed \ Copies) \in Nat
        /\ Cardinality(landed) \in Nat /\ Cardinality(Counted) \in Nat
    BY FS_Subset, FS_CardinalityType DEF StatsInv
  <2>2. Cardinality(Counted) <= Cardinality(landed)
    BY <2>1 DEF StatsInv
  <2> QED
    BY <2>2 DEF StatsNeverOverstate, GetStats, StatsInv
<1> QED
  BY <1>1, TypeInit, TypeStep, AnnounceInit, RowStep, AccountInit,
     AccountStep, StatsInit, StatsStep, PTL DEF Spec

-----------------------------------------------------------------------------
(* Who is built, and who has been tried.                                   *)

\* Induction, of a set: what holds of 0 and of each next number.
LEMMA Counting ==
    ASSUME NEW S, 0 \in S, \A m \in Nat : m \in S => m + 1 \in S
    PROVE  Nat \subseteq S
<1> SUFFICES ASSUME Nat \ S # {} PROVE FALSE
  OBVIOUS
<1>1. PICK x \in Nat \ S :
          \A y \in Nat \ S : ~(<<y, x>> \in OpToRel(<, Nat))
  BY NatLessThanWellFounded, WFMin
<1>2. \A y \in Nat : y < x => y \in S
  BY <1>1 DEF OpToRel
<1>3. x \in Nat /\ x \notin S
  OBVIOUS
<1> QED
  BY <1>2, <1>3

\* One turn of the loop of Build.
Turned(cfgs, ns, k) ==
    IF k = 0 THEN <<>>
    ELSE IF Construct(cfgs[k]) THEN Append(ns[k - 1], k) ELSE ns[k - 1]

LEMMA LoopExists ==
    ASSUME NEW cfgs, Len(cfgs) \in Nat
    PROVE  \E ns : ns = [k \in 0 .. Len(cfgs) |-> Turned(cfgs, ns, k)]
<1> DEFINE S == {m \in Nat :
                   \E ns : ns = [k \in 0 .. m |-> Turned(cfgs, ns, k)]}
<1>1. 0 \in S
  <2> DEFINE ns == [k \in 0 .. 0 |-> <<>>]
  <2>1. ns = [k \in 0 .. 0 |-> Turned(cfgs, ns, k)]
    BY DEF Turned
  <2> QED
    BY <2>1
<1>2. ASSUME NEW m \in Nat, m \in S PROVE m + 1 \in S
  <2>1. PICK ns : ns = [k \in 0 .. m |-> Turned(cfgs, ns, k)]
    BY <1>2
  <2> DEFINE nt == [k \in 0 .. (m + 1) |-> Turned(cfgs, ns, k)]
  <2>2. \A k \in 0 .. m : ns[k] = Turned(cfgs, ns, k) /\ k \in 0 .. (m + 1)
    BY <2>1
  <2>3. \A k \in 0 .. m : nt[k] = ns[k]
    BY <2>2
  <2>4. \A k \in 0 .. (m + 1) : Turned(cfgs, nt, k) = Turned(cfgs, ns, k)
    <3> HIDE DEF nt
    <3> TAKE k \in 0 .. (m + 1)
    <3>1. k = 0 \/ k - 1 \in 0 .. m
      OBVIOUS
    <3> QED
      BY <2>3, <3>1 DEF Turned
  <2>5. nt = [k \in 0 .. (m + 1) |-> Turned(cfgs, nt, k)]
    BY <2>4
  <2> HIDE DEF nt
  <2> QED
    BY <2>5
<1> HIDE DEF S
<1>3. Len(cfgs) \in S
  BY <1>1, <1>2, Counting
<1> QED
  BY <1>3 DEF S

LEMMA BuildIsItsLoop ==
    ASSUME NEW cfgs, Len(cfgs) \in Nat
    PROVE  \E ns : /\ ns = [k \in 0 .. Len(cfgs) |-> Turned(cfgs, ns, k)]
                   /\ Build(cfgs) = ns[Len(cfgs)]
<1> DEFINE ns == CHOOSE ns :
                    ns = [k \in 0 .. Len(cfgs) |-> Turned(cfgs, ns, k)]
<1>1. ns = [k \in 0 .. Len(cfgs) |-> Turned(cfgs, ns, k)]
  BY LoopExists, Zenon
<1>2. Build(cfgs) = ns[Len(cfgs)]
  BY Zenon DEF Build, Turned
<1> HIDE DEF ns
<1> QED
  BY <1>1, <1>2, Zenon

\* b is the positions up to m of the notifiers that work: only those, all of
\* them, each once, and in the order of the configuration.
Lists(cfgs, b, m) ==
    /\ b \in Seq(1 .. m)
    /\ \A k \in DOMAIN b : Construct(cfgs[b[k]])
    /\ \A h \in 1 .. m : Construct(cfgs[h]) => \E k \in DOMAIN b : b[k] = h
    /\ \A j, k \in DOMAIN b : j < k => b[j] < b[k]

LEMMA AppendLists ==
    ASSUME NEW cfgs, NEW m \in Nat, NEW b, Lists(cfgs, b, m)
    PROVE  Lists(cfgs, IF Construct(cfgs[m + 1]) THEN Append(b, m + 1) ELSE b,
                 m + 1)
<1>1. /\ b \in Seq(1 .. m) /\ Len(b) \in Nat /\ DOMAIN b = 1 .. Len(b)
      /\ \A k \in DOMAIN b : b[k] \in 1 .. m
  BY DEF Lists
<1>2. b \in Seq(1 .. (m + 1))
  <2>1. \A k \in DOMAIN b : b[k] \in 1 .. (m + 1)
    BY <1>1
  <2> QED
    BY <1>1, <2>1
<1>3. CASE Construct(cfgs[m + 1])
  <2> DEFINE c == Append(b, m + 1)
  <2>1. c \in Seq(1 .. (m + 1))
    BY <1>2
  <2>2. /\ DOMAIN c = 1 .. (Len(b) + 1)
        /\ c[Len(b) + 1] = m + 1
        /\ \A k \in DOMAIN b : c[k] = b[k]
    BY <1>1
  <2> HIDE DEF c
  <2>3. \A k \in DOMAIN c : k \in DOMAIN b \/ k = Len(b) + 1
    BY <1>1, <2>2
  <2>4. \A k \in DOMAIN c : Construct(cfgs[c[k]])
    BY <1>3, <2>2, <2>3 DEF Lists
  <2>5. \A h \in 1 .. (m + 1) : Construct(cfgs[h]) =>
            \E k \in DOMAIN c : c[k] = h
    <3> SUFFICES ASSUME NEW h \in 1 .. (m + 1), Construct(cfgs[h])
                 PROVE  \E k \in DOMAIN c : c[k] = h
      OBVIOUS
    <3>1. CASE h = m + 1
      BY <1>1, <2>2, <3>1
    <3>2. CASE h # m + 1
      <4>1. PICK k \in DOMAIN b : b[k] = h
        BY <3>2 DEF Lists
      <4>2. k \in DOMAIN c /\ c[k] = h
        BY <1>1, <2>2, <4>1
      <4> QED
        BY <4>2
    <3> QED
      BY <3>1, <3>2
  <2>6. ASSUME NEW j \in DOMAIN c, NEW k \in DOMAIN c, j < k
        PROVE  c[j] < c[k]
    <3>1. j \in DOMAIN b
      BY <1>1, <2>2, <2>6
    <3>2. CASE k \in DOMAIN b
      BY <2>2, <2>6, <3>1, <3>2 DEF Lists
    <3>3. CASE k = Len(b) + 1
      <4>1. c[j] \in 1 .. m /\ c[k] = m + 1
        BY <1>1, <2>2, <3>1, <3>3
      <4> QED
        BY <4>1
    <3> QED
      BY <2>3, <3>2, <3>3
  <2>7. Lists(cfgs, c, m + 1)
    BY <2>1, <2>4, <2>5, <2>6 DEF Lists
  <2> QED
    BY <1>3, <2>7 DEF c
<1>4. CASE ~Construct(cfgs[m + 1])
  <2>1. \A h \in 1 .. (m + 1) : Construct(cfgs[h]) => h \in 1 .. m
    BY <1>4
  <2>2. Lists(cfgs, b, m + 1)
    BY <1>2, <2>1 DEF Lists
  <2> QED
    BY <1>4, <2>2
<1> QED
  BY <1>3, <1>4

LEMMA BuildListsTheWorking ==
    ASSUME NEW cfgs, Len(cfgs) \in Nat
    PROVE  Lists(cfgs, Build(cfgs), Len(cfgs))
<1>1. PICK ns : /\ ns = [k \in 0 .. Len(cfgs) |-> Turned(cfgs, ns, k)]
                /\ Build(cfgs) = ns[Len(cfgs)]
  BY BuildIsItsLoop
<1>2. \A k \in 0 .. Len(cfgs) : ns[k] = Turned(cfgs, ns, k)
  BY <1>1, Zenon
<1> DEFINE S == {m \in Nat : m <= Len(cfgs) => Lists(cfgs, ns[m], m)}
<1>3. 0 \in S
  <2>1. ns[0] = <<>>
    BY <1>2 DEF Turned
  <2>2. Lists(cfgs, <<>>, 0)
    BY DEF Lists
  <2> QED
    BY <2>1, <2>2
<1>4. ASSUME NEW m \in Nat, m \in S PROVE m + 1 \in S
  <2> SUFFICES ASSUME m + 1 <= Len(cfgs)
               PROVE  Lists(cfgs, ns[m + 1], m + 1)
    OBVIOUS
  <2>1. ns[m + 1] = IF Construct(cfgs[m + 1]) THEN Append(ns[m], m + 1)
                                              ELSE ns[m]
    <3>1. m + 1 \in 0 .. Len(cfgs) /\ m + 1 # 0 /\ (m + 1) - 1 = m
      OBVIOUS
    <3>2. ns[m + 1] = Turned(cfgs, ns, m + 1)
      BY <1>2, <3>1
    <3> QED
      BY <3>1, <3>2 DEF Turned
  <2>2. Lists(cfgs, ns[m], m)
    BY <1>4
  <2> HIDE DEF S
  <2> QED
    BY <2>1, <2>2, AppendLists
<1>5. Len(cfgs) \in S
  <2> HIDE DEF S
  <2> QED
    BY <1>3, <1>4, Counting
<1> QED
  BY <1>1, <1>5

\* Whose turn is over has been sent what it wanted, unless the context was
\* done; a request that is under way is that of the one whose turn it is.
TriedInv ==
    /\ notifiers \in NotifierLists
    /\ at \in Nat \ {0}
    /\ step = "notify" => at <= Len(built) + 1
    /\ step = "notify" /\ note.event = "error" => note.err \in Nat
    /\ wire => Delivering /\ SentTo(built[at], note.event)
    /\ step = "notify" /\ ~done =>
          \A k \in DOMAIN built :
              k < at /\ WithEvents(notifiers[built[k]], note.event) =>
                  SentTo(built[k], note.event)
    /\ \A e \in noted : \A k \in DOMAIN notifiers :
          Wants(k, e) => SentTo(k, e)
    /\ \A p \in posted : /\ Wants(p.to, p.payload.event)
                         /\ p.payload.body \in 1 .. MaxBody
                         /\ p.payload.priority \in -2 .. 2

\* What is posted is within the writer's limits.
LEMMA PayloadFits ==
    ASSUME NEW c, c.priority \in Int,
           NEW m, m.event = "error" => m.err \in Nat
    PROVE  /\ Payload(c, m).event = m.event
           /\ Payload(c, m).body \in 1 .. MaxBody
           /\ Payload(c, m).priority \in -2 .. 2
<1>1. Body(m) \in Nat
  BY DEF Body
<1>2. Clip(Body(m)) \in 1 .. MaxBody
  BY <1>1, LimitPositive DEF Clip
<1>3. ClampPriority(c.priority) \in -2 .. 2
  BY DEF ClampPriority
<1> QED
  BY <1>2, <1>3 DEF Payload

LEMMA BuiltFromNotifiers ==
    ASSUME notifiers \in NotifierLists
    PROVE  /\ Len(built) \in Nat /\ DOMAIN built = 1 .. Len(built)
           /\ \A k \in DOMAIN built :
                 /\ built[k] \in DOMAIN notifiers
                 /\ Construct(notifiers[built[k]])
                 /\ notifiers[built[k]].priority \in Int
           /\ \A m \in DOMAIN notifiers : Construct(notifiers[m]) =>
                 \E k \in DOMAIN built : built[k] = m
<1>1. /\ Len(notifiers) \in Nat /\ DOMAIN notifiers = 1 .. Len(notifiers)
      /\ \A m \in DOMAIN notifiers : notifiers[m].priority \in Int
  <2> DEFINE Config == [type : STRING, url : STRING, userKey : STRING,
                        on : SUBSET STRING, priority : Int,
                        tokenEnv : STRING]
  <2>1. notifiers \in Seq(Config)
    BY NotifiersTyped
  <2>2. \A c \in Config : c.priority \in Int
    OBVIOUS
  <2> HIDE DEF Config
  <2> QED
    BY <2>1, <2>2
<1>2. Lists(notifiers, built, Len(notifiers))
  BY <1>1, BuildListsTheWorking DEF built
<1>3. built \in Seq(1 .. Len(notifiers))
  BY <1>2 DEF Lists
<1>4. /\ Len(built) \in Nat /\ DOMAIN built = 1 .. Len(built)
      /\ \A k \in DOMAIN built : built[k] \in DOMAIN notifiers
  BY <1>1, <1>3
<1> QED
  BY <1>1, <1>2, <1>4 DEF Lists

LEMMA TriedInit == Init => TriedInv
BY DEF Init, TriedInv

LEMMA TriedStep == TypeOK /\ TriedInv /\ [Next]_vars => TriedInv'
<1> SUFFICES ASSUME TypeOK, TriedInv, [Next]_vars PROVE TriedInv'
  OBVIOUS
<1> USE DEF setup, mounted, work, table, notifying
<1>1. ASSUME UNCHANGED <<notifiers, note, at, wire, posted, noted>>,
             step # "notify", step' # "notify"
      PROVE  TriedInv'
  BY <1>1 DEF TriedInv, Delivering, Wants, SentTo
<1>2. CASE UNCHANGED vars \/ Cancel
  <2>1. UNCHANGED <<notifiers, step, note, at, wire, posted, noted>>
        /\ (~done' => ~done)
    BY <1>2 DEF vars, Cancel
  <2> QED
    BY <2>1 DEF TriedInv, Delivering, Wants, SentTo, built
<1>3. CASE Insert
  <2>1. /\ UNCHANGED <<notifiers, note, at, wire>> /\ posted' = {}
        /\ noted' = {} /\ step = "idle" /\ step' = "start"
    BY <1>3 DEF Insert
  <2> QED
    BY <2>1 DEF TriedInv, Delivering
<1>4. CASE Crash
  <2>1. /\ UNCHANGED <<notifiers, posted, noted>> /\ step' = "idle"
        /\ at' = 1 /\ wire' = FALSE
    BY <1>4 DEF Crash
  <2> QED
    BY <2>1 DEF TriedInv, Wants, SentTo
<1>5. ASSUME NEW notification, NEW next, Emit(notification, next),
             UNCHANGED notifiers, step # "notify",
             notification.event = "error" => notification.err \in Nat
      PROVE  TriedInv'
  <2>1. /\ note' = notification /\ at' = 1 /\ wire' = wire /\ posted' = posted
        /\ noted' = noted
    BY <1>5 DEF Emit
  <2>2. wire' = FALSE \/ ~wire'
    BY <1>5, <2>1 DEF TriedInv, Delivering
  <2>3. \A k \in DOMAIN built' : ~(k < at')
    <3>1. built' = built
      BY <1>5 DEF built
    <3>2. DOMAIN built \subseteq Nat \ {0}
      BY BuiltFromNotifiers DEF TriedInv
    <3> QED
      BY <2>1, <3>1, <3>2
  <2> QED
    BY <1>5, <2>1, <2>2, <2>3 DEF TriedInv, Wants, SentTo
<1>6. CASE Announce
  <2>1. Emit([event |-> "start"], "mount") /\ step # "notify"
        /\ UNCHANGED notifiers
    BY <1>6 DEF Announce
  <2> QED
    BY <1>5, <2>1
<1>7. CASE Finish
  <2>1. Emit([event |-> "complete", counts |-> counts], "publish")
        /\ step # "notify" /\ UNCHANGED notifiers
    BY <1>7 DEF Finish
  <2> QED
    BY <1>5, <2>1
<1>8. CASE Fail
  <2>1. Emit([event |-> "error", err |-> 1], "failed")
        /\ step # "notify" /\ UNCHANGED notifiers
    BY <1>8 DEF Fail, EmitError
  <2> QED
    BY <1>5, <2>1
<1>9. CASE Erase
  <2>1. PICK S \in SUBSET erasing :
            \/ step' = "finish" /\ UNCHANGED <<then, notifying>>
            \/ EmitError(Cardinality(erasing \ S), "finish")
    BY <1>9 DEF Erase
  <2>2. step # "notify" /\ UNCHANGED notifiers
    BY <1>9 DEF Erase
  <2>3. Cardinality(erasing \ S) \in Nat
    <3>1. erasing \ S \in SUBSET Files
      BY DEF TypeOK
    <3> QED
      BY <3>1, FilesTyped, FS_Subset, FS_CardinalityType
  <2>4. CASE EmitError(Cardinality(erasing \ S), "finish")
    BY <1>5, <2>2, <2>3, <2>4 DEF EmitError
  <2> QED
    BY <1>1, <2>1, <2>2, <2>4
<1>10. CASE Deliver \/ Answer
  <2>1. step = "notify" /\ UNCHANGED <<notifiers, done>> /\ built' = built
    BY <1>10, DeliverKeeps
       DEF Deliver, Pass, Post, TimeOut, Notified, Answer, Delivering, built
\* The next one's turn, once this one needs nothing more.
  <2>2. ASSUME Delivering, Turn, UNCHANGED step, wire' = FALSE \/ ~wire',
               \/ done
               \/ ~WithEvents(Receiver, note.event)
               \/ SentTo(built[at], note.event)
        PROVE  TriedInv'
    <3>1. at' = at + 1 /\ UNCHANGED <<note, posted, noted>>
      BY <2>2 DEF Turn
    <3>2. ASSUME ~done, NEW k \in DOMAIN built, k < at + 1,
                 WithEvents(notifiers[built[k]], note.event)
          PROVE  SentTo(built[k], note.event)
      <4>1. k \in Nat
        BY BuiltFromNotifiers DEF TriedInv
      <4>2. k < at \/ k = at
        BY <3>2, <4>1 DEF TriedInv
      <4> QED
        BY <2>1, <2>2, <3>2, <4>2 DEF TriedInv, Receiver
    <3>3. (step = "notify" /\ ~done =>
              \A k \in DOMAIN built :
                  k < at /\ WithEvents(notifiers[built[k]], note.event) =>
                      SentTo(built[k], note.event))'
      BY <2>1, <3>1, <3>2 DEF SentTo
    <3>4. at' <= Len(built') + 1 /\ at' \in Nat \ {0}
      BY <2>1, <2>2, <3>1, BuiltFromNotifiers DEF TriedInv, Delivering
    <3> QED
      BY <2>1, <2>2, <3>1, <3>3, <3>4 DEF TriedInv, Wants, SentTo
  <2>3. CASE Pass
    <3>1. ~wire
      <4> SUFFICES ASSUME wire PROVE FALSE
        OBVIOUS
      <4>1. PICK p \in posted : p.to = built[at]
                                /\ p.payload.event = note.event
        BY DEF TriedInv, SentTo
      <4>2. Wants(built[at], note.event)
        BY <4>1 DEF TriedInv
      <4> QED
        BY <2>3, <4>2 DEF Pass, Wants, Receiver
    <3> QED
      BY <2>2, <2>3, <3>1 DEF Pass
  <2>4. CASE TimeOut \/ Answer
    BY <2>2, <2>4 DEF TimeOut, Answer, TriedInv
  <2>5. CASE Post /\ done
    BY <2>2, <2>5 DEF Post
  <2>6. CASE Post /\ ~done
    <3> DEFINE sent == [to |-> built[at], payload |-> Payload(Receiver, note)]
    <3>1. /\ posted' = posted \cup {sent} /\ Delivering
          /\ UNCHANGED <<note, at, noted, step>>
          /\ WithEvents(Receiver, note.event)
      BY <2>6 DEF Post
    <3>2. at \in DOMAIN built
      BY <3>1, BuiltFromNotifiers DEF TriedInv, Delivering
    <3>3. /\ sent.to = built[at] /\ sent.payload.event = note.event
          /\ sent.payload.body \in 1 .. MaxBody
          /\ sent.payload.priority \in -2 .. 2
          /\ Wants(sent.to, sent.payload.event)
      <4>1. Receiver.priority \in Int /\ Construct(Receiver)
        BY <3>2, BuiltFromNotifiers DEF TriedInv, Receiver
      <4>2. note.event = "error" => note.err \in Nat
        BY <2>1 DEF TriedInv
      <4> QED
        BY <3>1, <4>1, <4>2, PayloadFits DEF Wants, Receiver
    <3> HIDE DEF sent
    <3>4. \A k, e : SentTo(k, e) => SentTo(k, e)'
      BY <3>1 DEF SentTo
    <3>5. SentTo(built[at], note.event)'
      BY <2>1, <3>1, <3>3 DEF SentTo
    <3>6. Delivering'
      BY <2>1, <3>1 DEF Delivering
    <3>7. \A k, e : Wants(k, e)' <=> Wants(k, e)
      BY <2>1 DEF Wants
    <3>8. \A p \in posted' : /\ Wants(p.to, p.payload.event)
                             /\ p.payload.body \in 1 .. MaxBody
                             /\ p.payload.priority \in -2 .. 2
      BY <3>1, <3>3 DEF TriedInv
    <3>9. \A e \in noted' : \A k \in DOMAIN notifiers' :
              Wants(k, e)' => SentTo(k, e)'
      BY <2>1, <3>1, <3>4, <3>7 DEF TriedInv
    <3>10. (step = "notify" /\ ~done =>
              \A k \in DOMAIN built :
                  k < at /\ WithEvents(notifiers[built[k]], note.event) =>
                      SentTo(built[k], note.event))'
      BY <2>1, <3>1, <3>4 DEF TriedInv
    <3> QED
      BY <2>1, <3>1, <3>5, <3>6, <3>7, <3>8, <3>9, <3>10 DEF TriedInv
  <2>7. CASE Notified
    <3>1. /\ ~(at <= Len(built)) /\ at' = 1 /\ UNCHANGED <<wire, posted>>
          /\ step' # "notify"
      BY <2>7 DEF Notified, TriedInv, TypeOK, Stages, Before, Working
    <3>2. ~wire
      BY <3>1 DEF TriedInv, Delivering
    <3>3. noted' = noted \/ (~done /\ noted' = noted \cup {note.event})
      BY <2>7, Zenon DEF Notified
    <3>4. ASSUME ~done, NEW m \in DOMAIN notifiers, Wants(m, note.event)
          PROVE  SentTo(m, note.event)
      <4>1. PICK k \in DOMAIN built : built[k] = m
        BY <3>4, BuiltFromNotifiers DEF TriedInv, Wants
      <4>2. k < at
        BY <3>1, <4>1, BuiltFromNotifiers DEF TriedInv
      <4> QED
        BY <2>1, <3>4, <4>1, <4>2 DEF TriedInv, Wants
    <3>5. \A e \in noted' : \A k \in DOMAIN notifiers :
              Wants(k, e) => SentTo(k, e)
      BY <3>3, <3>4 DEF TriedInv
    <3> QED
      BY <2>1, <3>1, <3>2, <3>5 DEF TriedInv, Wants, SentTo
  <2> QED
    BY <1>10, <2>3, <2>4, <2>5, <2>6, <2>7 DEF Deliver
<1>11. CASE StartJob \/ Mount \/ MakeTemp \/ CopyTree \/ Discard \/ Scan
            \/ CtxDone \/ Decide \/ Remount \/ PublishComplete
            \/ PublishError \/ Unmount
  BY <1>1, <1>11 DEF StartJob, Mount, MakeTemp, CopyTree, Discard, Scan,
                     CtxDone, Decide, Remount, PublishComplete, PublishError,
                     Unmount
<1>12. CASE IngestFile
  <2>1. step = "files" /\ UNCHANGED <<setup, notifying>>
    BY <1>12 DEF IngestFile
  <2>2. step' \in {"files", "fail"}
    BY <1>12 DEF IngestFile, Skip, Dedupe, Copy, GiveUp, Abort
  <2> QED
    BY <1>1, <2>1, <2>2
<1> QED
  BY <1>2, <1>3, <1>4, <1>6, <1>7, <1>8, <1>9, <1>10, <1>11, <1>12
     DEF Next, Work

\* Whatever is configured, an event that was not cut short has been sent to
\* each notifier that can be built and wants it, whatever became of the others,
\* and to nobody else, within the limits of the writer.
THEOREM NobodyIsSkipped == Spec => []EachIsTried
<1>1. TriedInv => EachIsTried
  BY DEF TriedInv, EachIsTried, Wants, SentTo
<1> QED
  BY <1>1, TypeInit, TypeStep, TriedInit, TriedStep, PTL DEF Spec

\* The row of a completed job adds up, counts the copies the job made, and
\* claims an erasure that did not happen only if everybody who wants errors has
\* been sent one, or the job was cancelled; for any number of files and jobs,
\* any rules, any policy and any notifiers.
THEOREM CompletedAsRecorded == Spec => []CompleteRowIsTrue
<1>1. TypeOK /\ RowInv /\ AccountInv /\ TriedInv => CompleteRowIsTrue
  <2> SUFFICES ASSUME TypeOK, RowInv, AccountInv, TriedInv, Ended
               PROVE  CompleteRowIsTrue
    BY DEF CompleteRowIsTrue, Ended
  <2>1. Accounts /\ todo = {} /\ ErasedAsSaid
        /\ rows[id] = CompleteRow(counts)
    BY DEF AccountInv
  <2>2. /\ rows[id].copied = res.copied
        /\ rows[id].deduped = res.deduped
        /\ rows[id].skipped = Cardinality(res.skipped)
        /\ rows[id].erased = Cardinality(erasing)
    BY <2>1 DEF CompleteRow, counts
  <2>3. \A S : S \subseteq Files => IsFiniteSet(S) /\ Cardinality(S) \in Nat
    BY FilesTyped, FS_Subset, FS_CardinalityType
  <2>7. /\ res.verified \subseteq Files /\ res.skipped \subseteq Files
        /\ res.failed \subseteq Files /\ erasing \subseteq Files
        /\ res.verified \cup res.skipped \subseteq Files
    BY DEF TypeOK
  <2>4. rows[id].copied = Cardinality({l \in landed : l[1] = n})
    BY <2>1, <2>2 DEF Accounts, Copies
  <2>5. rows[id].copied + rows[id].deduped + rows[id].skipped
          + Cardinality(res.failed) = Cardinality(scanned)
    <3>1. Cardinality(res.verified \cup res.skipped)
            = Cardinality(res.verified) + Cardinality(res.skipped)
      <4>1. res.verified \cap res.skipped = {}
        BY <2>1 DEF Accounts
      <4> QED
        BY <2>3, <2>7, <4>1, DisjointUnion
    <3>2. Cardinality(Outcomes) = Cardinality(res.verified \cup res.skipped)
                                    + Cardinality(res.failed)
      <4>1. (res.verified \cup res.skipped) \cap res.failed = {}
        BY <2>1 DEF Accounts
      <4> QED
        BY <2>3, <2>7, <4>1, DisjointUnion DEF Outcomes
    <3>3. scanned = Outcomes
      BY <2>1 DEF Accounts
    <3>4. res.copied + res.deduped = Cardinality(res.verified)
      BY <2>1 DEF Accounts
    <3> QED
      BY <2>2, <2>3, <3>1, <3>2, <3>3, <3>4 DEF TypeOK
  <2>6. ASSUME mode # "none"
        PROVE  /\ Gone \cap res.failed = {}
               /\ Cardinality(Gone) <= rows[id].erased
               /\ Cardinality(Gone) < rows[id].erased =>
                     done \/ \A i \in DOMAIN notifiers :
                                Wants(i, "error") => SentTo(i, "error")
    <3>1. /\ Gone \subseteq erasing
          /\ Gone = erasing \/ done \/ "error" \in noted
      <4>1. ~ErrorOnItsWay
        BY DEF ErrorOnItsWay, RowInv, Ended, stage
      <4> QED
        BY <2>1, <2>6, <4>1 DEF ErasedAsSaid, ErrorSaid
    <3>2. erasing \cap res.failed = {}
      BY <2>1 DEF AccountInv, Accounts
    <3>3. Cardinality(Gone) <= Cardinality(erasing)
          /\ Cardinality(Gone) \in Nat /\ Cardinality(erasing) \in Nat
      <4>1. IsFiniteSet(erasing) /\ Gone \in SUBSET erasing
        BY <2>3, <2>7, <3>1
      <4>2. IsFiniteSet(Gone) /\ Cardinality(Gone) <= Cardinality(erasing)
        BY <4>1, FS_Subset
      <4> QED
        BY <4>1, <4>2, FS_CardinalityType
    <3>4. Cardinality(Gone) < Cardinality(erasing) => Gone # erasing
      BY <3>3
    <3>5. rows[id].erased = Cardinality(erasing)
      BY <2>2
    <3>6. Gone \cap res.failed = {}
      BY <3>1, <3>2
    <3>7. "error" \in noted => \A i \in DOMAIN notifiers :
              Wants(i, "error") => SentTo(i, "error")
      BY DEF TriedInv
    <3> QED
      BY <3>1, <3>3, <3>4, <3>5, <3>6, <3>7
  <2> QED
    BY <2>4, <2>5, <2>6 DEF CompleteRowIsTrue, Gone
<1> QED
  BY <1>1, TypeInit, TypeStep, AnnounceInit, RowStep, AccountInit,
     AccountStep, TriedInit, TriedStep, PTL DEF Spec

-----------------------------------------------------------------------------
(* A job moves on.                                                         *)

\* The stages in the order a job can only go through them.
Order == <<"start", "announce", "mount", "copying", "discard", "ingest",
           "files", "remount", "erase", "finish", "publish", "fail", "failed",
           "unmount", "idle">>

Earlier(p, q) ==
    \E j, k \in 1 .. 15 : j < k /\ Order[j] = p /\ Order[k] = q

\* What is left of a notification: two steps for each notifier whose turn is to
\* come, one less once its request is under way, and one to go on.
Waiting ==
    IF step = "notify" THEN 2 * (Len(built) + 1 - at) + (IF wire THEN 0 ELSE 1)
    ELSE 0

\* Progress, in the order of what counts most: the stage, the files that are
\* still to be looked at, the notification.
Further ==
    \/ Earlier(stage, stage')
    \/ /\ stage' = stage
       /\ todo' \subseteq todo /\ todo' # todo
    \/ /\ stage' = stage /\ todo' = todo
       /\ Waiting \in Nat /\ Waiting' \in Nat /\ Waiting' < Waiting

LEMMA OrderFacts ==
    /\ \A q \in {"fail", "mount"} : Earlier("announce", q)
    /\ Earlier("start", "announce")
    /\ Earlier("mount", "ingest") /\ Earlier("mount", "fail")
    /\ Earlier("mount", "copying") /\ Earlier("copying", "ingest")
    /\ Earlier("copying", "discard") /\ Earlier("discard", "fail")
    /\ Earlier("ingest", "files") /\ Earlier("ingest", "fail")
    /\ Earlier("files", "fail") /\ Earlier("files", "finish")
    /\ Earlier("files", "remount") /\ Earlier("remount", "erase")
    /\ Earlier("remount", "fail") /\ Earlier("erase", "finish")
    /\ Earlier("finish", "publish") /\ Earlier("publish", "unmount")
    /\ Earlier("fail", "failed") /\ Earlier("failed", "unmount")
    /\ Earlier("failed", "idle") /\ Earlier("unmount", "idle")
BY DEF Earlier, Order

\* What comes later in the order does not come earlier, so that no stage is
\* reached twice.
LEMMA OrderIsStrict ==
    /\ \A p \in Stages : ~Earlier(p, p)
    /\ \A p, q, r \in Stages : Earlier(p, q) /\ Earlier(q, r) => Earlier(p, r)
<1>1. \A j, k \in 1 .. 15 : Order[j] = Order[k] => j = k
  BY DEF Order
<1> QED
  BY <1>1 DEF Earlier

LEMMA NotifyMovesOn ==
    TypeOK /\ TriedInv /\ (Deliver \/ Answer) => Further
<1> SUFFICES ASSUME TypeOK, TriedInv, Deliver \/ Answer PROVE Further
  OBVIOUS
<1>1. /\ step = "notify" /\ UNCHANGED <<todo, notifiers>> /\ stage' = stage
      /\ built' = built
  BY DeliverKeeps DEF Deliver, Pass, Post, TimeOut, Notified, Answer,
                      Delivering, work, setup, built
<1>2. /\ at \in Nat /\ Len(built) \in Nat /\ at <= Len(built) + 1
      /\ wire => at <= Len(built)
  BY <1>1, BuiltFromNotifiers DEF TriedInv, Delivering
<1>3. Waiting \in Nat
  BY <1>1, <1>2 DEF Waiting
<1>4. CASE Notified
  <2>1. step' # "notify" /\ ~wire
    BY <1>2, <1>4 DEF Notified, TypeOK, Stages, Before, Working
  <2> QED
    BY <1>1, <1>2, <1>3, <2>1 DEF Waiting, Further
<1>5. CASE Turn /\ at <= Len(built) /\ step' = "notify"
  BY <1>1, <1>2, <1>3, <1>5 DEF Turn, Waiting, Further
<1>6. CASE ~wire /\ wire' = TRUE /\ at' = at /\ at <= Len(built)
           /\ step' = "notify"
  BY <1>1, <1>2, <1>3, <1>6 DEF Waiting, Further
<1> QED
  BY <1>1, <1>4, <1>5, <1>6 DEF Deliver, Pass, Post, TimeOut, Answer,
                                Delivering

LEMMA WorkMovesOn == TypeOK /\ TriedInv /\ (Work \/ Answer) => Further
<1> SUFFICES ASSUME TypeOK, TriedInv, Work \/ Answer PROVE Further
  OBVIOUS
<1>1. CASE Deliver \/ Answer
  BY <1>1, NotifyMovesOn
<1>2. CASE StartJob \/ Announce \/ Mount \/ MakeTemp \/ CopyTree
           \/ Discard \/ Scan \/ CtxDone \/ Decide \/ Remount
  BY <1>2, OrderFacts
     DEF StartJob, Announce, Emit, Mount, MakeTemp, CopyTree, Discard, Scan,
         CtxDone, Decide, Remount, stage, Further
<1>3. CASE Erase \/ Finish \/ PublishComplete \/ Fail \/ PublishError
           \/ Unmount
  BY <1>3, OrderFacts
     DEF Erase, Finish, PublishComplete, Fail, PublishError, Unmount, Emit,
         EmitError, stage, Further
<1>4. CASE IngestFile
  <2>1. PICK f \in todo :
            /\ todo' = todo \ {f}
            /\ Skip(f) \/ Dedupe(f) \/ Copy(f) \/ GiveUp(f) \/ Abort(f)
    BY <1>4 DEF IngestFile
  <2>2. stage = "files" /\ stage' \in {"files", "fail"}
    BY <1>4, <2>1 DEF IngestFile, Skip, Dedupe, Copy, GiveUp, Abort, stage
  <2> QED
    BY <2>1, <2>2, OrderFacts DEF Further
<1> QED
  BY <1>1, <1>2, <1>3, <1>4 DEF Work

\* A job never goes back or in circles: each of its steps takes it to a later
\* stage, or leaves it one file less, or takes the notification on, and the
\* answers and time-outs of writers count as well.  Stages, files and notifiers
\* are finitely many: nothing but a step that is not taken keeps a job from its
\* end.
THEOREM JobsMoveOn == Spec => [][Work \/ Answer => Further]_vars
<1>1. TypeOK /\ TriedInv /\ [Next]_vars => [Work \/ Answer => Further]_vars
  BY WorkMovesOn
<1> QED
  BY <1>1, TypeInit, TypeStep, TriedInit, TriedStep, PTL DEF Spec

=============================================================================
