------------------------------- MODULE Ingest -------------------------------
(***************************************************************************)
(* The byte path of cardingest: what one job per slot does to the card,    *)
(* the destination and the hash index.  Models internal/pipeline (Ingest,  *)
(* copyAndVerify, streamCopy, hashFile, Erase), the part of App.ingest     *)
(* that mounts, decides what to erase, erases and unmounts, and the hash   *)
(* index of internal/store.                                                *)
(*                                                                         *)
(* The slots' jobs interleave at every step that touches shared state: the *)
(* destination filesystem and the index.  Cards are pulled, jobs are       *)
(* cancelled and the process crashes between any two steps; every          *)
(* fallible call may fail.                                                 *)
(***************************************************************************)
EXTENDS Naturals, FiniteSets

CONSTANTS
    Slots,          \* reader slots, one worker each
    Cards,
    Files,          \* the files on all cards
    CardOf,         \* the card a file is on
    Contents,       \* byte strings a file or a temp may hold
    Content,        \* the bytes of a file
    Hashes,
    Hash,           \* xxhash of a byte string
    Paths,          \* final paths on the destination
    DestPaths,      \* the paths a file may be placed at: its category and
                    \* name are fixed, its date is not (DateFn falls back to
                    \* the modification time when the EXIF read fails)
    Kept,           \* the files the rules keep and some category takes
    EraseIngested,
    EraseSkipped,
    None

ASSUME ConstantsTyped ==
    /\ CardOf \in [Files -> Cards]
    /\ Content \in [Files -> Contents]
    /\ Hash \in [Contents -> Hashes]
    /\ DestPaths \in [Files -> SUBSET Paths]
    /\ \A f \in Files : DestPaths[f] # {}
    /\ Kept \subseteq Files
    /\ EraseIngested \in BOOLEAN
    /\ EraseSkipped \in BOOLEAN
    /\ None \notin Cards \cup Files \cup Contents

VARIABLES
    \* what survives a crash of the process
    onCard,         \* the files still on their card
    inSlot,         \* the card in each slot, or None
    dest,           \* the bytes at each final path, or None
    tmp,            \* the bytes of each slot's current temp file, or None
    index,          \* verified_hashes: the hashes recorded as verified
    \* the worker of each slot
    pc,             \* the next step of its job
    media,          \* the card its mount reaches; None once that is pulled
    todo,           \* the scanned entries still to visit
    cur,            \* the file copyAndVerify is working on
    verified,       \* Result.Verified: copied or deduped
    skipped,        \* Result.SkippedPath
    failed,         \* Result.FailedPath
    toErase,        \* the paths the erase loop has still to delete
    cancelled       \* its context is done

stable == <<onCard, inSlot, dest, tmp, index>>
result == <<verified, skipped, failed>>
vars == <<onCard, inSlot, dest, tmp, index, pc, media, todo, cur, verified,
          skipped, failed, toErase, cancelled>>

Steps == {"idle", "scan", "next", "seen", "verify", "place", "mark",
          "remount", "erase", "unmount"}

Sum64(f) == Hash[Content[f]]

\* Mutant of TmpPath: a temp name without the slot.
SharedTmpPath(s) == CHOOSE t \in Slots : TRUE

\* The temp file's name carries the slot and a sequence number that never
\* repeats within a process, so a slot has one current temp of its own.
TmpPath(s) == s

\* Mutant of FilesOn: a scan that leaves out what the index already knows.
UnknownFilesOn(c) == {f \in onCard : CardOf[f] = c /\ Sum64(f) \notin index}

FilesOn(c) == {f \in onCard : CardOf[f] = c}

TypeOK ==
    /\ onCard \subseteq Files
    /\ inSlot \in [Slots -> Cards \cup {None}]
    /\ dest \in [Paths -> Contents \cup {None}]
    /\ tmp \in [Slots -> Contents \cup {None}]
    /\ index \subseteq Hashes
    /\ pc \in [Slots -> Steps]
    /\ media \in [Slots -> Cards \cup {None}]
    /\ todo \in [Slots -> SUBSET Files]
    /\ cur \in [Slots -> Files \cup {None}]
    /\ verified \in [Slots -> SUBSET Files]
    /\ skipped \in [Slots -> SUBSET Files]
    /\ failed \in [Slots -> SUBSET Files]
    /\ toErase \in [Slots -> SUBSET Files]
    /\ cancelled \in [Slots -> BOOLEAN]

Init ==
    /\ onCard = Files
    /\ inSlot = [s \in Slots |-> None]
    /\ dest = [p \in Paths |-> None]
    /\ tmp = [s \in Slots |-> None]
    /\ index = {}
    /\ pc = [s \in Slots |-> "idle"]
    /\ media = [s \in Slots |-> None]
    /\ todo = [s \in Slots |-> {}]
    /\ cur = [s \in Slots |-> None]
    /\ verified = [s \in Slots |-> {}]
    /\ skipped = [s \in Slots |-> {}]
    /\ failed = [s \in Slots |-> {}]
    /\ toErase = [s \in Slots |-> {}]
    /\ cancelled = [s \in Slots |-> FALSE]

-----------------------------------------------------------------------------
(* The environment: cards move, contexts are cancelled, the process dies.  *)

Insert(s, c) ==
    /\ inSlot[s] = None
    /\ \A t \in Slots : inSlot[t] # c
    /\ inSlot' = [inSlot EXCEPT ![s] = c]
    /\ UNCHANGED <<onCard, dest, tmp, index, pc, media, todo, cur, verified,
                   skipped, failed, toErase, cancelled>>

\* A mount of a card that has been pulled reaches nothing any more, even when
\* the same card comes back.
Pull(s) ==
    /\ inSlot[s] # None
    /\ inSlot' = [inSlot EXCEPT ![s] = None]
    /\ media' = [media EXCEPT ![s] = None]
    /\ UNCHANGED <<onCard, dest, tmp, index, pc, todo, cur, verified,
                   skipped, failed, toErase, cancelled>>

\* stopWorker on a removal, or shutdown.
Cancel(s) ==
    /\ pc[s] # "idle"
    /\ ~cancelled[s]
    /\ cancelled' = [cancelled EXCEPT ![s] = TRUE]
    /\ UNCHANGED <<onCard, inSlot, dest, tmp, index, pc, media, todo, cur,
                   verified, skipped, failed, toErase>>

\* The process dies and is restarted: cards, destination and index stay.
Crash ==
    /\ \E s \in Slots : pc[s] # "idle"
    /\ pc' = [s \in Slots |-> "idle"]
    /\ media' = [s \in Slots |-> None]
    /\ todo' = [s \in Slots |-> {}]
    /\ cur' = [s \in Slots |-> None]
    /\ verified' = [s \in Slots |-> {}]
    /\ skipped' = [s \in Slots |-> {}]
    /\ failed' = [s \in Slots |-> {}]
    /\ toErase' = [s \in Slots |-> {}]
    /\ cancelled' = [s \in Slots |-> FALSE]
    /\ UNCHANGED stable

-----------------------------------------------------------------------------
(* How the steps of a job end.                                             *)

Goto(s, step) == pc' = [pc EXCEPT ![s] = step]

\* The error paths remove the temp file.  A failure of that removal is
\* ignored by the code; what it leaves behind is never opened again.
DropTemp(s) == tmp' = [tmp EXCEPT ![TmpPath(s)] = None]

\* Ingest returns an error: failJob, then straight to the deferred unmount.
Abort(s) ==
    /\ Goto(s, "unmount")
    /\ cur' = [cur EXCEPT ![s] = None]
    /\ UNCHANGED result

\* The file is appended to Result.Verified and the loop goes on.
Verify(s) ==
    /\ Goto(s, "next")
    /\ cur' = [cur EXCEPT ![s] = None]
    /\ verified' = [verified EXCEPT ![s] = @ \cup {cur[s]}]
    /\ UNCHANGED <<skipped, failed>>

\* A non-fatal error: the file is appended to Result.FailedPath, stays on the
\* card, and the loop goes on.
FailFile(s, f) ==
    /\ Goto(s, "next")
    /\ cur' = [cur EXCEPT ![s] = None]
    /\ failed' = [failed EXCEPT ![s] = @ \cup {f}]
    /\ UNCHANGED <<verified, skipped>>

-----------------------------------------------------------------------------
(* The job.                                                                *)

\* App.ingest up to a successful read-only mount of whatever card is in the
\* slot.  A mount that fails ends the job having changed nothing.
Mount(s) ==
    /\ pc[s] = "idle"
    /\ inSlot[s] # None
    /\ Goto(s, "scan")
    /\ media' = [media EXCEPT ![s] = inSlot[s]]
    /\ UNCHANGED <<onCard, inSlot, dest, tmp, index, todo, cur, verified,
                   skipped, failed, toErase, cancelled>>

\* scan: the whole list is taken before the first file is copied.
Scan(s) ==
    /\ pc[s] = "scan"
    /\ \/ /\ media[s] # None
          /\ todo' = [todo EXCEPT ![s] = FilesOn(media[s])]
          /\ Goto(s, "next")
       \/ /\ Goto(s, "unmount")
          /\ UNCHANGED todo
    /\ UNCHANGED <<onCard, inSlot, dest, tmp, index, media, cur, verified,
                   skipped, failed, toErase, cancelled>>

\* The head of the loop finds the context done.
CtxDone(s) ==
    /\ pc[s] = "next"
    /\ todo[s] # {}
    /\ cancelled[s]
    /\ Abort(s)
    /\ UNCHANGED <<onCard, inSlot, dest, tmp, index, media, todo, toErase,
                   cancelled>>

\* Decide skips the file, or no category takes it.
SkipFile(s) ==
    /\ pc[s] = "next"
    /\ ~cancelled[s]
    /\ \E f \in todo[s] \ Kept :
          /\ todo' = [todo EXCEPT ![s] = @ \ {f}]
          /\ skipped' = [skipped EXCEPT ![s] = @ \cup {f}]
    /\ UNCHANGED <<onCard, inSlot, dest, tmp, index, pc, media, cur, verified,
                   failed, toErase, cancelled>>

\* streamCopy: the hash is that of the bytes read from the card; the bytes
\* that reach the destination may be others, and no error says so.  Opening
\* the card file or copying may fail for this file only; creating or closing
\* the temp file fails the job.
StreamCopy(s) ==
    /\ pc[s] = "next"
    /\ ~cancelled[s]
    /\ \E f \in todo[s] \cap Kept :
          /\ todo' = [todo EXCEPT ![s] = @ \ {f}]
          /\ \/ /\ media[s] # None
                /\ \E c \in Contents : tmp' = [tmp EXCEPT ![TmpPath(s)] = c]
                /\ cur' = [cur EXCEPT ![s] = f]
                /\ Goto(s, "seen")
                /\ UNCHANGED result
             \/ DropTemp(s) /\ FailFile(s, f)
             \/ DropTemp(s) /\ Abort(s)
    /\ UNCHANGED <<onCard, inSlot, dest, index, media, toErase, cancelled>>

\* The hash index: the look-up, and INSERT OR IGNORE.
SeenHash(h) == h \in index
RecordHash(h) == index \cup {h}

\* The dedupe check: a done context makes it fail, and a failure is fatal.
Seen(s) ==
    /\ pc[s] = "seen"
    /\ \/ DropTemp(s) /\ Abort(s)
       \/ /\ ~cancelled[s]
          /\ SeenHash(Sum64(cur[s]))
          /\ DropTemp(s)
          /\ Verify(s)
       \/ /\ ~cancelled[s]
          /\ ~SeenHash(Sum64(cur[s]))
          /\ Goto(s, "verify")
          /\ UNCHANGED <<tmp, cur, verified, skipped, failed>>
    /\ UNCHANGED <<onCard, inSlot, dest, index, media, todo, toErase,
                   cancelled>>

\* Mutant of LandedMatches: a successful write is taken for a good copy.
LandedExists(s) == tmp[TmpPath(s)] # None

\* hashFile on the landed temp, and the comparison with the streaming hash.
LandedMatches(s) ==
    /\ tmp[TmpPath(s)] # None
    /\ Hash[tmp[TmpPath(s)]] = Sum64(cur[s])

ReadBack(s) ==
    /\ pc[s] = "verify"
    /\ \/ /\ LandedMatches(s)
          /\ Goto(s, "place")
          /\ UNCHANGED <<tmp, cur, verified, skipped, failed>>
       \/ /\ ~LandedMatches(s)
          /\ DropTemp(s)
          /\ FailFile(s, cur[s])
       \/ DropTemp(s) /\ Abort(s)
    /\ UNCHANGED <<onCard, inSlot, dest, index, media, todo, toErase,
                   cancelled>>

\* Mutant of Place: the error of the rename is dropped.
PlaceErrorDropped(s) ==
    /\ pc[s] = "place"
    /\ \/ \E p \in DestPaths[cur[s]] :
             dest' = [dest EXCEPT ![p] = tmp[TmpPath(s)]]
       \/ UNCHANGED dest
    /\ DropTemp(s)
    /\ Goto(s, "mark")
    /\ UNCHANGED <<onCard, inSlot, index, media, todo, cur, verified, skipped,
                   failed, toErase, cancelled>>

\* Rename into place: whatever was at the final path is replaced.
Place(s) ==
    /\ pc[s] = "place"
    /\ \/ /\ \E p \in DestPaths[cur[s]] :
                dest' = [dest EXCEPT ![p] = tmp[TmpPath(s)]]
          /\ DropTemp(s)
          /\ Goto(s, "mark")
          /\ UNCHANGED <<cur, verified, skipped, failed>>
       \/ /\ DropTemp(s)
          /\ Abort(s)
          /\ UNCHANGED dest
    /\ UNCHANGED <<onCard, inSlot, index, media, todo, toErase, cancelled>>

\* Recording the hash, the last step for a file.  A call that reports an
\* error, as one with a done context does, may still have recorded it.
MarkVerified(s) ==
    /\ pc[s] = "mark"
    /\ \/ /\ ~cancelled[s]
          /\ index' = RecordHash(Sum64(cur[s]))
          /\ Verify(s)
       \/ /\ index' \in {index, RecordHash(Sum64(cur[s]))}
          /\ Abort(s)
    /\ UNCHANGED <<onCard, inSlot, dest, tmp, media, todo, toErase, cancelled>>

\* Mutant of EraseSet: wipe the card.
EraseWholeCard(s) == IF EraseIngested THEN FilesOn(media[s]) ELSE {}

\* The policy's choice of what may be erased.
EraseSet(s) ==
    (IF EraseIngested THEN verified[s] ELSE {}) \cup
    (IF EraseSkipped THEN skipped[s] ELSE {})

\* Ingest returns without error; the context is not looked at again.
IngestReturns(s) ==
    /\ pc[s] = "next"
    /\ todo[s] = {}
    /\ toErase' = [toErase EXCEPT ![s] = EraseSet(s)]
    /\ Goto(s, IF EraseSet(s) = {} THEN "unmount" ELSE "remount")
    /\ UNCHANGED <<onCard, inSlot, dest, tmp, index, media, todo, cur,
                   verified, skipped, failed, cancelled>>

\* Read-write remount; its failure fails the job with the card intact.
Remount(s) ==
    /\ pc[s] = "remount"
    /\ \/ Goto(s, "erase") /\ UNCHANGED toErase
       \/ Goto(s, "unmount") /\ toErase' = [toErase EXCEPT ![s] = {}]
    /\ UNCHANGED <<onCard, inSlot, dest, tmp, index, media, todo, cur,
                   verified, skipped, failed, cancelled>>

\* One iteration of the erase loop: a failed Remove is collected and the loop
\* goes on.
Erase(s) ==
    /\ pc[s] = "erase"
    /\ \E f \in toErase[s] :
          /\ toErase' = [toErase EXCEPT ![s] = @ \ {f}]
          /\ \/ media[s] # None /\ onCard' = onCard \ {f}
             \/ UNCHANGED onCard
    /\ UNCHANGED <<inSlot, dest, tmp, index, pc, media, todo, cur, verified,
                   skipped, failed, cancelled>>

\* Sync, which only logs its error, and the end of App.ingest's body.
Sync(s) ==
    /\ pc[s] = "erase"
    /\ toErase[s] = {}
    /\ Goto(s, "unmount")
    /\ UNCHANGED <<onCard, inSlot, dest, tmp, index, media, todo, cur,
                   verified, skipped, failed, toErase, cancelled>>

\* The deferred unmount and eject, and the end of the worker.
Unmount(s) ==
    /\ pc[s] = "unmount"
    /\ Goto(s, "idle")
    /\ media' = [media EXCEPT ![s] = None]
    /\ todo' = [todo EXCEPT ![s] = {}]
    /\ verified' = [verified EXCEPT ![s] = {}]
    /\ skipped' = [skipped EXCEPT ![s] = {}]
    /\ failed' = [failed EXCEPT ![s] = {}]
    /\ cancelled' = [cancelled EXCEPT ![s] = FALSE]
    /\ UNCHANGED <<onCard, inSlot, dest, tmp, index, cur, toErase>>

Work(s) ==
    \/ Scan(s) \/ CtxDone(s) \/ SkipFile(s) \/ StreamCopy(s) \/ Seen(s)
    \/ ReadBack(s) \/ Place(s) \/ MarkVerified(s) \/ IngestReturns(s)
    \/ Remount(s) \/ Erase(s) \/ Sync(s) \/ Unmount(s)

Next ==
    \/ \E s \in Slots :
          \/ \E c \in Cards : Insert(s, c)
          \/ Pull(s) \/ Cancel(s) \/ Mount(s) \/ Work(s)
    \/ Crash

Spec == Init /\ [][Next]_vars

\* A worker that can take a step takes one: goroutines are scheduled, and
\* every call they make returns.
Fairness == \A s \in Slots : WF_vars(Work(s))

FairSpec == Spec /\ Fairness

-----------------------------------------------------------------------------
(* Safety.                                                                 *)

Landed == {f \in Files : \E p \in Paths : dest[p] = Content[f]}

\* Two hypotheses under which nothing is lost.  Neither is checked by the
\* code: files that share a final path hold the same bytes, and the 64-bit
\* hash tells all byte strings apart.
CollisionFree ==
    \A f, g \in Kept :
        DestPaths[f] \cap DestPaths[g] # {} => Content[f] = Content[g]

HashInjective ==
    \A c, d \in Contents : Hash[c] = Hash[d] => c = d

\* No final path ever holds unverified bytes: what is there hashes to a file
\* that belongs there, whatever was corrupted on the way and whichever step
\* crashed (copyAndVerify reads the temp back before the rename).
DestVerified ==
    \A p \in Paths : dest[p] # None =>
        \E f \in Kept : p \in DestPaths[f] /\ Hash[dest[p]] = Sum64(f)

\* The index never gets ahead of the destination: a recorded hash is the hash
\* of bytes at some final path, so dedupe may trust it (rename comes before
\* MarkVerified, and no rename takes away the last copy).
IndexLanded ==
    \A h \in index : \E p \in Paths : dest[p] # None /\ Hash[dest[p]] = h

Discardable == IF EraseSkipped THEN Files \ Kept ELSE {}

\* The promise of the appliance: a file is gone from its card only if its
\* content is on the destination or the policy gave it up.
ErasedIsLanded == Files \ onCard \subseteq Landed \cup Discardable

\* A file the job failed to copy stays on the card for as long as that job
\* has the card mounted.
FailedStays ==
    \A s \in Slots : media[s] # None => failed[s] \subseteq onCard

\* An erase loop is only ever given files the index vouches for, or files the
\* rules skipped and the policy gave up.
EraseSetSafe ==
    \A s \in Slots : \A f \in toErase[s] :
        f \in Discardable \/ Sum64(f) \in index

\* copyAndVerify works on a file that is worth keeping.
CurKept ==
    \A s \in Slots :
        pc[s] \in {"seen", "verify", "place", "mark"} => cur[s] \in Kept

\* Why the above hold at every step: what a worker at a given step may rely
\* on.  The read-back vouches for the temp that is about to be renamed;
\* a verified file is in the index; skipped files are not worth keeping.
CopyInv ==
    /\ CurKept
    /\ \A s \in Slots :
        /\ pc[s] = "place" => LandedMatches(s)
        /\ \A f \in verified[s] : Sum64(f) \in index
        /\ skipped[s] \cap Kept = {}

\* Between the rename and MarkVerified the copy is on the destination,
\* although nothing has recorded it yet and other slots go on renaming.
MarkLanded ==
    \A s \in Slots : pc[s] = "mark" =>
        \E p \in Paths : dest[p] # None /\ Hash[dest[p]] = Sum64(cur[s])

\* The files a job has seen are on the card it has mounted, that card is in
\* no other slot, and no file is in two lists of the job's result.
CardInv ==
    /\ \A s, t \in Slots : inSlot[s] # None /\ inSlot[s] = inSlot[t] => s = t
    /\ \A s \in Slots :
        /\ media[s] # None => media[s] = inSlot[s]
        /\ media[s] # None =>
              \A f \in todo[s] \cup verified[s] \cup skipped[s] \cup failed[s]
                       \cup toErase[s] \cup ({cur[s]} \ {None}) :
                  CardOf[f] = media[s]
        /\ media[s] # None => todo[s] \cup ({cur[s]} \ {None}) \subseteq onCard
        /\ failed[s] \cap (todo[s] \cup {cur[s]} \cup verified[s]
                           \cup skipped[s] \cup toErase[s]) = {}
        /\ todo[s] \cap ({cur[s]} \cup verified[s] \cup skipped[s]) = {}
        /\ cur[s] \notin verified[s] \cup skipped[s]
        /\ pc[s] \in {"idle", "scan"} =>
              todo[s] \cup verified[s] \cup skipped[s] \cup failed[s] = {}
        /\ pc[s] \notin {"remount", "erase"} => toErase[s] = {}
        /\ pc[s] \in {"remount", "erase"} => todo[s] = {} /\ cur[s] = None
        /\ pc[s] \in {"idle", "scan", "next", "unmount"} => cur[s] = None

ST == INSTANCE SafeTransfer WITH landed <- Landed

\* The byte path implements the promise of SafeTransfer.
TransferIsSafe == ST!Spec

-----------------------------------------------------------------------------
(* Liveness.                                                               *)

\* A step that harms a job: an error return or a failed file (corruption on
\* the way shows up as one), a failed Remove, a card pulled from under it, a
\* crash.  (A crash before the unmount of the last job is that unmount.)
Fault ==
    \/ Crash /\ \E s \in Slots : pc[s] \notin {"idle", "unmount"}
    \/ \E s \in Slots :
          \/ pc[s] # "idle" /\ Pull(s)
          \/ pc[s] \in {"scan", "seen", "verify", "place", "mark", "remount"}
             /\ pc'[s] = "unmount"
          \/ pc[s] = "next" /\ todo[s] # {} /\ pc'[s] = "unmount"
          \/ failed[s] # failed'[s] /\ failed'[s] # {}
          \/ Erase(s) /\ UNCHANGED onCard

\* The user keeps giving every card a job: a card whose job is over is pulled
\* some time, and every card is inserted and mounted again and again.
RetrySpec ==
    /\ FairSpec
    /\ \A s \in Slots :
          /\ SF_vars(pc[s] = "idle" /\ Pull(s))
          /\ \A c \in Cards : SF_vars(Insert(s, c))
                             /\ SF_vars(inSlot[s] = c /\ Mount(s))

Transferred ==
    /\ Kept \subseteq Landed
    /\ EraseIngested => Kept \cap onCard = {}

\* Nothing that went wrong is ever final: once the faults cease, every kept
\* file lands and leaves its card, whatever state earlier crashes, aborted
\* jobs and half-finished copies left behind ("Already-verified content is
\* deduped on the retry").
RetrySucceeds == (<>[][~Fault]_vars) => <>Transferred

=============================================================================
