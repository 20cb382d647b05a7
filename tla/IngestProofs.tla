---------------------------- MODULE IngestProofs ----------------------------
(***************************************************************************)
(* Proofs about Ingest, for any number of slots, cards, files and paths.   *)
(***************************************************************************)
EXTENDS Ingest, TLAPS

-----------------------------------------------------------------------------
(* Types.                                                                  *)

\* Every step of every worker and of the environment keeps the types.  Where
\* copyAndVerify hands its file to the result, that file is a kept one.
LEMMA TypeStep == TypeOK /\ CurKept /\ [Next]_vars => (TypeOK /\ CurKept)'
<1> SUFFICES ASSUME TypeOK, CurKept, [Next]_vars PROVE TypeOK' /\ CurKept'
  OBVIOUS
<1> USE ConstantsTyped DEF TypeOK, CurKept, Steps, Goto, DropTemp, TmpPath,
        result
<1>1. CASE UNCHANGED vars
  BY <1>1 DEF vars
<1>2. CASE Crash
  BY <1>2 DEF Crash, stable
<1>3. ASSUME NEW s \in Slots, NEW c \in Cards, Insert(s, c)
      PROVE  TypeOK' /\ CurKept'
  BY <1>3 DEF Insert
<1>4. ASSUME NEW s \in Slots, Pull(s) \/ Cancel(s) \/ Mount(s)
      PROVE  TypeOK' /\ CurKept'
  <2>1. CASE Pull(s)
    BY <2>1 DEF Pull
  <2>2. CASE Cancel(s)
    BY <2>2 DEF Cancel
  <2>3. CASE Mount(s)
    BY <2>3 DEF Mount
  <2> QED
    BY <1>4, <2>1, <2>2, <2>3
<1>5. ASSUME NEW s \in Slots, Work(s) PROVE TypeOK' /\ CurKept'
  <2>1. CASE Scan(s)
    BY <2>1 DEF Scan, FilesOn
  <2>2. CASE CtxDone(s)
    BY <2>2 DEF CtxDone, Abort
  <2>3. CASE SkipFile(s)
    BY <2>3 DEF SkipFile
  <2>4. CASE StreamCopy(s)
    <3>1. PICK f \in todo[s] \cap Kept :
             /\ todo' = [todo EXCEPT ![s] = @ \ {f}]
             /\ \/ /\ media[s] # None
                   /\ \E c \in Contents : tmp' = [tmp EXCEPT ![TmpPath(s)] = c]
                   /\ cur' = [cur EXCEPT ![s] = f]
                   /\ Goto(s, "seen")
                   /\ UNCHANGED result
                \/ DropTemp(s) /\ FailFile(s, f)
                \/ DropTemp(s) /\ Abort(s)
      BY <2>4 DEF StreamCopy
    <3>2. UNCHANGED <<onCard, inSlot, dest, index, media, toErase, cancelled>>
      BY <2>4 DEF StreamCopy
    <3>3. f \in Files /\ todo' \in [Slots -> SUBSET Files]
      BY <3>1
    <3>4. CASE cur' = [cur EXCEPT ![s] = f] /\ UNCHANGED result
               /\ Goto(s, "seen")
               /\ \E c \in Contents : tmp' = [tmp EXCEPT ![TmpPath(s)] = c]
      BY <3>2, <3>3, <3>4
    <3>5. CASE DropTemp(s) /\ FailFile(s, f)
      BY <3>2, <3>3, <3>5 DEF FailFile
    <3>6. CASE DropTemp(s) /\ Abort(s)
      BY <3>2, <3>3, <3>6 DEF Abort
    <3> QED
      BY <3>1, <3>4, <3>5, <3>6
  <2>5. CASE Seen(s)
    <3>1. UNCHANGED <<onCard, inSlot, dest, index, media, todo, toErase,
                      cancelled>>
      BY <2>5 DEF Seen, SeenHash
    <3>2. CASE DropTemp(s) /\ Abort(s)
      BY <3>1, <3>2 DEF Abort
    <3>3. CASE DropTemp(s) /\ Verify(s)
      BY <2>5, <3>1, <3>3 DEF Verify, Seen, SeenHash
    <3>4. CASE Goto(s, "verify")
               /\ UNCHANGED <<tmp, cur, verified, skipped, failed>>
      BY <2>5, <3>1, <3>4 DEF Seen, SeenHash
    <3> QED
      BY <2>5, <3>2, <3>3, <3>4 DEF Seen, SeenHash
  <2>6. CASE ReadBack(s)
    <3>1. UNCHANGED <<onCard, inSlot, dest, index, media, todo, toErase,
                      cancelled>> /\ cur[s] \in Kept
      BY <2>6 DEF ReadBack
    <3>2. CASE DropTemp(s) /\ Abort(s)
      BY <3>1, <3>2 DEF Abort
    <3>3. CASE DropTemp(s) /\ FailFile(s, cur[s])
      BY <3>1, <3>3 DEF FailFile
    <3>4. CASE Goto(s, "place")
               /\ UNCHANGED <<tmp, cur, verified, skipped, failed>>
      BY <3>1, <3>4
    <3> QED
      BY <2>6, <3>2, <3>3, <3>4 DEF ReadBack
  <2>7. CASE Place(s)
    <3>1. UNCHANGED <<onCard, inSlot, index, media, todo, toErase, cancelled>>
          /\ DropTemp(s) /\ cur[s] \in Kept
      BY <2>7 DEF Place
    <3>2. CASE Abort(s) /\ UNCHANGED dest
      BY <3>1, <3>2 DEF Abort
    <3>3. CASE /\ \E p \in DestPaths[cur[s]] :
                     dest' = [dest EXCEPT ![p] = tmp[TmpPath(s)]]
               /\ Goto(s, "mark")
               /\ UNCHANGED <<cur, verified, skipped, failed>>
      BY <3>1, <3>3
    <3> QED
      BY <2>7, <3>2, <3>3 DEF Place
  <2>8. CASE MarkVerified(s)
    <3>1. /\ UNCHANGED <<onCard, inSlot, dest, tmp, media, todo, toErase,
                         cancelled>>
          /\ cur[s] \in Kept
          /\ index' \in {index, index \cup {Sum64(cur[s])}}
      BY <2>8 DEF MarkVerified, RecordHash
    <3>2. index' \subseteq Hashes
      BY <3>1 DEF Sum64
    <3>3. CASE Verify(s)
      BY <3>1, <3>2, <3>3 DEF Verify
    <3>4. CASE Abort(s)
      BY <3>1, <3>2, <3>4 DEF Abort
    <3> QED
      BY <2>8, <3>3, <3>4 DEF MarkVerified, RecordHash
  <2>9. CASE IngestReturns(s)
    BY <2>9 DEF IngestReturns, EraseSet
  <2>10. CASE Remount(s)
    BY <2>10 DEF Remount
  <2>11. CASE Erase(s)
    BY <2>11 DEF Erase
  <2>12. CASE Sync(s)
    BY <2>12 DEF Sync
  <2>13. CASE Unmount(s)
    BY <2>13 DEF Unmount
  <2> QED
    BY <1>5, <2>1, <2>2, <2>3, <2>4, <2>5, <2>6, <2>7, <2>8, <2>9, <2>10,
       <2>11, <2>12, <2>13 DEF Work
<1> QED
  BY <1>1, <1>2, <1>3, <1>4, <1>5 DEF Next

\* Before the first card every variable has its type.
LEMMA TypeInit == Init => TypeOK /\ CurKept
BY ConstantsTyped DEF Init, TypeOK, CurKept, Steps

\* The types hold in every reachable state.
THEOREM TypeCorrect == Spec => []TypeOK
<1>1. TypeOK /\ CurKept /\ [Next]_vars => (TypeOK /\ CurKept)'
  BY TypeStep
<1> QED
  BY <1>1, TypeInit, PTL DEF Spec

-----------------------------------------------------------------------------
(* What the destination and the index may hold, whatever the files are.    *)

\* Who writes what: final paths change only by a rename, the index only by
\* MarkVerified, and a file leaves its card only in the erase loop.
LEMMA Writers ==
    ASSUME [Next]_vars
    PROVE  /\ dest' = dest \/ \E s \in Slots : Place(s)
           /\ index' = index \/ \E s \in Slots : MarkVerified(s)
           /\ onCard' = onCard \/ \E s \in Slots : Erase(s)
BY DEF Next, vars, Insert, Pull, Cancel, Crash, stable, Mount, Work, Scan,
       CtxDone, SkipFile, StreamCopy, Seen, SeenHash, ReadBack, Place,
       MarkVerified, RecordHash,
       IngestReturns, Remount, Erase, Sync, Unmount

\* A hash once recorded stays recorded.
LEMMA IndexGrows == [Next]_vars => index \subseteq index'
BY Writers DEF MarkVerified, RecordHash

\* What a worker relies on holds again after any step of any worker.
LEMMA CopyStep ==
    TypeOK /\ CopyInv /\ EraseSetSafe /\ [Next]_vars
        => CopyInv' /\ EraseSetSafe'
<1> SUFFICES ASSUME TypeOK, CopyInv, EraseSetSafe, [Next]_vars
             PROVE  CopyInv' /\ EraseSetSafe'
  OBVIOUS
<1>a. TypeOK' /\ CurKept' /\ index \subseteq index'
  BY TypeStep, IndexGrows DEF CopyInv
<1> USE ConstantsTyped DEF TypeOK, CopyInv, EraseSetSafe, LandedMatches,
        Goto, DropTemp, TmpPath, result, Sum64
<1>1. CASE UNCHANGED vars
  BY <1>1, <1>a DEF vars
<1>2. CASE Crash
  BY <1>2, <1>a DEF Crash, stable
<1>3. ASSUME NEW s \in Slots, NEW c \in Cards, Insert(s, c)
      PROVE  CopyInv' /\ EraseSetSafe'
  BY <1>3, <1>a DEF Insert
<1>4. ASSUME NEW s \in Slots, Pull(s) \/ Cancel(s) \/ Mount(s)
      PROVE  CopyInv' /\ EraseSetSafe'
  BY <1>4, <1>a DEF Pull, Cancel, Mount
<1>5. ASSUME NEW s \in Slots, Work(s) PROVE CopyInv' /\ EraseSetSafe'
  <2>1. CASE Scan(s)
    BY <2>1, <1>a DEF Scan
  <2>2. CASE CtxDone(s)
    BY <2>2, <1>a DEF CtxDone, Abort
  <2>3. CASE SkipFile(s)
    BY <2>3, <1>a DEF SkipFile
  <2>4. CASE StreamCopy(s)
    <3>1. UNCHANGED <<index, toErase, verified, skipped>>
      BY <2>4 DEF StreamCopy, FailFile, Abort
    <3>2. \A t \in Slots : pc'[t] = "place" => pc[t] = "place" /\ t # s
      BY <2>4 DEF StreamCopy, FailFile, Abort
    <3>3. \A t \in Slots \ {s} : cur'[t] = cur[t] /\ tmp'[t] = tmp[t]
      BY <2>4 DEF StreamCopy, FailFile, Abort
    <3> QED
      BY <1>a, <3>1, <3>2, <3>3
  <2>5. CASE Seen(s)
    <3>1. CASE Abort(s) /\ DropTemp(s)
      BY <2>5, <1>a, <3>1 DEF Seen, SeenHash, Abort
    <3>2. CASE Sum64(cur[s]) \in index /\ Verify(s) /\ DropTemp(s)
      BY <2>5, <1>a, <3>2 DEF Seen, SeenHash, Verify
    <3>3. CASE Goto(s, "verify")
               /\ UNCHANGED <<tmp, cur, verified, skipped, failed>>
      BY <2>5, <1>a, <3>3 DEF Seen, SeenHash
    <3> QED
      BY <2>5, <3>1, <3>2, <3>3 DEF Seen, SeenHash
  <2>6. CASE ReadBack(s)
    <3>1. UNCHANGED <<index, toErase, verified, skipped>>
      BY <2>6 DEF ReadBack, FailFile, Abort
    <3>2. pc'[s] = "place" => LandedMatches(s) /\ tmp' = tmp /\ cur' = cur
      BY <2>6 DEF ReadBack, FailFile, Abort
    <3>3. \A t \in Slots \ {s} :
             pc'[t] = pc[t] /\ cur'[t] = cur[t] /\ tmp'[t] = tmp[t]
      BY <2>6 DEF ReadBack, FailFile, Abort
    <3> QED
      BY <1>a, <3>1, <3>2, <3>3
  <2>7. CASE Place(s)
    <3>1. UNCHANGED <<index, toErase, verified, skipped>>
      BY <2>7 DEF Place, Abort
    <3>2. \A t \in Slots : pc'[t] = "place" => pc[t] = "place" /\ t # s
      BY <2>7 DEF Place, Abort
    <3>3. \A t \in Slots \ {s} : cur'[t] = cur[t] /\ tmp'[t] = tmp[t]
      BY <2>7 DEF Place, Abort
    <3> QED
      BY <1>a, <3>1, <3>2, <3>3
  <2>8. CASE MarkVerified(s)
    <3>1. CASE Abort(s)
      BY <2>8, <1>a, <3>1 DEF MarkVerified, RecordHash, Abort
    <3>2. CASE index' = index \cup {Sum64(cur[s])} /\ Verify(s)
      BY <2>8, <1>a, <3>2 DEF MarkVerified, RecordHash, Verify
    <3> QED
      BY <2>8, <3>1, <3>2 DEF MarkVerified, RecordHash
  <2>9. CASE IngestReturns(s)
    <3>1. toErase' = [toErase EXCEPT ![s] = EraseSet(s)]
      BY <2>9 DEF IngestReturns
    <3>2. \A f \in EraseSet(s) : f \in Discardable \/ Sum64(f) \in index
      BY DEF EraseSet, Discardable
    <3>3. EraseSetSafe'
      BY <1>a, <3>1, <3>2 DEF Discardable
    <3>4. CopyInv'
      BY <1>a, <2>9 DEF IngestReturns
    <3> QED
      BY <3>3, <3>4
  <2>10. CASE Remount(s)
    BY <2>10, <1>a DEF Remount, Discardable
  <2>11. CASE Erase(s)
    BY <2>11, <1>a DEF Erase, Discardable
  <2>12. CASE Sync(s)
    BY <2>12, <1>a DEF Sync
  <2>13. CASE Unmount(s)
    BY <2>13, <1>a DEF Unmount
  <2> QED
    BY <1>5, <2>1, <2>2, <2>3, <2>4, <2>5, <2>6, <2>7, <2>8, <2>9, <2>10,
       <2>11, <2>12, <2>13 DEF Work
<1> QED
  BY <1>1, <1>2, <1>3, <1>4, <1>5 DEF Next

\* Only a temp that was read back is renamed, to a path of its own file.
LEMMA DestStep ==
    TypeOK /\ CopyInv /\ DestVerified /\ [Next]_vars => DestVerified'
<1> SUFFICES ASSUME TypeOK, CopyInv, DestVerified,
                    NEW s \in Slots, Place(s)
             PROVE  DestVerified'
  BY Writers DEF DestVerified, Sum64
<1>1. CASE UNCHANGED dest
  BY <1>1 DEF DestVerified, Sum64
<1>2. ASSUME NEW p \in DestPaths[cur[s]],
             dest' = [dest EXCEPT ![p] = tmp[TmpPath(s)]]
      PROVE  DestVerified'
  <2>1. cur[s] \in Kept /\ LandedMatches(s)
    BY DEF Place, CopyInv, CurKept
  <2>2. dest'[p] = tmp[TmpPath(s)] /\ \A q \in Paths \ {p} : dest'[q] = dest[q]
    BY <1>2, <2>1, ConstantsTyped DEF TypeOK
  <2> QED
    BY <1>2, <2>1, <2>2 DEF DestVerified, LandedMatches, Sum64
<1> QED
  BY <1>1, <1>2 DEF Place

\* No run of the appliance puts unverified bytes at a final path, or gives
\* the erase loop a file that neither the index nor the policy answers for.
THEOREM VerifiedOnly == Spec => [](DestVerified /\ EraseSetSafe)
<1> DEFINE IInv == TypeOK /\ CopyInv /\ DestVerified /\ EraseSetSafe
<1>1. Init => IInv
  BY TypeInit DEF Init, CopyInv, DestVerified, EraseSetSafe
<1>2. IInv /\ [Next]_vars => IInv'
  BY TypeStep, CopyStep, DestStep DEF CopyInv
<1>3. IInv => DestVerified /\ EraseSetSafe
  OBVIOUS
<1> QED
  BY <1>1, <1>2, <1>3, PTL DEF Spec

\* What is gone from a card, the index vouches for: whatever paths collide and
\* hashes coincide, whatever was cancelled, failed or crashed, and whichever job
\* of whichever slot erased it.
THEOREM ErasedIsVouchedFor ==
    Spec => []\A f \in Files \ onCard : f \in Discardable \/ Sum64(f) \in index
<1> DEFINE Vouched ==
             \A f \in Files \ onCard : f \in Discardable \/ Sum64(f) \in index
           IInv == TypeOK /\ CopyInv /\ EraseSetSafe /\ Vouched
<1>1. Init => IInv
  BY TypeInit DEF Init, CopyInv, EraseSetSafe
<1>2. IInv /\ [Next]_vars => IInv'
  <2> SUFFICES ASSUME IInv, [Next]_vars PROVE IInv'
    OBVIOUS
  <2>1. TypeOK' /\ CopyInv' /\ EraseSetSafe'
    BY TypeStep, CopyStep DEF CopyInv
  <2>2. \A f \in onCard \ onCard' : f \in Discardable \/ Sum64(f) \in index
    BY Writers DEF Erase, EraseSetSafe
  <2>3. Vouched'
    BY <2>2, IndexGrows DEF Sum64, Discardable
  <2> QED
    BY <2>1, <2>3
<1>3. IInv => Vouched
  OBVIOUS
<1> QED
  BY <1>1, <1>2, <1>3, PTL DEF Spec

-----------------------------------------------------------------------------
(* Nothing is lost, provided that files which share a final path hold the  *)
(* same bytes and that the hash tells byte strings apart.                  *)

\* A rename never changes which hash a final path answers for: whatever was
\* there came from a file with the same bytes.
LEMMA RenameKeepsHash ==
    ASSUME TypeOK, CopyInv, DestVerified, CollisionFree, [Next]_vars,
           NEW p \in Paths, dest[p] # None
    PROVE  dest'[p] # None /\ Hash[dest'[p]] = Hash[dest[p]]
<1>1. SUFFICES ASSUME NEW s \in Slots, Place(s), dest' # dest
               PROVE  dest'[p] # None /\ Hash[dest'[p]] = Hash[dest[p]]
  BY Writers
<1>2. PICK q \in DestPaths[cur[s]] :
         dest' = [dest EXCEPT ![q] = tmp[TmpPath(s)]]
  BY <1>1 DEF Place
<1>3. cur[s] \in Kept /\ LandedMatches(s)
  BY <1>1 DEF Place, CopyInv, CurKept
<1>4. CASE p # q
  BY <1>2, <1>4 DEF TypeOK
<1>5. CASE p = q
  <2>1. PICK g \in Kept : p \in DestPaths[g] /\ Hash[dest[p]] = Sum64(g)
    BY DEF DestVerified
  <2>2. Content[g] = Content[cur[s]]
    BY <1>2, <1>3, <1>5, <2>1 DEF CollisionFree
  <2>3. dest'[p] = tmp[TmpPath(s)]
    BY <1>2, <1>5 DEF TypeOK
  <2> QED
    BY <1>3, <2>1, <2>2, <2>3 DEF LandedMatches, Sum64
<1> QED
  BY <1>4, <1>5

\* The copy of a file between its rename and its MarkVerified, and the copies
\* behind the index, outlive every step.
LEMMA LandedStep ==
    ASSUME CollisionFree
    PROVE  /\ TypeOK /\ CopyInv /\ DestVerified /\ MarkLanded /\ IndexLanded
           /\ [Next]_vars
           => MarkLanded' /\ IndexLanded'
<1> SUFFICES ASSUME TypeOK, CopyInv, DestVerified, MarkLanded, IndexLanded,
                    [Next]_vars
             PROVE  MarkLanded' /\ IndexLanded'
  OBVIOUS
<1> DEFINE Held(h) == \E p \in Paths : dest[p] # None /\ Hash[dest[p]] = h
<1> DEFINE HeldNext(h) ==
             \E p \in Paths : dest'[p] # None /\ Hash[dest'[p]] = h
<1>1. ASSUME NEW h, Held(h) PROVE HeldNext(h)
  BY <1>1, RenameKeepsHash
<1>2. ASSUME NEW s \in Slots, pc'[s] = "mark"
      PROVE  HeldNext(Hash[Content[cur'[s]]])
  <2>1. CASE pc[s] = "mark" /\ cur'[s] = cur[s]
    <3>1. Held(Sum64(cur[s]))
      BY <2>1 DEF MarkLanded
    <3>2. HeldNext(Sum64(cur[s]))
      BY <3>1, <1>1
    <3> QED
      BY <2>1, <3>2 DEF Sum64
  <2>2. CASE Place(s) /\ UNCHANGED cur
    <3>1. PICK p \in DestPaths[cur[s]] :
             dest' = [dest EXCEPT ![p] = tmp[TmpPath(s)]]
      BY <1>2, <2>2 DEF Place, Abort, Goto, TypeOK, Steps
    <3>2. cur[s] \in Kept /\ LandedMatches(s)
      BY <2>2 DEF Place, CopyInv, CurKept
    <3>3. p \in Paths /\ dest'[p] = tmp[TmpPath(s)]
      BY <3>1, <3>2, ConstantsTyped DEF TypeOK
    <3> QED
      BY <2>2, <3>2, <3>3 DEF LandedMatches, Sum64
  <2>3. \/ pc[s] = "mark" /\ cur'[s] = cur[s]
        \/ Place(s) /\ UNCHANGED cur
    BY <1>2 DEF Next, vars, Insert, Pull, Cancel, Crash, stable, Mount, Work,
       Scan, CtxDone, SkipFile, StreamCopy, Seen, SeenHash, ReadBack, Place,
       MarkVerified, RecordHash, IngestReturns, Remount, Erase, Sync, Unmount,
       Goto,
       Abort, Verify, FailFile, TypeOK, Steps
  <2> QED
    BY <2>1, <2>2, <2>3
<1>3. ASSUME NEW h \in index' PROVE HeldNext(h)
  <2>1. CASE h \in index
    BY <2>1, <1>1 DEF IndexLanded
  <2>2. CASE h \notin index
    <3>1. PICK s \in Slots : MarkVerified(s)
      BY <1>3, <2>2, Writers
    <3>2. h = Sum64(cur[s]) /\ pc[s] = "mark"
      BY <1>3, <2>2, <3>1 DEF MarkVerified, RecordHash
    <3> QED
      BY <3>2, <1>1 DEF MarkLanded
  <2> QED
    BY <2>1, <2>2
<1> QED
  BY <1>2, <1>3 DEF MarkLanded, IndexLanded, Sum64

\* A file that has landed stays landed.
LEMMA LandedGrows ==
    ASSUME TypeOK, CopyInv, DestVerified, CollisionFree, HashInjective,
           [Next]_vars, TypeOK'
    PROVE  Landed \subseteq Landed'
<1> SUFFICES ASSUME NEW f \in Files, NEW p \in Paths, dest[p] = Content[f]
             PROVE  dest'[p] = Content[f]
  BY DEF Landed
<1>1. Content[f] \in Contents /\ dest[p] # None
  BY ConstantsTyped
<1>2. dest'[p] \in Contents /\ Hash[dest'[p]] = Hash[Content[f]]
  BY <1>1, RenameKeepsHash DEF TypeOK
<1> QED
  BY <1>1, <1>2 DEF HashInjective

\* The erase loop is only ever given what has landed or was given up.
LEMMA EraseSetLanded ==
    ASSUME TypeOK, EraseSetSafe, IndexLanded, HashInjective,
           NEW s \in Slots, NEW f \in toErase[s]
    PROVE  f \in Landed \cup Discardable
<1>1. CASE f \in Discardable
  BY <1>1
<1>2. CASE Sum64(f) \in index
  <2>1. PICK p \in Paths : dest[p] # None /\ Hash[dest[p]] = Hash[Content[f]]
    BY <1>2 DEF IndexLanded, Sum64
  <2>2. f \in Files /\ Content[f] \in Contents /\ dest[p] \in Contents
    BY <2>1, ConstantsTyped DEF TypeOK
  <2> QED
    BY <2>1, <2>2 DEF HashInjective, Landed
<1> QED
  BY <1>1, <1>2 DEF EraseSetSafe

\* The strengthened invariant under which every step is a step of the promise.
SafeInv ==
    /\ TypeOK
    /\ CopyInv
    /\ DestVerified
    /\ EraseSetSafe
    /\ MarkLanded
    /\ IndexLanded
    /\ ErasedIsLanded

\* It holds initially.
LEMMA SafeInit == Init => SafeInv
BY TypeInit DEF Init, SafeInv, CopyInv, DestVerified, EraseSetSafe,
   MarkLanded, IndexLanded, ErasedIsLanded

\* Every step keeps it.
LEMMA SafeStep ==
    ASSUME CollisionFree, HashInjective
    PROVE  SafeInv /\ [Next]_vars => SafeInv'
<1> SUFFICES ASSUME SafeInv, [Next]_vars PROVE SafeInv'
  OBVIOUS
<1>1. TypeOK' /\ CopyInv' /\ DestVerified' /\ EraseSetSafe'
  BY TypeStep, CopyStep, DestStep DEF SafeInv, CopyInv
<1>2. MarkLanded' /\ IndexLanded'
  BY LandedStep DEF SafeInv
<1>3. ErasedIsLanded'
  <2>1. Landed \subseteq Landed'
    BY <1>1, LandedGrows DEF SafeInv
  <2>2. onCard \ onCard' \subseteq Landed \cup Discardable
    BY Writers, EraseSetLanded DEF Erase, SafeInv
  <2> QED
    BY <2>1, <2>2 DEF SafeInv, ErasedIsLanded, Discardable
<1> QED
  BY <1>1, <1>2, <1>3 DEF SafeInv

\* A file is gone from its card only if its content is on the destination or
\* the policy gave it up, and dedupe never trusts a hash with nothing behind
\* it: through every interleaving, cancellation, failure and crash.
THEOREM NothingLost ==
    ASSUME CollisionFree, HashInjective
    PROVE  Spec => [](ErasedIsLanded /\ IndexLanded)
<1>1. SafeInv /\ [Next]_vars => SafeInv'
  BY SafeStep
<1>2. SafeInv => ErasedIsLanded /\ IndexLanded
  BY DEF SafeInv
<1> QED
  BY <1>1, <1>2, SafeInit, PTL DEF Spec

\* The byte path implements the promise of SafeTransfer.
THEOREM ImplementsSafeTransfer ==
    ASSUME CollisionFree, HashInjective
    PROVE  Spec => TransferIsSafe
<1>1. Init => ST!Init
  BY ConstantsTyped DEF Init, ST!Init, Landed
<1>2. SafeInv /\ [Next]_vars => [ST!Next]_ST!vars
  <2> SUFFICES ASSUME SafeInv, [Next]_vars PROVE [ST!Next]_ST!vars
    OBVIOUS
  <2>1. Landed \subseteq Landed' /\ Landed' \in SUBSET Files
    BY LandedGrows, TypeStep DEF SafeInv, CopyInv, Landed
  <2>2. CASE onCard' = onCard
    BY <2>1, <2>2 DEF ST!Next, ST!Land
  <2>3. ASSUME NEW s \in Slots, Erase(s), onCard' # onCard
        PROVE  ST!Next
    <3>1. PICK f \in toErase[s] : onCard' = onCard \ {f}
      BY <2>3 DEF Erase
    <3>2. f \in onCard /\ f \in Landed \cup Discardable
      BY <2>3, <3>1, EraseSetLanded DEF SafeInv
    <3>3. Landed' = Landed
      BY <2>3 DEF Erase, Landed
    <3> QED
      BY <3>1, <3>2, <3>3 DEF ST!Next, ST!Erase
  <2> QED
    BY <2>2, <2>3, Writers
<1>3. SafeInv /\ [Next]_vars => SafeInv'
  BY SafeStep
<1> QED
  BY <1>1, <1>2, <1>3, SafeInit, PTL DEF Spec, TransferIsSafe, ST!Spec

-----------------------------------------------------------------------------
(* A job's lists and its card.                                             *)

\* A job's lists speak of the card it has mounted and of nothing else, and
\* they stay disjoint, wherever cards are moved to in the meantime.
LEMMA CardStep == TypeOK /\ CurKept /\ CardInv /\ [Next]_vars => CardInv'
<1> SUFFICES ASSUME TypeOK, CurKept, CardInv, [Next]_vars PROVE CardInv'
  OBVIOUS
<1>a. TypeOK'
  BY TypeStep
<1> USE ConstantsTyped DEF TypeOK, CardInv, Steps, Goto, result, FilesOn
<1>1. CASE UNCHANGED vars
  BY <1>1 DEF vars
<1>2. CASE Crash
  BY <1>2 DEF Crash, stable
<1>3. ASSUME NEW s \in Slots, NEW c \in Cards, Insert(s, c) PROVE CardInv'
  BY <1>3 DEF Insert
<1>4. ASSUME NEW s \in Slots, Pull(s) \/ Cancel(s) \/ Mount(s) PROVE CardInv'
  BY <1>4 DEF Pull, Cancel, Mount
<1>5. ASSUME NEW s \in Slots, Work(s) PROVE CardInv'
  <2>1. CASE Scan(s)
    BY <2>1 DEF Scan
  <2>2. CASE CtxDone(s)
    BY <2>2 DEF CtxDone, Abort
  <2>3. CASE SkipFile(s)
    BY <2>3 DEF SkipFile
  <2>4. CASE StreamCopy(s)
    <3>1. PICK f \in todo[s] \cap Kept :
             /\ todo' = [todo EXCEPT ![s] = @ \ {f}]
             /\ \/ media[s] # None /\ cur' = [cur EXCEPT ![s] = f]
                   /\ Goto(s, "seen") /\ UNCHANGED result
                \/ FailFile(s, f)
                \/ Abort(s)
      BY <2>4 DEF StreamCopy
    <3>2. UNCHANGED <<onCard, inSlot, media, toErase>> /\ pc[s] = "next"
      BY <2>4 DEF StreamCopy
    <3>3. CASE cur' = [cur EXCEPT ![s] = f] /\ Goto(s, "seen")
               /\ UNCHANGED result
      BY <3>1, <3>2, <3>3
    <3>4. CASE FailFile(s, f)
      BY <3>1, <3>2, <3>4 DEF FailFile
    <3>5. CASE Abort(s)
      BY <3>1, <3>2, <3>5 DEF Abort
    <3> QED
      BY <3>1, <3>3, <3>4, <3>5
  <2>5. CASE Seen(s)
    <3>1. UNCHANGED <<onCard, inSlot, media, todo, toErase>>
          /\ pc[s] = "seen" /\ cur[s] \in Kept
      BY <2>5 DEF Seen, SeenHash, CurKept
    <3>2. CASE Abort(s)
      BY <3>1, <3>2 DEF Abort
    <3>3. CASE Verify(s)
      BY <3>1, <3>3 DEF Verify
    <3>4. CASE Goto(s, "verify")
               /\ UNCHANGED <<tmp, cur, verified, skipped, failed>>
      BY <3>1, <3>4
    <3> QED
      BY <2>5, <3>2, <3>3, <3>4 DEF Seen, SeenHash
  <2>6. CASE ReadBack(s)
    <3>1. UNCHANGED <<onCard, inSlot, media, todo, toErase>>
          /\ pc[s] = "verify" /\ cur[s] \in Kept
      BY <2>6 DEF ReadBack, CurKept
    <3>2. CASE Abort(s)
      BY <3>1, <3>2 DEF Abort
    <3>3. CASE FailFile(s, cur[s])
      BY <3>1, <3>3 DEF FailFile
    <3>4. CASE Goto(s, "place")
               /\ UNCHANGED <<tmp, cur, verified, skipped, failed>>
      BY <3>1, <3>4
    <3> QED
      BY <2>6, <3>2, <3>3, <3>4 DEF ReadBack
  <2>7. CASE Place(s)
    BY <2>7 DEF Place, Abort
  <2>8. CASE MarkVerified(s)
    <3>1. UNCHANGED <<onCard, inSlot, media, todo, toErase>>
          /\ pc[s] = "mark" /\ cur[s] \in Kept
      BY <2>8 DEF MarkVerified, RecordHash, CurKept
    <3>2. CASE Abort(s)
      BY <3>1, <3>2 DEF Abort
    <3>3. CASE Verify(s)
      BY <3>1, <3>3 DEF Verify
    <3> QED
      BY <2>8, <3>2, <3>3 DEF MarkVerified, RecordHash
  <2>9. CASE IngestReturns(s)
    BY <2>9 DEF IngestReturns, EraseSet
  <2>10. CASE Remount(s)
    BY <2>10 DEF Remount
  <2>11. CASE Erase(s)
    BY <2>11 DEF Erase
  <2>12. CASE Sync(s)
    BY <2>12 DEF Sync
  <2>13. CASE Unmount(s)
    BY <2>13 DEF Unmount
  <2> QED
    BY <1>5, <2>1, <2>2, <2>3, <2>4, <2>5, <2>6, <2>7, <2>8, <2>9, <2>10,
       <2>11, <2>12, <2>13 DEF Work
<1> QED
  BY <1>1, <1>2, <1>3, <1>4, <1>5 DEF Next

\* A file can leave its card only through the one job that has it mounted,
\* and that job's own list of failed files is out of its erase loop's reach.
LEMMA FailedStep ==
    TypeOK /\ CurKept /\ CardInv /\ FailedStays /\ [Next]_vars => FailedStays'
<1> SUFFICES ASSUME TypeOK, CurKept, CardInv, FailedStays, [Next]_vars,
                    NEW s \in Slots, media'[s] # None, NEW f \in failed'[s]
             PROVE  f \in onCard'
  BY DEF FailedStays
<1>1. CASE \E t \in Slots : Erase(t)
  <2>1. PICK t \in Slots : Erase(t)
    BY <1>1
  <2>2. media' = media /\ failed' = failed
    BY <2>1 DEF Erase
  <2>3. f \in onCard /\ CardOf[f] = inSlot[s] /\ f \notin toErase[s]
    BY <2>2 DEF CardInv, FailedStays
  <2>4. CASE onCard' = onCard
    BY <2>3, <2>4
  <2>5. CASE onCard' # onCard
    <3>1. PICK g \in toErase[t] : onCard' = onCard \ {g} /\ media[t] # None
      BY <2>1, <2>5 DEF Erase
    <3>2. CardOf[g] = inSlot[t] /\ inSlot[t] # None
      BY <3>1 DEF CardInv
    <3>3. t # s => inSlot[t] # inSlot[s]
      BY <3>2 DEF CardInv
    <3> QED
      BY <2>3, <3>1, <3>2, <3>3
  <2> QED
    BY <2>4, <2>5
<1>2. CASE onCard' = onCard
  <2>1. f \in failed[s] \/ f \in todo[s] \/ (f = cur[s] /\ cur[s] # None)
    <3>1. ASSUME NEW t \in Slots, StreamCopy(t) \/ ReadBack(t)
          PROVE  f \in failed[s] \/ f \in todo[s]
                 \/ (f = cur[s] /\ cur[s] # None)
      <4>1. cur[t] \in Files \/ StreamCopy(t)
        BY <3>1, ConstantsTyped DEF ReadBack, CurKept
      <4>2. \/ failed' = failed
            \/ \E g \in todo[t] : failed' = [failed EXCEPT ![t] = @ \cup {g}]
            \/ cur[t] \in Files
               /\ failed' = [failed EXCEPT ![t] = @ \cup {cur[t]}]
        BY <3>1, <4>1 DEF StreamCopy, ReadBack, FailFile, Abort, result
      <4> QED
        BY <4>2, ConstantsTyped DEF TypeOK
    <3>2. \/ failed' = failed
          \/ failed'[s] = {}
          \/ failed'[s] = failed[s]
          \/ \E t \in Slots : StreamCopy(t) \/ ReadBack(t)
      BY DEF Next, vars, Insert, Pull, Cancel, Crash, Mount, Work, Scan,
         CtxDone, SkipFile, Seen, SeenHash, Place, MarkVerified, RecordHash,
         IngestReturns, Remount,
         Erase, Sync, Unmount, Abort, Verify, result, TypeOK
    <3> QED
      BY <3>1, <3>2
  <2>2. media[s] # None \/ failed'[s] = {}
    BY DEF Next, vars, Insert, Pull, Cancel, Crash, stable, Mount, Work, Scan,
       CtxDone, SkipFile, StreamCopy, Seen, SeenHash, ReadBack, Place,
       MarkVerified, RecordHash,
       IngestReturns, Remount, Erase, Sync, Unmount, TypeOK, CardInv
  <2> QED
    BY <1>2, <2>1, <2>2 DEF CardInv, FailedStays
<1> QED
  BY <1>1, <1>2, Writers

\* A file whose copy failed stays on the card for as long as the job that
\* failed it has that card mounted, whatever the other slots do.
THEOREM FailedFilesStay == Spec => []FailedStays
<1> DEFINE IInv == TypeOK /\ CurKept /\ CardInv /\ FailedStays
<1>1. Init => IInv
  BY TypeInit DEF Init, CardInv, FailedStays
<1>2. IInv /\ [Next]_vars => IInv'
  BY TypeStep, CardStep, FailedStep
<1> QED
  BY <1>1, <1>2, PTL DEF Spec

-----------------------------------------------------------------------------
(* Jobs end.                                                               *)

\* The stages of a job, and the steps for one file in their order.
Stage == [scan |-> 1, seen |-> 2, verify |-> 2, place |-> 2, mark |-> 2,
          next |-> 2, remount |-> 3, erase |-> 4, unmount |-> 5, idle |-> 6]
ForOne == [seen |-> 1, verify |-> 2, place |-> 3, mark |-> 4, next |-> 5]

\* Closer to its end: a later stage; or fewer files to visit, or the same ones
\* and a later step for the file at hand; or fewer files to erase.
Closer(s) ==
    \/ Stage[pc[s]] < Stage[pc'[s]]
    \/ /\ Stage[pc[s]] = 2 /\ Stage[pc'[s]] = 2
       /\ \/ todo'[s] \subseteq todo[s] /\ todo'[s] # todo[s]
          \/ todo'[s] = todo[s] /\ ForOne[pc[s]] < ForOne[pc'[s]]
    \/ /\ pc[s] = "erase" /\ pc'[s] = "erase"
       /\ toErase'[s] \subseteq toErase[s] /\ toErase'[s] # toErase[s]

\* Every step a worker takes brings its job closer to its end, whatever fails,
\* and what the other slots' workers do, and whoever pulls, inserts or cancels,
\* does not set it back: a job on a card with finitely many files ends.
THEOREM JobsGetDone ==
    Spec => [][\A s \in Slots :
                 /\ Work(s) => Closer(s)
                 /\ pc[s] # "idle" =>
                      \/ Work(s) \/ Crash
                      \/ /\ pc'[s] = pc[s] /\ todo'[s] = todo[s]
                         /\ toErase'[s] = toErase[s]]_vars
<1> DEFINE Onward == \A s \in Slots :
               /\ Work(s) => Closer(s)
               /\ pc[s] # "idle" =>
                    \/ Work(s) \/ Crash
                    \/ /\ pc'[s] = pc[s] /\ todo'[s] = todo[s]
                       /\ toErase'[s] = toErase[s]
<1>1. ASSUME TypeOK, NEW s \in Slots, Work(s) PROVE Closer(s)
  <2> USE <1>1 DEF TypeOK, Steps, Closer, Stage, ForOne, Goto
  <2>1. CASE Scan(s)
    BY <2>1 DEF Scan
  <2>2. CASE CtxDone(s)
    BY <2>2 DEF CtxDone, Abort
  <2>3. CASE SkipFile(s)
    BY <2>3 DEF SkipFile
  <2>4. CASE StreamCopy(s)
    BY <2>4 DEF StreamCopy, FailFile, Abort
  <2>5. CASE Seen(s)
    BY <2>5 DEF Seen, Abort, Verify
  <2>6. CASE ReadBack(s)
    BY <2>6 DEF ReadBack, Abort, FailFile
  <2>7. CASE Place(s)
    BY <2>7 DEF Place, Abort
  <2>8. CASE MarkVerified(s)
    BY <2>8 DEF MarkVerified, Abort, Verify
  <2>9. CASE IngestReturns(s)
    BY <2>9 DEF IngestReturns
  <2>10. CASE Remount(s)
    BY <2>10 DEF Remount
  <2>11. CASE Erase(s)
    BY <2>11 DEF Erase
  <2>12. CASE Sync(s)
    BY <2>12 DEF Sync
  <2>13. CASE Unmount(s)
    BY <2>13 DEF Unmount
  <2> QED
    BY <1>1, <2>1, <2>2, <2>3, <2>4, <2>5, <2>6, <2>7, <2>8, <2>9, <2>10,
       <2>11, <2>12, <2>13 DEF Work
<1>2. ASSUME TypeOK, NEW s \in Slots, NEW t \in Slots, t # s, Work(t)
      PROVE  pc'[s] = pc[s] /\ todo'[s] = todo[s] /\ toErase'[s] = toErase[s]
  BY <1>2 DEF TypeOK, Work, Scan, CtxDone, SkipFile, StreamCopy, Seen,
     ReadBack, Place, MarkVerified, IngestReturns, Remount, Erase, Sync,
     Unmount, Goto, Abort, Verify, FailFile
<1>3. TypeOK /\ [Next]_vars => [Onward]_vars
  <2> SUFFICES ASSUME TypeOK, Next, NEW s \in Slots, pc[s] # "idle",
                      ~Work(s), ~Crash
               PROVE  /\ pc'[s] = pc[s] /\ todo'[s] = todo[s]
                      /\ toErase'[s] = toErase[s]
    BY <1>1
  <2>1. CASE \E t \in Slots : Work(t)
    BY <1>2, <2>1
  <2>2. CASE \E t \in Slots : \/ \E c \in Cards : Insert(t, c)
                              \/ Pull(t) \/ Cancel(t) \/ Mount(t)
    BY <2>2 DEF Insert, Pull, Cancel, Mount, Goto, TypeOK
  <2> QED
    BY <2>1, <2>2 DEF Next
<1> QED
  BY <1>3, TypeCorrect, PTL DEF Spec

=============================================================================
