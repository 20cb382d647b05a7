----------------------------- MODULE AppProofs ------------------------------
(***************************************************************************)
(* Proofs about App, for any number of slots and jobs, with events in any  *)
(* order, a shutdown and restarts at any step.                             *)
(***************************************************************************)
EXTENDS App, FiniteSetTheorems, TLAPS

\* The types of everything but the wait group.
Typed ==
    /\ run \in {"looping", "draining", "stopped"}
    /\ stopping \in BOOLEAN
    /\ workers \in [Slots -> Workers \cup {None}]
    /\ status \in [Slots -> Workers \cup {None}]
    /\ step \in [Workers -> Steps]
    /\ slotOf \in [Workers -> Slots \cup {None}]
    /\ cancelled \in [Workers -> BOOLEAN]
    /\ mount \in [Workers -> Live \cup {"none", "stuck"}]
    /\ row \in [Workers -> {"none", "running", "complete", "error"}]
    /\ alerted \in [Workers -> BOOLEAN]

\* The steps at which a worker shows its slot as ingesting, those at which it
\* may have a card mounted, and those that come after the job's outcome.
Showing == {"mount", "ingest", "remount", "erase", "complete", "fail",
            "unmount", "idle"}
Mounted == {"ingest", "remount", "erase", "complete", "fail", "unmount"}
After == {"unmount", "idle", "leave", "done", "gone"}

\* Where a worker is says what it has left in the shared state: its status is
\* up while it shows it, its mount is live only between mount and unmount, and
\* its row has an outcome only when it has nothing more to record.
WorkerInv ==
    \A w \in Workers :
        /\ step[w] \in Active => slotOf[w] \in Slots
        /\ step[w] \in Showing => status[slotOf[w]] = w
        /\ mount[w] \in Live => step[w] \in Mounted
        /\ row[w] \in {"complete", "error"} => step[w] \in After

\* A slot is shown as ingesting only by a worker that will take that back.
StatusInv ==
    \A s \in Slots : \A w \in Workers :
        status[s] = w => step[w] \in Showing /\ slotOf[w] = s

IInv == Typed /\ OneWorkerPerSlot /\ WorkerInv /\ StatusInv

\* It holds before the first event.
LEMMA IInvInit == Init => IInv
<1> SUFFICES ASSUME Init PROVE IInv
  OBVIOUS
<1>1. Typed
  BY DEF Init, Typed, Steps, Alive
<1>2. OneWorkerPerSlot /\ StatusInv
  BY WorkersFinite DEF Init, OneWorkerPerSlot, Serving, StatusInv, Active
<1>3. WorkerInv
  BY DEF Init, WorkerInv, Active, Live, Showing, Mounted
<1> QED
  BY <1>1, <1>2, <1>3 DEF IInv

\* Run's goroutine, the environment and every step of every worker keep it.
LEMMA IInvStep == IInv /\ [Next]_vars => IInv'
<1> SUFFICES ASSUME IInv, [Next]_vars PROVE IInv'
  OBVIOUS
<1> USE WorkersFinite DEF IInv, Typed, OneWorkerPerSlot, Serving, WorkerInv,
        StatusInv, Steps, Alive, Active, Live, Showing, Mounted, After, Goto
<1>1. CASE UNCHANGED vars
  BY <1>1 DEF vars
<1>2. ASSUME NEW s \in Slots, StartWorker(s) PROVE IInv'
  BY <1>2 DEF StartWorker, Free
<1>3. ASSUME NEW s \in Slots, IgnoreInsert(s) \/ StopWorker(s) PROVE IInv'
  <2>1. CASE IgnoreInsert(s)
    BY <1>1, <2>1 DEF IgnoreInsert
  <2>2. CASE StopWorker(s)
    <3>1. cancelled' \in [Workers -> BOOLEAN]
      BY <2>2, Zenon DEF StopWorker
    <3>2. UNCHANGED <<run, stopping, workers, wg, status, step, slotOf, mount,
                      row, alerted>>
      BY <2>2 DEF StopWorker
    <3> QED
      BY <3>1, <3>2
  <2> QED
    BY <1>3, <2>1, <2>2
<1>4. CASE Signal \/ Shutdown \/ Wait
  <2>1. CASE Signal
    BY <2>1 DEF Signal
  <2>2. CASE Shutdown
    <3>1. cancelled' \in [Workers -> BOOLEAN]
      BY <2>2, Zenon DEF Shutdown
    <3> QED
      BY <2>2, <3>1 DEF Shutdown
  <2>3. CASE Wait
    BY <2>3 DEF Wait
  <2> QED
    BY <1>4, <2>1, <2>2, <2>3
<1>5. CASE Restart
  <2>1. cancelled' \in [Workers -> BOOLEAN]
    BY <1>5, Zenon DEF Restart
  <2>2. /\ \A w \in Workers : step'[w] \in {"new", "gone"}
        /\ \A w \in Workers : step[w] \in After => step'[w] = "gone"
        /\ \A w \in Workers : mount'[w] \in {"none", "stuck"}
        /\ \A s \in Slots : workers'[s] = None /\ status'[s] = None
    BY <1>5 DEF Restart
  <2>3. Typed'
    <3>1. step' \in [Workers -> Steps]
          /\ mount' \in [Workers -> Live \cup {"none", "stuck"}]
      BY <1>5 DEF Restart
    <3>2. workers' \in [Slots -> Workers \cup {None}]
          /\ status' \in [Slots -> Workers \cup {None}]
      BY <1>5 DEF Restart
    <3> QED
      BY <1>5, <2>1, <3>1, <3>2 DEF Restart
  <2>4. OneWorkerPerSlot' /\ StatusInv' /\ WorkerInv'
    BY <1>5, <2>2 DEF Restart
  <2> QED
    BY <2>3, <2>4
<1>6. ASSUME NEW w \in Workers, Work(w) PROVE IInv'
  <2>1. CASE StartJob(w)
    BY <2>1 DEF StartJob, InsertRow
  <2>2. CASE Announce(w)
    BY <2>2 DEF Announce
  <2>3. CASE Mount(w)
    BY <2>3 DEF Mount
  <2>4. CASE Ingest(w)
    BY <2>4 DEF Ingest
  <2>5. CASE Remount(w)
    BY <2>5 DEF Remount
  <2>6. CASE Erase(w)
    <3>1. alerted' \in [Workers -> BOOLEAN]
      <4>1. CASE UNCHANGED alerted
        BY <4>1
      <4>2. CASE EmitError(w)
        BY <4>2, Zenon DEF EmitError
      <4> QED
        BY <2>6, <4>1, <4>2 DEF Erase
    <3>2. /\ step[w] = "erase" /\ step' = [step EXCEPT ![w] = "complete"]
          /\ UNCHANGED <<run, stopping, workers, wg, status, slotOf, cancelled,
                         mount, row>>
      BY <2>6 DEF Erase
    <3> QED
      BY <3>1, <3>2
  <2>7. CASE Complete(w)
    BY <2>7 DEF Complete, FinishJob, UpdateRow
  <2>8. CASE Fail(w)
    BY <2>8 DEF Fail, FinishJob, UpdateRow, EmitError, Done
  <2>9. CASE Unmount(w)
    BY <2>9 DEF Unmount
  <2>10. CASE SetIdle(w)
    BY <2>10 DEF SetIdle
  <2>11. CASE FinishWorker(w)
    BY <2>11 DEF FinishWorker
  <2>12. CASE WgDone(w)
    BY <2>12 DEF WgDone
  <2> QED
    BY <1>6, <2>1, <2>2, <2>3, <2>4, <2>5, <2>6, <2>7, <2>8, <2>9, <2>10,
       <2>11, <2>12 DEF Work
<1> QED
  BY <1>1, <1>2, <1>3, <1>4, <1>5, <1>6 DEF Next, Loop, HandleInserted

\* The map of workers and the goroutines agree in every reachable state: no
\* second worker for a slot, no stale entry, nobody else's entry deleted.
THEOREM MapAgrees == Spec => []OneWorkerPerSlot
<1>1. IInv => OneWorkerPerSlot
  BY DEF IInv
<1> QED
  BY <1>1, IInvInit, IInvStep, PTL DEF Spec

\* While a card is mounted its slot is shown as ingesting.
THEOREM NeverMountedUnseen == Spec => []MountShown
<1>1. IInv => MountShown
  BY DEF IInv, WorkerInv, MountShown, Showing, Mounted
<1> QED
  BY <1>1, IInvInit, IInvStep, PTL DEF Spec

\* No later step, and no later run of the process, rewrites an outcome.
THEOREM HistoryStays == Spec => OutcomeIsFinal
<1> DEFINE Kept == \A w \in Workers :
              row[w] \in {"complete", "error"} => row'[w] = row[w]
<1>1. IInv /\ [Next]_vars => [Kept]_vars
  <2> SUFFICES ASSUME IInv, Next, NEW w \in Workers,
                      row[w] \in {"complete", "error"}
               PROVE  row'[w] = row[w]
    OBVIOUS
  <2>1. step[w] \in After
    BY DEF IInv, WorkerInv
  <2>2. ASSUME NEW v \in Workers, Work(v) PROVE row'[w] = row[w]
    BY <2>1, <2>2 DEF IInv, Typed, After, Work, StartJob, InsertRow, Announce,
       Mount, Ingest, Remount, Erase, Complete, Fail, FinishJob, UpdateRow,
       Unmount, SetIdle, FinishWorker, WgDone
  <2> QED
    BY <2>2 DEF Next, Loop, HandleInserted, StartWorker, IgnoreInsert,
       StopWorker, Signal, Shutdown, Wait, Restart, vars
<1> QED
  BY <1>1, IInvInit, IInvStep, PTL DEF Spec, OutcomeIsFinal

-----------------------------------------------------------------------------
(* The wait group.                                                         *)

Running == {w \in Workers : step[w] \in Alive}

\* The goroutines that are left are finitely many.
LEMMA RunningFinite ==
    /\ IsFiniteSet(Running)
    /\ Cardinality(Running) \in Nat
    /\ Cardinality(Running) <= Cardinality(Workers)
    /\ Cardinality(Workers) \in Nat
BY WorkersFinite, FS_Subset, FS_CardinalityType DEF Running

\* wg.Add comes with the goroutine, wg.Done is the last thing it does.
LEMMA WaitGroupStep ==
    ASSUME IInv, WaitGroupCounts, [Next]_vars PROVE WaitGroupCounts'
<1> USE DEF WaitGroupCounts
<1>1. wg = Cardinality(Running)
  BY DEF Running
<1> SUFFICES wg' = Cardinality(Running')
  BY DEF Running
<1>2. CASE UNCHANGED wg /\ \A w \in Workers :
             step'[w] \in Alive <=> step[w] \in Alive
  <2>1. Running' = Running
    BY <1>2 DEF Running
  <2> QED
    BY <1>1, <1>2, <2>1
<1>3. ASSUME NEW s \in Slots, StartWorker(s)
      PROVE  wg' = Cardinality(Running')
  <2>1. PICK w \in Free : step' = [step EXCEPT ![w] = "start"]
    BY <1>3 DEF StartWorker
  <2>2. w \notin Running /\ Running' = Running \cup {w}
    BY <2>1 DEF Running, Free, Alive, Active, IInv, Typed
  <2>3. Cardinality(Running \cup {w}) = Cardinality(Running) + 1
    BY <2>2, RunningFinite, FS_AddElement
  <2> QED
    BY <1>1, <1>3, <2>2, <2>3 DEF StartWorker
<1>4. ASSUME NEW w \in Workers, WgDone(w) PROVE wg' = Cardinality(Running')
  <2>1. w \in Running /\ Running' = Running \ {w}
    BY <1>4 DEF WgDone, Goto, Running, Alive, Active, IInv, Typed
  <2>2. Cardinality(Running \ {w}) = Cardinality(Running) - 1
    BY <2>1, RunningFinite, FS_RemoveElement
  <2> QED
    BY <1>1, <1>4, <2>1, <2>2 DEF WgDone
<1>5. CASE Restart
  <2>1. Running' = {}
    BY <1>5 DEF Restart, Running, Alive, Active, IInv, Typed
  <2> QED
    BY <1>5, <2>1, FS_EmptySet DEF Restart
<1>6. \/ UNCHANGED wg /\ \A w \in Workers :
             step'[w] \in Alive <=> step[w] \in Alive
      \/ \E s \in Slots : StartWorker(s)
      \/ \E w \in Workers : WgDone(w)
      \/ Restart
  <2>1. ASSUME NEW w \in Workers, Work(w), ~WgDone(w)
        PROVE  UNCHANGED wg /\ \A v \in Workers :
                  step'[v] \in Alive <=> step[v] \in Alive
    <3>1. /\ wg' = wg
          /\ step[w] \in Active
          /\ \E next \in Alive : step' = [step EXCEPT ![w] = next]
      BY <2>1 DEF Work, StartJob, Announce, Mount, Ingest, Remount, Erase,
         Complete, Fail, Unmount, SetIdle, FinishWorker, Goto, Alive, Active
    <3> QED
      BY <3>1 DEF IInv, Typed, Alive
  <2>2. CASE UNCHANGED vars
    BY <2>2 DEF vars
  <2>3. ASSUME NEW s \in Slots, IgnoreInsert(s) \/ StopWorker(s)
        PROVE  UNCHANGED <<wg, step>>
    BY <2>3 DEF IgnoreInsert, StopWorker, vars
  <2>4. CASE Signal \/ Shutdown \/ Wait
    BY <2>4 DEF Signal, Shutdown, Wait
  <2> QED
    BY <2>1, <2>2, <2>3, <2>4 DEF Next, Loop, HandleInserted
<1> QED
  BY <1>2, <1>3, <1>4, <1>5, <1>6

\* Run has returned only when no goroutine is left, and none is started after.
StopInv == run = "stopped" => Running = {}

\* Nothing runs behind the back of a shutdown.
LEMMA StopStep ==
    ASSUME IInv, WaitGroupCounts, StopInv, [Next]_vars PROVE StopInv'
<1> SUFFICES ASSUME run' = "stopped", NEW w \in Workers
             PROVE  step'[w] \notin Alive
  BY DEF StopInv, Running
<1>1. CASE Wait
  <2>1. Running = {}
    BY <1>1, RunningFinite, FS_EmptySet DEF Wait, WaitGroupCounts, Running
  <2> QED
    BY <1>1, <2>1 DEF Wait, Running
<1>2. CASE Restart
  BY <1>2 DEF Restart
<1>3. CASE run = "stopped"
  <2>1. \A v \in Workers : step[v] \notin Alive
    BY <1>3 DEF StopInv, Running
  <2>2. \A v \in Workers : ~Work(v)
    BY <2>1 DEF Work, StartJob, Announce, Mount, Ingest, Remount, Erase,
       Complete, Fail, Unmount, SetIdle, FinishWorker, WgDone, Alive, Active
  <2>3. CASE step' = step
    BY <2>1, <2>3
  <2> QED
    BY <1>2, <1>3, <2>2, <2>3 DEF Next, Loop, HandleInserted, StartWorker,
       IgnoreInsert, StopWorker, Signal, Shutdown, Wait, vars
<1>4. run = "stopped" \/ Wait \/ Restart
  BY DEF Next, Loop, HandleInserted, StartWorker, IgnoreInsert, StopWorker,
     Signal, Shutdown, Wait, vars, Work, StartJob, Announce, Mount, Ingest,
     Remount, Erase, Complete, Fail, Unmount, SetIdle, FinishWorker, WgDone
<1> QED
  BY <1>1, <1>2, <1>3, <1>4

FullInv == IInv /\ WaitGroupCounts /\ StopInv

\* The strengthened invariant at the start ...
LEMMA FullInit == Init => FullInv
<1> SUFFICES ASSUME Init PROVE FullInv
  OBVIOUS
<1>1. Running = {}
  BY DEF Init, Running, Alive, Active
<1>2. wg = Cardinality(Running)
  BY <1>1, FS_EmptySet DEF Init
<1> QED
  BY <1>1, <1>2, IInvInit DEF FullInv, WaitGroupCounts, StopInv, Running

\* ... and after every step.
LEMMA FullStep == FullInv /\ [Next]_vars => FullInv'
BY IInvStep, WaitGroupStep, StopStep DEF FullInv

\* Every reachable state is well typed, the wait group included.
THEOREM TypeCorrect == Spec => []TypeOK
<1>1. FullInv => TypeOK
  BY RunningFinite DEF FullInv, IInv, Typed, TypeOK, WaitGroupCounts, Running
<1> QED
  BY <1>1, FullInit, FullStep, PTL DEF Spec

\* The wait group counts the goroutines that are left, always.
THEOREM WaitGroupExact == Spec => []WaitGroupCounts
<1>1. FullInv => WaitGroupCounts
  BY DEF FullInv
<1> QED
  BY <1>1, FullInit, FullStep, PTL DEF Spec

\* When Run has returned, nothing runs, nothing is left mounted that could be
\* unmounted, and no slot is held or shown as ingesting.
THEOREM StopIsClean == Spec => []CleanStop
<1>1. FullInv => CleanStop
  <2> SUFFICES ASSUME FullInv, run = "stopped"
               PROVE  /\ \A w \in Workers :
                            step[w] \notin Alive /\ mount[w] \notin Live
                      /\ \A s \in Slots : workers[s] = None /\ status[s] = None
    BY DEF CleanStop
  <2>1. \A w \in Workers : step[w] \notin Alive
    BY DEF FullInv, StopInv, Running
  <2>2. \A w \in Workers : mount[w] \notin Live
    BY <2>1 DEF FullInv, IInv, WorkerInv, Mounted, Alive, Active
  <2>3. \A s \in Slots : workers[s] = None
    BY <2>1 DEF FullInv, IInv, Typed, OneWorkerPerSlot, Serving, Alive
  <2>4. \A s \in Slots : status[s] = None
    BY <2>1 DEF FullInv, IInv, Typed, StatusInv, Showing, Alive, Active
  <2> QED
    BY <2>1, <2>2, <2>3, <2>4
<1> QED
  BY <1>1, FullInit, FullStep, PTL DEF Spec

-----------------------------------------------------------------------------
(* Jobs end.                                                               *)

\* The order in which a job goes through its steps, some of which it may leave
\* out.
Place == [new |-> 0, start |-> 1, announce |-> 2, mount |-> 3, ingest |-> 4,
          remount |-> 5, erase |-> 6, complete |-> 7, fail |-> 8,
          unmount |-> 9, idle |-> 10, leave |-> 11, done |-> 12, gone |-> 13]

\* A worker's own step leads on, nobody else's takes it back, and neither a
\* removal, a shutdown nor a restart makes it begin again: no job takes more
\* steps than there are places.
THEOREM NoStepBack ==
    Spec => [][\A w \in Workers :
                  /\ step'[w] # step[w] => Place[step[w]] < Place[step'[w]]
                  /\ Work(w) => step'[w] # step[w]]_vars
<1> DEFINE Onward == \A w \in Workers :
               /\ step'[w] # step[w] => Place[step[w]] < Place[step'[w]]
               /\ Work(w) => step'[w] # step[w]
<1>1. IInv /\ [Next]_vars => [Onward]_vars
  <2> SUFFICES ASSUME IInv, Next, NEW w \in Workers
               PROVE  /\ step'[w] # step[w] => Place[step[w]] < Place[step'[w]]
                      /\ Work(w) => step'[w] # step[w]
    OBVIOUS
  <2> USE DEF Place, IInv, Typed, Steps, Alive, Active, Goto
  <2>1. ASSUME NEW v \in Workers, Work(v)
        PROVE  \E next \in Steps : /\ step' = [step EXCEPT ![v] = next]
                                   /\ Place[step[v]] < Place[next]
    <3>1. CASE StartJob(v) \/ Announce(v) \/ Mount(v) \/ Ingest(v)
      BY <3>1 DEF StartJob, Announce, Mount, Ingest
    <3>2. CASE Remount(v) \/ Erase(v) \/ Complete(v) \/ Fail(v)
      BY <3>2 DEF Remount, Erase, Complete, Fail
    <3>3. CASE Unmount(v) \/ SetIdle(v) \/ FinishWorker(v) \/ WgDone(v)
      BY <3>3 DEF Unmount, SetIdle, FinishWorker, WgDone
    <3> QED
      BY <2>1, <3>1, <3>2, <3>3 DEF Work
  <2>2. Work(w) => step'[w] # step[w]
    BY <2>1
  <2>3. ASSUME step'[w] # step[w]
        PROVE  Place[step[w]] < Place[step'[w]]
    <3>1. ASSUME NEW v \in Workers, Work(v)
          PROVE  Place[step[w]] < Place[step'[w]]
      BY <2>1, <2>3, <3>1
    <3>2. ASSUME NEW s \in Slots, StartWorker(s)
          PROVE  Place[step[w]] < Place[step'[w]]
      BY <2>3, <3>2 DEF StartWorker, Free
    <3>3. CASE Restart
      BY <2>3, <3>3 DEF Restart
    <3> QED
      BY <2>3, <3>1, <3>2, <3>3 DEF Next, Loop, HandleInserted, IgnoreInsert,
         StopWorker, Signal, Shutdown, Wait, vars
  <2> QED
    BY <2>2, <2>3
<1> QED
  BY <1>1, IInvInit, IInvStep, PTL DEF Spec

=============================================================================
