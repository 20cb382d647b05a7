--------------------------- MODULE ProcessProofs ----------------------------
(***************************************************************************)
(* Proofs about PolicyStore, for any number of requests and any documents, *)
(* and about Process, for any number of jobs, requests and browsers.  That *)
(* the process handles the policy as PolicyStore says carries the theorems *)
(* of the store over to it.                                                *)
(***************************************************************************)
EXTENDS Process, Naturals, TLAPS

-----------------------------------------------------------------------------
(* The policy store.                                                       *)

\* What a request at a given step may rely on: only documents that compile
\* get past the handler, what is about to be renamed is such a document in
\* full, and what is about to be adopted has been on disk.
RequestInv ==
    /\ \A r \in Requests :
        /\ doc[r] \in Policies \cup {None}
        /\ step[r] = "rename" => tmp[r] = doc[r]
        /\ step[r] = "adopt" => doc[r] \in onDisk
    /\ disk \in onDisk

\* A process that is down has no requests, and after a rename that crossed no
\* other the one request still to adopt has the document that is on disk.
CrossInv ==
    /\ ~up => \A r \in Requests : step[r] = "idle"
    /\ ~crossed => \A r \in Requests : step[r] = "adopt" =>
          /\ doc[r] = disk
          /\ \A q \in Requests : step[q] = "adopt" => q = r
    /\ up /\ ~crossed /\ (\A r \in Requests : step[r] # "adopt") => mem = disk

IInv ==
    /\ TypeOK
    /\ RequestInv
    /\ BootsAgain
    /\ NeverAheadOfDisk
    /\ CrossInv

\* It holds when the appliance is started for the first time.
LEMMA IInvInit == Init => IInv
BY Documents DEF Init, IInv, TypeOK, Files, RequestInv, BootsAgain, CanStart,
   NeverAheadOfDisk, CrossInv

\* Every file operation of every request keeps it, and so does the end of the
\* process at any point between two of them.
LEMMA IInvStep == IInv /\ [Next]_vars => IInv'
<1> SUFFICES ASSUME IInv, [Next]_vars PROVE IInv'
  OBVIOUS
<1> USE Documents DEF IInv, TypeOK, Files, RequestInv, BootsAgain, CanStart,
        NeverAheadOfDisk, CrossInv, Goto
<1>1. CASE UNCHANGED vars
  BY <1>1 DEF vars
<1>2. CASE Stop
  BY <1>2 DEF Stop
<1>3. CASE Start
  BY <1>3 DEF Start
<1>4. ASSUME NEW r \in Requests, PutConfig(r) PROVE IInv'
  BY <1>4 DEF PutConfig, Compiles
<1>5. ASSUME NEW r \in Requests, Save(r) PROVE IInv'
  <2>1. CASE CreateTemp(r)
    BY <2>1 DEF CreateTemp, GiveUp
  <2>2. CASE WriteTemp(r)
    BY <2>2 DEF WriteTemp, GiveUp
  <2>3. CASE Rename(r)
    <3>1. CASE GiveUp(r) /\ UNCHANGED <<disk, onDisk, crossed>>
      BY <2>3, <3>1 DEF Rename, GiveUp
    <3>2. CASE /\ disk' = tmp[r]
               /\ onDisk' = onDisk \cup {tmp[r]}
               /\ tmp' = [tmp EXCEPT ![r] = None]
               /\ crossed' = \E q \in Requests \ {r} : step[q] = "adopt"
               /\ Goto(r, "adopt")
               /\ UNCHANGED doc
      <4>1. /\ tmp[r] \in Policies /\ tmp[r] = doc[r]
            /\ up /\ UNCHANGED <<mem, up>>
        BY <2>3 DEF Rename
      <4>2. TypeOK' /\ BootsAgain' /\ NeverAheadOfDisk'
        BY <3>2, <4>1
      <4>3. RequestInv'
        BY <3>2, <4>1
      <4>4. ASSUME NEW q \in Requests, ~crossed', step'[q] = "adopt" PROVE q = r
        BY <3>2, <4>4
      <4>5. CrossInv'
        BY <3>2, <4>1, <4>4
      <4> QED
        BY <4>2, <4>3, <4>5
    <3> QED
      BY <2>3, <3>1, <3>2 DEF Rename
  <2>4. CASE Adopt(r)
    BY <2>4 DEF Adopt, GiveUp
  <2> QED
    BY <1>5, <2>1, <2>2, <2>3, <2>4 DEF Save
<1> QED
  BY <1>1, <1>2, <1>3, <1>4, <1>5 DEF Next

\* Every reachable state of the policy store is well typed.
THEOREM TypeCorrect == Spec => []TypeOK
<1>1. IInv => TypeOK
  BY DEF IInv
<1> QED
  BY <1>1, IInvInit, IInvStep, PTL DEF Spec

\* However many saves are under way and wherever the process stops, the file
\* is one it can start with.
THEOREM AlwaysBoots == Spec => []BootsAgain
<1>1. IInv => BootsAgain
  BY DEF IInv
<1> QED
  BY <1>1, IInvInit, IInvStep, PTL DEF Spec

\* A save that failed at any of its steps has not changed the snapshot.
THEOREM FailedSaveLeavesNoTrace == Spec => []NeverAheadOfDisk
<1>1. IInv => NeverAheadOfDisk
  BY DEF IInv
<1> QED
  BY <1>1, IInvInit, IInvStep, PTL DEF Spec

\* With no save under way the snapshot is the file, unless the last rename
\* crossed another save: crossing is the only way the two come apart.
THEOREM OnlyCrossingDiverges == Spec => []HoldsWhatItPersists
<1>1. IInv => HoldsWhatItPersists
  BY DEF IInv, CrossInv, HoldsWhatItPersists, Quiet
<1> QED
  BY <1>1, IInvInit, IInvStep, PTL DEF Spec

-----------------------------------------------------------------------------
(* The process.                                                            *)

\* The deferred calls of run at each stage of the start, and the order in
\* which the return takes them.
D1 == <<"telemetry">>
D2 == <<"detector", "telemetry">>
D3 == <<"store", "detector", "telemetry">>
D4 == <<"server", "store", "detector", "telemetry">>

DefersInv ==
    /\ phase \in {"exited", "environment", "telemetry"} =>
          defers = <<>> /\ open = {}
    /\ phase \in {"policy", "detector"} => defers = D1
    /\ phase \in {"mounter", "store"} => defers = D2
    /\ phase \in {"rules", "serve"} => defers = D3
    /\ phase \in {"loop", "drain"} => defers = D4
    /\ defers \in {<<>>, D1, D2, D3, D4}
    /\ "detector" \in open <=> defers \in {D2, D3, D4}
    /\ "store" \in open <=> defers \in {D3, D4}

\* Jobs run while main is in the loop or waits for them; requests are served
\* from the loop until the shutdown of the server is over, and only a shutdown
\* that gave up leaves any behind.
UsersInv ==
    /\ busy # {} => phase \in {"loop", "drain"}
    /\ server = "listening" => defers = D4
    /\ server = "draining" => defers = D4
    /\ phase \notin {"loop", "drain", "return"} =>
          /\ server = "none"
          /\ \A q \in Reads : call[q] = "idle"
    /\ server \notin {"listening", "draining"} /\ ~gaveUp =>
          \A q \in Reads : call[q] = "idle"
    /\ refused => gaveUp

\* The snapshot is not there before the policy has been loaded.
UpInv == phase \in {"exited", "environment", "telemetry", "policy"} => ~up

ProcessInv == ProcessTypeOK /\ DefersInv /\ UsersInv

-----------------------------------------------------------------------------
(* The policy.                                                             *)

LEMMA UpInit == ProcessInit => UpInv
BY DEF ProcessInit, UpInv

LEMMA UpStep == UpInv /\ [ProcessNext]_allVars => UpInv'
<1> SUFFICES ASSUME UpInv, [ProcessNext]_allVars PROVE UpInv'
  OBVIOUS
<1> USE DEF UpInv, Goes, Fails, Opens
<1>1. CASE UNCHANGED allVars
  BY <1>1 DEF allVars, policyVars, processVars
<1>2. CASE Launch \/ Signal
  BY <1>2 DEF Launch, Signal, policyVars
<1>3. CASE Boot
  BY <1>3 DEF Boot, ReadEnvironment, InitTelemetry, LoadPolicy, NewDetector,
     NewMounter, OpenStore, CompileRules, Serve, policyVars
<1>4. CASE Drain \/ RunReturns \/ Close
  BY <1>4 DEF Drain, RunReturns, Close, StopListening, HandlersDone, TimeOut,
     CloseStore, CloseDetector, ShutdownTelemetry, Defers, policyVars
<1>5. CASE Exit \/ Crash
  BY <1>5 DEF Exit, Crash, Ends, Stop, policyVars
<1>6. CASE Handlers
  <2>1. ASSUME NEW r \in Requests, Put(r) \/ SaveStep(r) PROVE UpInv'
    BY <2>1 DEF Put, PutConfig, SaveStep, Save, CreateTemp, WriteTemp, Rename,
       Adopt, processVars
  <2>2. ASSUME NEW q \in Reads, Enter(q) \/ Query(q) \/ Fetch(q) \/ Answer(q)
        PROVE  UpInv'
    BY <2>2 DEF Enter, Query, Fetch, Answer, policyVars
  <2>3. ASSUME NEW b \in Streams, Connect(b) \/ Disconnect(b) PROVE UpInv'
    BY <2>3 DEF Connect, Disconnect, policyVars
  <2> QED
    BY <1>6, <2>1, <2>2, <2>3 DEF Handlers
<1>7. ASSUME NEW j \in Jobs, StartJob(j) \/ EndJob(j) PROVE UpInv'
  BY <1>7 DEF StartJob, EndJob, policyVars
<1> QED
  BY <1>1, <1>2, <1>3, <1>4, <1>5, <1>6, <1>7 DEF ProcessNext, Main

\* Every step of the process is a step of the policy store, or none: the
\* policy is loaded by one that is not up yet, from a file it can start with.
LEMMA StoreStep ==
    UpInv /\ BootsAgain /\ [ProcessNext]_allVars => [Next]_vars
<1> SUFFICES ASSUME UpInv, BootsAgain, [ProcessNext]_allVars
             PROVE  [Next]_vars
  OBVIOUS
<1>1. CASE UNCHANGED policyVars
  BY <1>1 DEF policyVars, vars
<1>2. CASE Exit \/ Crash
  BY <1>2 DEF Exit, Crash, Ends, Next, policyVars, vars
<1>3. CASE LoadPolicy
  <2>1. CASE Goes("policy", "detector") /\ up' = TRUE /\ mem' = disk
    BY <1>3, <2>1 DEF LoadPolicy, Goes, Fails, UpInv, BootsAgain, Start, Next,
       policyVars
  <2>2. CASE UNCHANGED policyVars
    BY <2>2, <1>1
  <2> QED
    BY <1>3, <2>1, <2>2 DEF LoadPolicy
<1>4. ASSUME NEW r \in Requests, Put(r) \/ SaveStep(r) PROVE Next
  BY <1>4 DEF Put, SaveStep, Next
<1>5. CASE Launch \/ Signal \/ Drain \/ RunReturns \/ Close
           \/ (Boot /\ ~LoadPolicy)
  BY <1>5, <1>1 DEF Launch, Signal, Drain, RunReturns, Close, StopListening,
     HandlersDone, TimeOut, CloseStore, CloseDetector, ShutdownTelemetry, Boot,
     ReadEnvironment,
     InitTelemetry, NewDetector, NewMounter, OpenStore, CompileRules, Serve
<1>6. ASSUME NEW q \in Reads, Enter(q) \/ Query(q) \/ Fetch(q) \/ Answer(q)
      PROVE  UNCHANGED policyVars
  BY <1>6 DEF Enter, Query, Fetch, Answer
<1>7. ASSUME NEW b \in Streams, Connect(b) \/ Disconnect(b)
      PROVE  UNCHANGED policyVars
  BY <1>7 DEF Connect, Disconnect
<1>8. ASSUME NEW j \in Jobs, StartJob(j) \/ EndJob(j)
      PROVE  UNCHANGED policyVars
  BY <1>8 DEF StartJob, EndJob
<1> QED
  BY <1>1, <1>2, <1>3, <1>4, <1>5, <1>6, <1>7, <1>8
     DEF ProcessNext, Main, Handlers, allVars

\* The process treats the policy as PolicyStore says.
THEOREM PolicyIsKept == ProcessSpec => KeepsPolicy
<1>1. ProcessInit => Init
  BY DEF ProcessInit
<1>2. IInv => BootsAgain
  BY DEF IInv
<1> QED
  BY <1>1, <1>2, IInvInit, IInvStep, UpInit, UpStep, StoreStep, PTL
     DEF ProcessSpec, KeepsPolicy, Spec

\* However the process ends, it comes up again with the file it left, and no
\* snapshot is ahead of the file.
COROLLARY ProcessBoots == ProcessSpec => []BootsAgain
BY PolicyIsKept, AlwaysBoots, PTL DEF KeepsPolicy

-----------------------------------------------------------------------------
(* What is opened, and who uses it.                                        *)

\* What the chain of deferred calls is made of.
LEMMA Chain ==
    /\ D1 = <<"telemetry">> \o <<>> /\ D2 = <<"detector">> \o D1
    /\ D3 = <<"store">> \o D2 /\ D4 = <<"server">> \o D3
    /\ D1 # <<>> /\ D2 # <<>> /\ D3 # <<>> /\ D4 # <<>>
    /\ D1 # D2 /\ D1 # D3 /\ D1 # D4 /\ D2 # D3 /\ D2 # D4 /\ D3 # D4
    /\ Tail(D1) = <<>> /\ Tail(D2) = D1 /\ Tail(D3) = D2 /\ Tail(D4) = D3
    /\ Head(D1) = "telemetry" /\ Head(D2) = "detector"
    /\ Head(D3) = "store" /\ Head(D4) = "server"
    /\ {<<>>, D1, D2, D3, D4} \subseteq Seq(Components \cup {"server"})
<1>1. /\ Len(D1) = 1 /\ Len(D2) = 2 /\ Len(D3) = 3 /\ Len(D4) = 4
      /\ Len(<<>>) = 0
  BY DEF D1, D2, D3, D4
<1>2. D1 = <<"telemetry">> \o <<>> /\ D2 = <<"detector">> \o D1
  BY DEF D1, D2
<1>3. D3 = <<"store">> \o D2 /\ D4 = <<"server">> \o D3
  BY DEF D2, D3, D4
<1>4. Tail(D1) = <<>> /\ Tail(D2) = D1 /\ Tail(D3) = D2 /\ Tail(D4) = D3
  BY DEF D1, D2, D3, D4
<1>5. /\ Head(D1) = "telemetry" /\ Head(D2) = "detector"
      /\ Head(D3) = "store" /\ Head(D4) = "server"
  BY DEF D1, D2, D3, D4
<1>6. {<<>>, D1, D2, D3, D4} \subseteq Seq(Components \cup {"server"})
  BY DEF D1, D2, D3, D4, Components
<1> QED
  BY <1>1, <1>2, <1>3, <1>4, <1>5, <1>6

LEMMA ProcessInvInit == ProcessInit => ProcessInv
BY Chain DEF ProcessInit, ProcessInv, ProcessTypeOK, Components, DefersInv,
   UsersInv

\* The start: each step opens one component and defers closing it.
LEMMA BootKeeps == ProcessInv /\ Boot => ProcessInv'
<1> SUFFICES ASSUME ProcessInv, Boot PROVE ProcessInv'
  OBVIOUS
<1> USE DEF ProcessInv, ProcessTypeOK, DefersInv, UsersInv, Booting, Goes,
        Fails, Opens, serving
<1>1. CASE ReadEnvironment
  BY <1>1 DEF ReadEnvironment
<1>2. CASE InitTelemetry
  <2>1. defers = <<>> /\ open = {} /\ server = "none"
    BY <1>2 DEF InitTelemetry
  <2>2. open' \subseteq {"telemetry"}
    BY <1>2, <2>1 DEF InitTelemetry
  <2>3. \/ phase' = "policy" /\ defers' = D1
        \/ phase' = "return" /\ defers' = <<>>
    <3> HIDE DEF ProcessInv
    <3> QED
      BY <1>2, <2>1, Chain DEF InitTelemetry
  <2>4. ProcessTypeOK'
    BY <1>2, <2>2, <2>3, Chain DEF InitTelemetry, Components
  <2>5. DefersInv'
    BY <2>2, <2>3, Chain
  <2>6. UsersInv'
    BY <1>2, <2>1, <2>3 DEF InitTelemetry
  <2> QED
    BY <2>4, <2>5, <2>6
<1>3. CASE LoadPolicy
  BY <1>3 DEF LoadPolicy
<1>4. CASE NewDetector
  <2>1. defers = D1
    BY <1>4 DEF NewDetector
  <2>2. \/ phase' = "mounter" /\ defers' = D2 /\ open' = open \cup {"detector"}
        \/ phase' = "return" /\ defers' = D1 /\ open' = open
    BY <1>4, <2>1, Chain DEF NewDetector
  <2>3. ProcessTypeOK'
    BY <1>4, <2>2, Chain DEF NewDetector, Components
  <2>4. DefersInv'
    BY <2>1, <2>2, Chain
  <2>5. UsersInv'
    BY <1>4, <2>2 DEF NewDetector
  <2> QED
    BY <2>3, <2>4, <2>5
<1>5. CASE NewMounter
  BY <1>5 DEF NewMounter
<1>6. CASE OpenStore
  <2>1. defers = D2
    BY <1>6 DEF OpenStore
  <2>2. \/ phase' = "rules" /\ defers' = D3 /\ open' = open \cup {"store"}
        \/ phase' = "return" /\ defers' = D2 /\ open' = open
    BY <1>6, <2>1, Chain DEF OpenStore
  <2>3. ProcessTypeOK'
    BY <1>6, <2>2, Chain DEF OpenStore, Components
  <2>4. DefersInv'
    BY <2>1, <2>2, Chain
  <2>5. UsersInv'
    BY <1>6, <2>2 DEF OpenStore
  <2> QED
    BY <2>3, <2>4, <2>5
<1>7. CASE CompileRules
  BY <1>7 DEF CompileRules
<1>8. CASE Serve
  <2>1. defers = D3
    BY <1>8 DEF Serve
  <2>2. phase' = "loop" /\ defers' = D4 /\ open' = open
    BY <1>8, <2>1, Chain DEF Serve
  <2>3. ProcessTypeOK'
    BY <1>8, <2>2, Chain DEF Serve
  <2>4. DefersInv'
    BY <2>1, <2>2, Chain
  <2>5. UsersInv'
    BY <1>8, <2>2, Chain DEF Serve
  <2> QED
    BY <2>3, <2>4, <2>5
<1> QED
  BY <1>1, <1>2, <1>3, <1>4, <1>5, <1>6, <1>7, <1>8 DEF Boot

\* The return: the server goes first, and with it the handlers unless it gives
\* up on them; what is closed next is the last that was opened.
LEMMA CloseKeeps == ProcessInv /\ Close => ProcessInv'
<1> SUFFICES ASSUME ProcessInv, Close PROVE ProcessInv'
  OBVIOUS
<1> USE DEF ProcessInv, ProcessTypeOK, DefersInv, UsersInv, Booting, Defers,
        serving
<1>1. CASE StopListening
  <2>1. defers = D4
    BY <1>1, Chain DEF StopListening
  <2> QED
    BY <1>1, <2>1 DEF StopListening
<1>2. CASE HandlersDone
  <2>1. defers = D4 /\ defers' = D3 /\ phase' = "return" /\ open' = open
    BY <1>2, Chain DEF HandlersDone
  <2>2. ProcessTypeOK'
    BY <1>2, <2>1, Chain DEF HandlersDone
  <2>3. DefersInv'
    BY <2>1, Chain
  <2>4. UsersInv'
    BY <1>2, <2>1 DEF HandlersDone, HandlersIdle
  <2> QED
    BY <2>2, <2>3, <2>4
<1>3. CASE TimeOut
  <2>1. defers = D4 /\ defers' = D3 /\ phase' = "return" /\ open' = open
    BY <1>3, Chain DEF TimeOut
  <2>2. ProcessTypeOK'
    BY <1>3, <2>1, Chain DEF TimeOut
  <2>3. DefersInv'
    BY <2>1, Chain
  <2>4. UsersInv'
    BY <1>3, <2>1 DEF TimeOut
  <2> QED
    BY <2>2, <2>3, <2>4
<1>4. CASE CloseStore
  <2>1. /\ defers = D3 /\ defers' = D2
        /\ phase' = "return" /\ open' = open \ {"store"}
    BY <1>4, Chain DEF CloseStore
  <2>2. ProcessTypeOK'
    BY <1>4, <2>1, Chain DEF CloseStore
  <2>3. DefersInv'
    BY <2>1, Chain
  <2>4. UsersInv'
    BY <1>4, <2>1, Chain DEF CloseStore
  <2> QED
    BY <2>2, <2>3, <2>4
<1>5. CASE CloseDetector
  <2>1. /\ defers = D2 /\ defers' = D1
        /\ phase' = "return" /\ open' = open \ {"detector"}
    BY <1>5, Chain DEF CloseDetector
  <2>2. ProcessTypeOK'
    BY <1>5, <2>1, Chain DEF CloseDetector
  <2>3. DefersInv'
    BY <2>1, Chain
  <2>4. UsersInv'
    BY <1>5, <2>1, Chain DEF CloseDetector
  <2> QED
    BY <2>2, <2>3, <2>4
<1>6. CASE ShutdownTelemetry
  <2>1. /\ defers = D1 /\ defers' = <<>>
        /\ phase' = "return" /\ open' \in {open \ {"telemetry"}, open}
    BY <1>6, Chain DEF ShutdownTelemetry
  <2>2. ProcessTypeOK'
    BY <1>6, <2>1, Chain DEF ShutdownTelemetry
  <2>3. DefersInv'
    BY <2>1, Chain
  <2>4. UsersInv'
    BY <1>6, <2>1, Chain DEF ShutdownTelemetry
  <2> QED
    BY <2>2, <2>3, <2>4
<1> QED
  BY <1>1, <1>2, <1>3, <1>4, <1>5, <1>6 DEF Close

\* A handler enters while the server listens, when the store is open.
LEMMA HandlersKeep == ProcessInv /\ Handlers => ProcessInv'
<1> SUFFICES ASSUME ProcessInv, Handlers PROVE ProcessInv'
  OBVIOUS
<1> USE DEF ProcessInv, ProcessTypeOK, DefersInv, UsersInv, Booting
<1>1. ASSUME NEW r \in Requests, Put(r) \/ SaveStep(r) PROVE ProcessInv'
  BY <1>1 DEF Put, SaveStep, processVars
<1>2. ASSUME NEW q \in Reads, Enter(q) PROVE ProcessInv'
  BY <1>2 DEF Enter
<1>3. ASSUME NEW q \in Reads, Query(q) PROVE ProcessInv'
  <2>1. refused' => gaveUp
    BY <1>3, Chain DEF Query
  <2>2. DefersInv'
    BY <1>3 DEF Query
  <2>3. refused' \in BOOLEAN /\ call' \in [Reads ->
                        {"idle", "entered", "querying", "answering"}]
    BY <1>3 DEF Query
  <2>4. ProcessTypeOK'
    BY <1>3, <2>3 DEF Query
  <2>5. UsersInv'
    BY <1>3, <2>1 DEF Query
  <2> QED
    BY <2>2, <2>4, <2>5
<1>4. ASSUME NEW q \in Reads, Fetch(q) \/ Answer(q) PROVE ProcessInv'
  BY <1>4 DEF Fetch, Answer
<1>5. ASSUME NEW b \in Streams, Connect(b) \/ Disconnect(b) PROVE ProcessInv'
  BY <1>5 DEF Connect, Disconnect
<1> QED
  BY <1>1, <1>2, <1>3, <1>4, <1>5 DEF Handlers

LEMMA ProcessInvStep == ProcessInv /\ [ProcessNext]_allVars => ProcessInv'
<1> SUFFICES ASSUME ProcessInv, [ProcessNext]_allVars PROVE ProcessInv'
  OBVIOUS
<1> USE DEF ProcessInv, ProcessTypeOK, DefersInv, UsersInv, Booting, Goes,
        serving
<1>1. CASE UNCHANGED allVars
  BY <1>1 DEF allVars, processVars
<1>2. CASE Launch
  BY <1>2 DEF Launch
<1>3. CASE Signal
  BY <1>3 DEF Signal
<1>4. CASE Drain \/ RunReturns
  BY <1>4 DEF Drain, RunReturns
<1>5. CASE Exit \/ Crash
  <2>1. Ends
    BY <1>5 DEF Exit, Crash
  <2>2. ProcessTypeOK'
    BY <2>1, Chain DEF Ends
  <2>3. DefersInv' /\ UsersInv'
    BY <2>1, Chain DEF Ends
  <2> QED
    BY <2>2, <2>3
<1>6. ASSUME NEW j \in Jobs, StartJob(j) \/ EndJob(j) PROVE ProcessInv'
  BY <1>6 DEF StartJob, EndJob
<1> QED
  BY <1>1, <1>2, <1>3, <1>4, <1>5, <1>6, BootKeeps, CloseKeeps, HandlersKeep
     DEF ProcessNext, Main

\* Every reachable state of the process is well typed.
THEOREM ProcessTypeCorrect == ProcessSpec => []ProcessTypeOK
<1>1. ProcessInv => ProcessTypeOK
  BY DEF ProcessInv
<1> QED
  BY <1>1, ProcessInvInit, ProcessInvStep, PTL DEF ProcessSpec

\* No job runs without the database, and a handler meets it closed only after
\* a shutdown that gave up on the handlers.
THEOREM StoreIsThere == ProcessSpec => []StoreOutlivesItsUsers
<1>1. ProcessInv => StoreOutlivesItsUsers
  BY Chain DEF ProcessInv, DefersInv, UsersInv, StoreOutlivesItsUsers
<1> QED
  BY <1>1, ProcessInvInit, ProcessInvStep, PTL DEF ProcessSpec

\* When run has returned, all that is left open is what initTelemetry may have
\* left behind, however far the start came.
THEOREM NothingLeftOpen == ProcessSpec => []ReleasesAll
<1>1. ProcessInv => ReleasesAll
  BY Chain DEF ProcessInv, ProcessTypeOK, DefersInv, ReleasesAll, Components
<1> QED
  BY <1>1, ProcessInvInit, ProcessInvStep, PTL DEF ProcessSpec

-----------------------------------------------------------------------------
(* The way out.                                                            *)

\* How far main is from the exit of the process, if everything goes well.
Ahead == [environment |-> 16, telemetry |-> 15, policy |-> 14, detector |-> 13,
          mounter |-> 12, store |-> 11, rules |-> 10, serve |-> 9, loop |-> 8,
          drain |-> 7, return |-> 1, exited |-> 0]

Listens == IF server \in {"listening", "failed"} THEN 1 ELSE 0

ToGo == IF phase = "return" THEN Ahead[phase] + Len(defers) + Listens
        ELSE Ahead[phase]

LEMMA Lengths ==
    /\ Len(<<>>) = 0
    /\ Len(D1) = 1 /\ Len(D2) = 2 /\ Len(D3) = 3 /\ Len(D4) = 4
BY DEF D1, D2, D3, D4

\* The return is never further away than from the loop.
LEMMA ReturnIsNear ==
    ProcessInv => /\ Len(defers) \in 0 .. 4
                  /\ ToGo \in 0 .. 16
                  /\ phase = "return" => ToGo \in 1 .. 6
<1> SUFFICES ASSUME ProcessInv
             PROVE  /\ Len(defers) \in 0 .. 4
                    /\ ToGo \in 0 .. 16
                    /\ phase = "return" => ToGo \in 1 .. 6
  OBVIOUS
<1>1. Len(defers) \in 0 .. 4
  BY Lengths DEF ProcessInv, DefersInv
<1>2. Listens \in 0 .. 1
  BY DEF Listens
<1>3. phase = "return" => ToGo \in 1 .. 6
  <2>1. Ahead["return"] = 1
    BY DEF Ahead
  <2>2. phase = "return" => ToGo = 1 + Len(defers) + Listens
    BY <2>1 DEF ToGo
  <2>3. \A n \in 0 .. 4, l \in 0 .. 1 : 1 + n + l \in 1 .. 6
    OBVIOUS
  <2> QED
    BY <1>1, <1>2, <2>2, <2>3
<1>4. phase # "return" => ToGo \in 0 .. 16
  BY DEF ToGo, Ahead, ProcessInv, ProcessTypeOK, Booting
<1> QED
  BY <1>1, <1>3, <1>4

LEMMA StillNear ==
    ProcessInv /\ [ProcessNext]_allVars =>
        /\ ToGo' \in 0 .. 16
        /\ phase' = "return" => ToGo' \in 1 .. 6
<1>1. ProcessInv' => (/\ ToGo \in 0 .. 16
                      /\ phase = "return" => ToGo \in 1 .. 6)'
  BY ReturnIsNear, PTL
<1> QED
  BY <1>1, ProcessInvStep

LEMMA BootMovesOn == ProcessInv /\ Boot => ToGo' < ToGo
<1> SUFFICES ASSUME ProcessInv, Boot PROVE ToGo' < ToGo
  OBVIOUS
<1>1. phase' = "return" => ToGo' \in 1 .. 6
  BY StillNear DEF ProcessNext, Main
<1>2. \/ phase = "environment" /\ phase' \in {"telemetry", "exited"}
      \/ phase = "telemetry" /\ phase' \in {"policy", "return"}
      \/ phase = "policy" /\ phase' \in {"detector", "return"}
      \/ phase = "detector" /\ phase' \in {"mounter", "return"}
      \/ phase = "mounter" /\ phase' \in {"store", "return"}
      \/ phase = "store" /\ phase' \in {"rules", "return"}
      \/ phase = "rules" /\ phase' \in {"serve", "return"}
      \/ phase = "serve" /\ phase' = "loop"
  BY DEF Boot, Goes, Fails, ReadEnvironment, InitTelemetry, LoadPolicy,
     NewDetector, NewMounter, OpenStore, CompileRules, Serve
<1>3. CASE phase' = "return"
  <2>1. ToGo \in 9 .. 16
    BY <1>2, <1>3 DEF ToGo, Ahead, Listens
  <2> QED
    BY <1>1, <1>3, <2>1
<1>4. CASE phase' # "return"
  BY <1>2, <1>4 DEF ToGo, Ahead, Listens
<1> QED
  BY <1>3, <1>4

LEMMA CloseMovesOn == ProcessInv /\ Close => ToGo' < ToGo
<1> SUFFICES ASSUME ProcessInv, Close PROVE ToGo' < ToGo
  OBVIOUS
<1>1. phase = "return" /\ phase' = "return"
  BY DEF Close, Defers, StopListening, HandlersDone, TimeOut, CloseStore,
     CloseDetector, ShutdownTelemetry
<1>2. \/ /\ defers' = defers
         /\ server \in {"listening", "failed"} /\ server' = "draining"
      \/ /\ defers # <<>> /\ defers' = Tail(defers)
         /\ server' = server \/ server' = "closed"
  BY DEF Close, Defers, StopListening, HandlersDone, TimeOut, CloseStore,
     CloseDetector, ShutdownTelemetry
<1>3. defers # <<>> => Len(Tail(defers)) = Len(defers) - 1
  BY Chain, Lengths DEF ProcessInv, DefersInv
<1>4. Len(defers) \in Nat
  BY ReturnIsNear
<1> QED
  BY <1>1, <1>2, <1>3, <1>4 DEF ToGo, Ahead, Listens

\* What SignalEnds rests on: whatever fails and whoever still runs, every step
\* of main brings the process closer to its exit, none of its own steps and no
\* job, handler or signal takes it further away, and only a new process starts
\* over.  That main always has a next step is left to TLC.
THEOREM MainMovesOn ==
    ProcessSpec => [][/\ Main => ToGo' < ToGo
                      /\ ToGo' > ToGo => Launch]_allVars
<1> DEFINE MovesOn == /\ Main => ToGo' < ToGo
                      /\ ToGo' > ToGo => Launch
<1>1. ASSUME ProcessInv, Main PROVE ToGo' < ToGo
  <2>1. CASE Drain \/ RunReturns
    <3>1. \/ phase = "loop" /\ phase' = "drain"
          \/ phase = "drain" /\ phase' = "return"
      BY <2>1 DEF Drain, RunReturns, Goes
    <3>2. phase' = "return" => ToGo' \in 1 .. 6
      BY <1>1, <2>1, StillNear DEF ProcessNext
    <3> QED
      BY <3>1, <3>2 DEF ToGo, Ahead, Listens
  <2>2. CASE Exit
    <3>1. ToGo' = 0
      BY <2>2 DEF Exit, Ends, ToGo, Ahead
    <3> QED
      BY <1>1, <2>2, <3>1, ReturnIsNear DEF Exit
  <2> QED
    BY <1>1, <2>1, <2>2, BootMovesOn, CloseMovesOn DEF Main
<1>2. ASSUME ProcessInv, ProcessNext, ~Launch
      PROVE  ToGo' <= ToGo
  <2>0. ToGo \in 0 .. 16 /\ ToGo' \in 0 .. 16
    BY <1>2, ReturnIsNear, StillNear
  <2>1. CASE Main
    BY <1>1, <1>2, <2>0, <2>1
  <2>2. CASE Crash
    <3>1. ToGo' = 0
      BY <2>2 DEF Crash, Ends, ToGo, Ahead
    <3> QED
      BY <2>0, <3>1
  <2>3. CASE UNCHANGED <<phase, defers, server>>
    BY <2>0, <2>3 DEF ToGo, Listens
  <2>4. ASSUME NEW r \in Requests, Put(r) \/ SaveStep(r)
        PROVE  UNCHANGED <<phase, defers, server>>
    BY <2>4 DEF Put, SaveStep, processVars
  <2>5. ASSUME NEW q \in Reads, Enter(q) \/ Query(q) \/ Fetch(q) \/ Answer(q)
        PROVE  UNCHANGED <<phase, defers, server>>
    BY <2>5 DEF Enter, Query, Fetch, Answer
  <2>6. ASSUME NEW b \in Streams, Connect(b) \/ Disconnect(b)
        PROVE  UNCHANGED <<phase, defers, server>>
    BY <2>6 DEF Connect, Disconnect
  <2>7. ASSUME NEW j \in Jobs, StartJob(j) \/ EndJob(j)
        PROVE  UNCHANGED <<phase, defers, server>>
    BY <2>7 DEF StartJob, EndJob
  <2>8. CASE Signal
    BY <2>3, <2>8 DEF Signal
  <2> QED
    BY <1>2, <2>1, <2>2, <2>3, <2>4, <2>5, <2>6, <2>7, <2>8
       DEF ProcessNext, Handlers
<1>3. ASSUME ProcessInv, ProcessNext PROVE MovesOn
  <2>1. ToGo \in 0 .. 16 /\ ToGo' \in 0 .. 16
    BY <1>3, ReturnIsNear, StillNear
  <2> QED
    BY <1>1, <1>2, <1>3, <2>1
<1> QED
  BY <1>3, ProcessInvInit, ProcessInvStep, PTL DEF ProcessSpec

=============================================================================
