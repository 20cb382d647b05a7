---------------------------- MODULE PolicyStore ----------------------------
(***************************************************************************)
(* The policy file: Store of internal/config/file.go, the PutConfig        *)
(* handler of internal/web/web.go, and run of cmd/cardingest/main.go,      *)
(* which reads the policy once.  Requests are goroutines of the server;    *)
(* the lock of the store is held for single assignments only, so that each *)
(* file operation and the assignment of the snapshot are steps.            *)
(***************************************************************************)
EXTENDS FiniteSets

CONSTANTS
    Requests,       \* PUT requests in flight, each used for ever again
    Policies,       \* documents that parse and whose rules compile
    Faulty,         \* documents that parse and whose rules do not compile
    Torn,           \* what a file written in part holds
    None            \* the file is missing; the zero policy

ASSUME Documents ==
    /\ Policies \cap Faulty = {}
    /\ Torn \notin Policies \cup Faulty
    /\ None \notin Policies \cup Faulty

VARIABLES
    disk,           \* the file at CONFIG_PATH
    mem,            \* Store.file
    up,             \* the process runs
    step,           \* where each request is
    doc,            \* the document it was sent with, once parsed
    tmp,            \* its temporary file
    onDisk,         \* every policy the file has ever held (history)
    crossed         \* the last rename came between another one and its
                    \*   assignment of the snapshot (history)

vars == <<disk, mem, up, step, doc, tmp, onDisk, crossed>>

Files == Policies \cup Faulty \cup {Torn, None}

TypeOK ==
    /\ disk \in Files /\ mem \in Files
    /\ up \in BOOLEAN
    /\ step \in [Requests -> {"idle", "save", "write", "rename", "adopt"}]
    /\ doc \in [Requests -> Policies \cup Faulty \cup {None}]
    /\ \A r \in Requests : doc[r] = None <=> step[r] = "idle"
    /\ tmp \in [Requests -> Files]
    /\ onDisk \subseteq Files
    /\ crossed \in BOOLEAN

\* A deployment with a file that is in order, or with none, whose process runs
\* or has still to be started.
Init ==
    /\ disk \in Policies \cup {None}
    /\ mem = disk
    /\ up \in BOOLEAN
    /\ step = [r \in Requests |-> "idle"]
    /\ doc = [r \in Requests |-> None]
    /\ tmp = [r \in Requests |-> None]
    /\ onDisk = {disk}
    /\ crossed = FALSE

-----------------------------------------------------------------------------
(* A PUT request.  What fails is answered with an error; the deferred      *)
(* Remove takes the temporary file away.                                   *)

Goto(r, s) == step' = [step EXCEPT ![r] = s]

GiveUp(r) ==
    /\ Goto(r, "idle")
    /\ tmp' = [tmp EXCEPT ![r] = None]
    /\ doc' = [doc EXCEPT ![r] = None]

Compiles(p) == p \in Policies

\* ParseFile and Compile: a document that fails either is refused and nothing
\* changes.
PutConfig(r) ==
    /\ up /\ step[r] = "idle"
    /\ \E p \in Policies \cup Faulty :
          /\ Compiles(p)
          /\ doc' = [doc EXCEPT ![r] = p]
    /\ Goto(r, "save")
    /\ UNCHANGED <<disk, mem, up, tmp, onDisk, crossed>>

\* Mutant of CreateTemp: the snapshot is replaced before the file is.
CreateTempAdopted(r) ==
    /\ step[r] = "save"
    /\ mem' = doc[r]
    /\ tmp' = [tmp EXCEPT ![r] = Torn]
    /\ Goto(r, "write")
    /\ UNCHANGED <<disk, up, doc, onDisk, crossed>>

\* Save: os.CreateTemp, with a name no other request has.
CreateTemp(r) ==
    /\ step[r] = "save"
    /\ \/ tmp' = [tmp EXCEPT ![r] = Torn] /\ Goto(r, "write") /\ UNCHANGED doc
       \/ GiveUp(r)
    /\ UNCHANGED <<disk, mem, up, onDisk, crossed>>

\* Mutant of WriteTemp: the file itself is written, piece by piece.
WriteInPlace(r) ==
    /\ step[r] = "write"
    /\ \/ disk' = Torn /\ onDisk' = onDisk \cup {Torn}
          /\ tmp' = [tmp EXCEPT ![r] = doc[r]] /\ Goto(r, "rename")
          /\ UNCHANGED doc
       \/ GiveUp(r) /\ UNCHANGED <<disk, onDisk>>
    /\ UNCHANGED <<mem, up, crossed>>

\* Save: Write and Close.
WriteTemp(r) ==
    /\ step[r] = "write"
    /\ \/ /\ tmp' = [tmp EXCEPT ![r] = doc[r]]
          /\ Goto(r, "rename")
          /\ UNCHANGED doc
       \/ GiveUp(r)
    /\ UNCHANGED <<disk, mem, up, onDisk, crossed>>

\* Save: Rename over the file.
Rename(r) ==
    /\ step[r] = "rename"
    /\ \/ /\ disk' = tmp[r]
          /\ onDisk' = onDisk \cup {tmp[r]}
          /\ tmp' = [tmp EXCEPT ![r] = None]
          /\ crossed' = \E q \in Requests \ {r} : step[q] = "adopt"
          /\ Goto(r, "adopt")
          /\ UNCHANGED doc
       \/ GiveUp(r) /\ UNCHANGED <<disk, onDisk, crossed>>
    /\ UNCHANGED <<mem, up>>

\* Mutant of Adopt: the snapshot keeps what Load put there.
AdoptNothing(r) ==
    /\ step[r] = "adopt"
    /\ GiveUp(r)
    /\ UNCHANGED <<disk, mem, up, onDisk, crossed>>

\* Save: the snapshot is replaced under the lock, and the request answered
\* with the snapshot of the moment.
Adopt(r) ==
    /\ step[r] = "adopt"
    /\ mem' = doc[r]
    /\ GiveUp(r)
    /\ UNCHANGED <<disk, up, onDisk, crossed>>

Save(r) == CreateTemp(r) \/ WriteTemp(r) \/ Rename(r) \/ Adopt(r)

-----------------------------------------------------------------------------
(* The process.                                                            *)

\* It stops, by a crash or at the end of run: temporary files stay behind,
\* under names that are never used again.
Stop ==
    /\ up
    /\ up' = FALSE
    /\ step' = [r \in Requests |-> "idle"]
    /\ doc' = [r \in Requests |-> None]
    /\ tmp' = [r \in Requests |-> None]
    /\ UNCHANGED <<disk, mem, onDisk, crossed>>

\* What run makes of the file: Load takes a missing file for the zero policy
\* and fails on one that does not parse; rules that do not compile are fatal.
CanStart == disk = None \/ disk \in Policies

\* NewStore and Get, the one time the policy is read.
Start ==
    /\ ~up
    /\ CanStart
    /\ up' = TRUE
    /\ mem' = disk
    /\ crossed' = FALSE
    /\ UNCHANGED <<disk, step, doc, tmp, onDisk>>

Next == Stop \/ Start \/ \E r \in Requests : PutConfig(r) \/ Save(r)

Spec == Init /\ [][Next]_vars

-----------------------------------------------------------------------------
(* Properties.                                                             *)

\* Wherever the process stops, it comes up again: the file is always whole
\* and its rules compile, because what is renamed has been checked, written
\* and closed.
BootsAgain == CanStart

\* A save that failed leaves no trace: the snapshot never holds a policy that
\* has not made it to the file.
NeverAheadOfDisk == mem \in onDisk

Quiet == up /\ \A r \in Requests : step[r] = "idle"

\* What Store promises ("loads, holds, and persists ...  It is safe for
\* concurrent use"): with no save under way, what it holds is what it
\* persists.  It takes two saves that cross to break this, one renaming after
\* the other has and before the other assigns.
HoldsWhatItPersists == Quiet /\ ~crossed => mem = disk

=============================================================================
