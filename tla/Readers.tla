------------------------------ MODULE Readers -------------------------------
(***************************************************************************)
(* The two readers New of internal/detect/detect.go chooses between, behind *)
(* the one channel the orchestrator listens to: the poll detector of       *)
(* Detector.tla and the simulated one of MockReader.tla.  The reader that  *)
(* was not chosen does not exist and never moves.                          *)
(***************************************************************************)
EXTENDS Detector, Sequences

CONSTANTS
    Directories,    \* on the host, that the simulated reader takes for cards
    Calls, Buffer   \* as in MockReader

VARIABLES
    mock,           \* Config.Mock
    simulated,      \* MockDetector.present
    heard,          \* what the orchestrator was told by the simulated reader
    sending, buffer, relay, watching, latest, overtaken   \* as in MockReader

Sim == INSTANCE MockReader WITH
          Cards <- Directories, present <- simulated, told <- heard

ASSUME BufferPositive == Buffer \in Nat \ {0}
ASSUME NoneIsNoEvent == None \notin Sim!Event
ASSUME NoneIsNoCall == None \notin Calls

simVars == <<simulated, heard, sending, buffer, relay, watching, latest,
             overtaken>>
readers == <<vars, mock, simVars>>

NewReal == Init /\ Sim!Init

\* No device is looked at, and there is no poll loop with a channel to close.
NewMock ==
    /\ inSlot = [s \in Slots |-> None]
    /\ last = inSlot /\ present = inSlot /\ pending = inSlot /\ told = inSlot
    /\ removals = {} /\ insertions = {}
    /\ open = FALSE
    /\ Sim!Init

New == mock \in BOOLEAN /\ IF mock THEN NewMock ELSE NewReal

RealStep == ~mock /\ Next /\ UNCHANGED <<mock, simVars>>

SimulatedStep == mock /\ Sim!Next /\ UNCHANGED <<mock, vars>>

ReadersNext == RealStep \/ SimulatedStep

ReadersSpec == New /\ [][ReadersNext]_readers

ReadersFair ==
    /\ ReadersSpec
    /\ WF_readers(RealStep /\ Send) /\ WF_readers(RealStep /\ CleanPoll)
    /\ WF_readers(SimulatedStep /\ Sim!Watch)
    /\ \A a \in Calls : SF_readers(SimulatedStep /\ Sim!Send(a))

-----------------------------------------------------------------------------
(* Properties, besides those of Detector.tla, which are about the poll     *)
(* detector.                                                               *)

\* While the reader is watched, an API call comes back, however full the
\* buffer between it and the orchestrator.
CallsReturn == Sim!CallsReturn

\* What the orchestrator was told last of a slot is what the reader simulates
\* there, once all calls have returned and their events have been handed over,
\* unless the event sent last was not that of the last change.
ToldUnlessOvertaken == mock => Sim!ToldUnlessOvertaken

=============================================================================
