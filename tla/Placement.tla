----------------------------- MODULE Placement ------------------------------
(***************************************************************************)
(* Where one file of a card goes, as the pipeline decides it: the rules    *)
(* and then the categories (Selection.tla), and, for a file that is kept   *)
(* and was copied, the date (CaptureDate.tla).  A file whose content is    *)
(* known already needs no date, and the walk over its atoms never starts.  *)
(***************************************************************************)
EXTENDS Selection, CaptureDate

CONSTANT Kind       \* what DateOf takes an extension for

placement == <<vars, dateVars>>

PlacementInit == Init /\ DateInit /\ kind = Kind[file.ext]

Select == Next /\ UNCHANGED dateVars

Dated ==
    /\ step = "done" /\ category # None
    /\ DateNext
    /\ UNCHANGED vars

PlacementSpec == PlacementInit /\ [][Select \/ Dated]_placement

\* The goroutine of the job goes on once it has begun to look for the date.
PlacementFairness == WF_placement(Dated /\ at # "open")

=============================================================================
