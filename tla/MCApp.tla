------------------------------- MODULE MCApp -------------------------------
(***************************************************************************)
(* Instances of App for TLC.  Slots and workers are interchangeable in     *)
(* every definition of App, so that the runs without liveness may identify *)
(* states up to their permutations.                                        *)
(***************************************************************************)
EXTENDS App, TLC

Symmetry == Permutations(Slots) \cup Permutations(Workers)

=============================================================================
