---------------------------- MODULE MCLiveStatus ----------------------------
(***************************************************************************)
(* Instances of LiveStatus for TLC.                                        *)
(***************************************************************************)
EXTENDS LiveStatus

=============================================================================
