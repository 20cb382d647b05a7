------------------------------ MODULE CardFeed ------------------------------
(***************************************************************************)
(* What the orchestrator is told about its slots: in every slot, cards are *)
(* reported inserted and removed in turn, and the removal that follows an  *)
(* insertion is that card's.  Detector.tla is shown to implement this.     *)
(***************************************************************************)

CONSTANTS Slots, Cards, None

VARIABLE told           \* the card last reported inserted in a slot, or None

Init == told = [s \in Slots |-> None]

ReportInserted(s, c) ==
    /\ told[s] = None
    /\ told' = [told EXCEPT ![s] = c]

ReportRemoved(s) ==
    /\ told[s] # None
    /\ told' = [told EXCEPT ![s] = None]

Next ==
    \E s \in Slots : ReportRemoved(s) \/ \E c \in Cards : ReportInserted(s, c)

Spec == Init /\ [][Next]_told

=============================================================================
