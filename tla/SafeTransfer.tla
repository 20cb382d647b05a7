---------------------------- MODULE SafeTransfer ----------------------------
(***************************************************************************)
(* What cardingest promises its user, with no pipeline in sight: files     *)
(* leave a card one at a time, and only once their content is on the       *)
(* destination or the policy has declared them worthless; and content that *)
(* has landed never disappears again.  Ingest.tla is shown to implement    *)
(* this specification.                                                     *)
(***************************************************************************)

CONSTANTS
    Files,          \* the files on the cards
    Discardable     \* the files the policy lets go without a copy

VARIABLES
    onCard,         \* the files still on their card
    landed          \* the files whose content is on the destination

vars == <<onCard, landed>>

Init ==
    /\ onCard = Files
    /\ landed = {}

\* New content reaches the destination: one copy may land several files at
\* once, when they hold the same bytes.
Land ==
    /\ landed' \in SUBSET Files
    /\ landed \subseteq landed'
    /\ UNCHANGED onCard

\* One file is erased from its card.
Erase ==
    /\ \E f \in onCard \cap (landed \cup Discardable) : onCard' = onCard \ {f}
    /\ UNCHANGED landed

Next == Land \/ Erase

Spec == Init /\ [][Next]_vars

=============================================================================
