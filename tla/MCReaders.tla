----------------------------- MODULE MCReaders ------------------------------
(***************************************************************************)
(* An instance of Readers for TLC.                                         *)
(***************************************************************************)
EXTENDS Readers

\* Every card has a serial of its own, as the tests and the mock have it.
OwnSerial == [s \in Slots |-> CHOOSE f \in [Cards -> Serials] :
                 \A c, d \in Cards : f[c] = f[d] => c = d]

=============================================================================
