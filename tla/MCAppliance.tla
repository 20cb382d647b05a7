---------------------------- MODULE MCAppliance ----------------------------
(***************************************************************************)
(* Instances of Appliance for TLC.                                         *)
(***************************************************************************)
EXTENDS Appliance

\* Every card has a serial of its own.
OwnSerial == [s \in Slots |-> CHOOSE f \in [Cards -> Serials] :
                 \A c, d \in Cards : f[c] = f[d] => c = d]

=============================================================================
