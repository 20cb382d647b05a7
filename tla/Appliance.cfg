CONSTANTS
    None = None
    Slots = {a}
    Cards = {c1, c2}
    Serials = {n1, n2}
    SerialOf <- OwnSerial
    Workers = {w1, w2}
    Recording = FALSE
    Alerting = FALSE
SPECIFICATION FairSpec
INVARIANTS
    GoneIsCancelled
PROPERTIES
    SlotComesBack
    StopEnds
