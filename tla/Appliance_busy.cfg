CONSTANTS
    None = None
    Slots = {a}
    Cards = {c1}
    Serials = {n1, n2}
    SerialOf <- OwnSerial
    Workers = {w1, w2}
    Recording = FALSE
    Alerting = FALSE
SPECIFICATION FairSpec
PROPERTY InsertedIsServed
