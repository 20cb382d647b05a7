CONSTANTS
    None = None
    Slots = {a, b}
    Workers = {w1, w2, w3}
    Recording = TRUE
    Alerting = FALSE
SPECIFICATION Spec
SYMMETRY Symmetry
INVARIANTS
    OneWorkerPerSlot
    MountShown
    CleanStop
PROPERTIES
    OutcomeIsFinal
