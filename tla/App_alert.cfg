CONSTANTS
    None = None
    Slots = {a}
    Workers = {w1}
    Recording = TRUE
    Alerting = TRUE
SPECIFICATION Spec
INVARIANT ErrorNotified
