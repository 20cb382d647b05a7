CONSTANTS
    None = None
    Slots = {s1, s2}
    Clients = {c1}
    Buffer = 2
SPECIFICATION FairSpec
INVARIANTS
    NeverSendsOnClosed
    ShowsTheTruth
PROPERTIES
    UnsubscribedWhenGone
    NeverStalls
