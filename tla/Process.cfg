CONSTANTS
    None = None
    Torn = Torn
    Faulty = {b}
    Policies = {p, q}
    Requests = {r1, r2}
    Jobs = {j1}
    Reads = {g1}
    Streams = {e1}
SPECIFICATION ProcessFairSpec
INVARIANTS
    BootsAgain
    NeverAheadOfDisk
    HoldsWhatItPersists
    StoreOutlivesItsUsers
    ReleasesAll
PROPERTIES
    SignalEnds
    KeepsPolicy
