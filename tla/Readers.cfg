CONSTANTS
    None = None
    Slots = {s1, s2}
    Cards = {c1, c2}
    Serials = {n1, n2}
    SerialOf <- OwnSerial
    Calls = {a1, a2}
    Buffer = 2
    Directories = {d1}
SPECIFICATION ReadersFair
INVARIANTS
    InFlight
    ToldUnlessOvertaken
PROPERTIES
    Debounced
    Alternates
    Settles
    CallsReturn
CHECK_DEADLOCK FALSE
