SPECIFICATION Spec
CONSTANTS
    Socks = {s1, s2}
    Ids = {a, b}
    NoName = NoName
    Faults <- NoFaults
    WellBehaved = TRUE
SYMMETRY Symmetries
INVARIANTS DeletionsHonoured
