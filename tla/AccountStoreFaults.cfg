SPECIFICATION Spec
CONSTANTS
    Socks = {s1, s2}
    Ids = {a, b, c}
    NoName = NoName
    Faults <- AllFaults
    WellBehaved = TRUE
SYMMETRY Symmetries
INVARIANTS TypeOK FriendsRegistered
