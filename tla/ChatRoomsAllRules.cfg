SPECIFICATION ListSpec
CONSTANTS
    a = a
    b = b
    c = c
    s1 = s1
    s2 = s2
    s3 = s3
    Socks = {s1, s2, s3}
    Letters = {a, b, c}
    Names <- ThreeNames
    IndexSpace = 2
    MaxEntries = 3
    ClientRules = {"enter_once", "open_rooms", "logged_in"}
    NULL = NULL
    NoEntry = NoEntry
    NotSeen = NotSeen
SYMMETRY Symmetry
INVARIANTS
    NamesConnected
    WhisperPairOnly
    ListsCurrent
PROPERTIES
    OnlyAbsentRoomsKill
    ListsWholeWithoutWhispers
