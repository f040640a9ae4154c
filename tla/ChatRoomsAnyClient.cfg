SPECIFICATION Spec
CONSTANTS
    a = a
    b = b
    c = c
    s1 = s1
    s2 = s2
    s3 = s3
    Socks = {s1, s2}
    Letters = {a, b, c}
    Names <- EmptyAndOne
    IndexSpace = 2
    MaxEntries = 3
    ClientRules = {}
    NULL = NULL
    NoEntry = NoEntry
SYMMETRY SocketSymmetry
INVARIANTS
    TypeOK
    RoomsInhabited
    MasterPresent
    WhisperIndexExact
    OneSocketPerName
PROPERTIES
    RoomsNotRecycled
    BannedStayOut
