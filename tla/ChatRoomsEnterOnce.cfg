SPECIFICATION Spec
CONSTANTS
    a = a
    b = b
    c = c
    s1 = s1
    s2 = s2
    s3 = s3
    Socks = {s1, s2, s3}
    Letters = {a, b, c}
    Names <- EmptyAndOne
    IndexSpace = 2
    MaxEntries = 3
    ClientRules = {"enter_once"}
    NULL = NULL
    NoEntry = NoEntry
SYMMETRY SocketSymmetry
INVARIANTS
    MembersConnected
PROPERTIES
    MasterKeptWhileInside
    MembershipKept
