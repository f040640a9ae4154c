SPECIFICATION WindowSpec
CONSTANTS
    ann = ann
    anna = anna
    bob = bob
    Socks = {s1, s2, s3}
    Ids = {ann, anna, bob}
    NoName = NoName
    Faults <- NoFaults
    WellBehaved = TRUE
    Extended <- OneExtended
    MaxLines = 3
SYMMETRY Symmetries
INVARIANTS SignedInIsFlagged FlaggedIsSignedIn FriendsMutual FriendNoticesTrue UsersShown
