SPECIFICATION Spec
CONSTANTS
    s1 = s1
    s2 = s2
    k1 = k1
    k2 = k2
    Socks <- TwoSocks
    Keys = {k1, k2}
    NoKey = NoKey
    NoSock = NoSock
    MaxTokens = 3
    MaxQueue = 2
INVARIANTS
    TypeOK
    KeysInStep
PROPERTIES
    RequestsKept
    LoginAnswered
