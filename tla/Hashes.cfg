CONSTANTS
    Octets = {0, 128}
    BlockSize = 6
    LowSpace = 24
    HighSpace = 4
    MaxPart = 3
    Texts <- FewTexts
    SecretKeys <- KeysAroundABlock
    HashSize = 3
    MaxMacs = 2
SPECIFICATION HmacSpec
INVARIANTS
    TypeOK
    DigestOfMessage
    MacsTellApart
PROPERTIES
    DigestStands
