SPECIFICATION Spec
CONSTANTS
    RandomLimit = 100
    Chars <- Bytes
INVARIANTS RoundTrip
PROPERTIES KeysMade
