CONSTANTS
    Keys <- SomeKeys
    Datas <- SomeDatas
    NoKey = NoKey
    MaxDepth = 2
SPECIFICATION Spec
INVARIANTS
    Recovered
PROPERTIES
    KeysTellApart
