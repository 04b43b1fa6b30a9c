SPECIFICATION FairSpec
CONSTANTS
    Keys = {k1, k2}
    Values <- MCValues
    Nil <- MCNil
    Error <- MCError
    Pack <- MCPack
    Unpack <- MCUnpack
    Closers = {c1, c2}
    Failures = TRUE
INVARIANTS CloseFlushes
PROPERTIES ImplementsKVStore CloseReturnsInTheEnd
