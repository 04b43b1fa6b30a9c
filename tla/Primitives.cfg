SPECIFICATION PSpec
CONSTANTS
    Addrs = {a1, a2}
    MaxNonce = 2
    MaxAhead = 2
    Word = 16
INVARIANTS
    FieldSound ScalarSound ChainsReachExponent HmacOfMessage DerExact RoundTrip
    FreshNonce NeverBehind
CHECK_DEADLOCK FALSE
