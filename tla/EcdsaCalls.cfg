SPECIFICATION Spec
CONSTANTS
    P = 19
    CurveB = 2
    Beta = 7
    N = 13
    Gx = 4
    Gy = 3
    Lambda = 9
    ScalarBits = 4
    EncBase = 32
    MultZ = 2
    Messages = {0, 5, 18}
    Tweaks = {0, 1, 6, 12, 13, 31}
    WireScalars = {0, 1, 2, 3, 4, 5, 6, 7, 8, 9, 10, 11, 12, 13, 31}
    WireFields = {0, 1, 3, 4, 5, 14, 15, 16, 17, 18, 19, 20, 22, 23, 24, 31}
    MaxTweaks = 2
    MaxTries = 1
INVARIANTS KeysMatch SignedVerifies VerifyExact RecoverExact
CHECK_DEADLOCK FALSE
