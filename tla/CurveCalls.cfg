SPECIFICATION Spec
CONSTANTS
    P = 211
    CurveB = 7
    Beta = 196
    N = 199
    Gx = 3
    Gy = 33
    Lambda = 92
    ScalarBits = 8
    WindowA = 3
    WindowG = 4
    GenWindow = 2
    NumsX = 7
    MinusB1 = 13
    MinusB2 = 197
    G1 = 10
    G2 = 67
    SplitShift = 10
    Scales = {1, 5}
    Starts = {77}
    FewScalars = {0, 198}
    BlindScalars = {57, 142}
    BlindFactors = {3}
    MaxSteps = 2
INVARIANTS GroupLaw BlindingCancels MagnitudeSafe TestsAgree
CHECK_DEADLOCK FALSE
