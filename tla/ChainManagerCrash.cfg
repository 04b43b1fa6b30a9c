SPECIFICATION Spec
CONSTANTS
    Genesis = Genesis
    a1 = a1
    a2 = a2
    b1 = b1
    b2 = b2
    c1 = c1
    d1 = d1
    Blocks = {a1, a2, b1, b2, c1, d1}
    BadNonce = {c1}
    BadHashes = {d1}
    Invalid = {}
    CheckpointLimit = 1
    Crashes = TRUE
    MaxFailures = 1
    Stops = FALSE
    MaxPosting = 1
    None = None
    Parent <- MCParent
    Number <- MCNumber
    Difficulty <- MCDifficulty
    Chains <- Singles
    Delay <- NoDelay
INVARIANTS ChainStored Joinable
