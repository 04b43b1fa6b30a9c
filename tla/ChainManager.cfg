SPECIFICATION FairSpec
CONSTANTS
    Genesis = Genesis
    a1 = a1
    a2 = a2
    b1 = b1
    b2 = b2
    c1 = c1
    d1 = d1
    Blocks = {a1, a2, b1, b2}
    BadNonce = {}
    BadHashes = {}
    Invalid = {b2}
    CheckpointLimit = 1
    Crashes = FALSE
    MaxFailures = 0
    Stops = TRUE
    MaxPosting = 2
    None = None
    Parent <- MCParent
    Number <- MCNumber
    Difficulty <- MCDifficulty
    Chains <- MCChains
    Delay <- MCDelay
INVARIANTS Heaviest IndexMatches
PROPERTIES HeadsGrow HeadAnnounced KeptBlocksInserted
CHECK_DEADLOCK FALSE
