SPECIFICATION FairSpec
CONSTANTS
    Addrs = {"a"}
    Txs <- MCTxs
    MaxQueued = 1
    MaxNonce = 1
    Prices = {0, 2}
    Balances = {0, 2}
    GasLimits = {1}
    MaxBatch = 2
    MaxMoves = 2
INVARIANTS QueueBounded CaughtUp NoGap
PROPERTIES NoSilentLoss StaleEvicted
