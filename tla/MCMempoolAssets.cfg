CONSTANTS
    PoolAccount = {"a", "b"}
    Asset = {"xel", "gold"}
    Tx = {"t0", "t1", "t2", "r1", "u0"}
    TxSource <- MCSource
    TxNonce <- MCNonce
    TxReference <- MCReference
    TxSpend <- MCSpend2
    TxBuiltOn <- MCBuiltOn2
    StorageStates <- MCStates
    MaxPoolTopo = 2
    TrackOrphans = TRUE
SPECIFICATION MempoolSpec
INVARIANT Replayable
