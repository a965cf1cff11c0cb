CONSTANTS
    STABLE_LIMIT = 2
    TIPS_LIMIT = 3
    Account = {"a"}
    Miners = {"a"}
    Hash = {1, 2, 3, 4, 5, 6, 7}
    Blocks <- Branches
    Peer = {"P"}
    PrioritySets <- Nobody
    PeerChain <- FourAhead
    PeerAlt <- NoAlts
    Propagated = {1, 2, 3, 4, 5, 6, 7}
    CHAIN_SYNC_REQUEST_EXPONENTIAL_INDEX_START = 2
    ResponseSize = 5
    MaxFailures = 0
    MaxRewinds = 6
    Parts = {"sync"}
SPECIFICATION Spec
PROPERTIES OnlyPriorityRewinds
CHECK_DEADLOCK FALSE
