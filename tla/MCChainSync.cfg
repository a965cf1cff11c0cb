CONSTANTS
    STABLE_LIMIT = 2
    TIPS_LIMIT = 3
    Account = {"a"}
    Miners = {"a"}
    Hash = {1, 2, 3, 4, 5, 6}
    Blocks <- Headers
    Peer = {"P", "Q"}
    PrioritySets <- Trusted
    PeerChain <- Chains
    PeerAlt <- Alts
    Propagated = {1, 2, 3}
    CHAIN_SYNC_REQUEST_EXPONENTIAL_INDEX_START = 2
    ResponseSize = 3
    MaxFailures = 1
    MaxRewinds = 6
    Parts = {"sync", "pair"}
SPECIFICATION Spec
INVARIANTS CachesAgree Agreement
PROPERTIES Converges
CHECK_DEADLOCK FALSE
