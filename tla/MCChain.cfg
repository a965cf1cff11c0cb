SPECIFICATION MCSpec
CONSTANTS
    STABLE_LIMIT = 2
    TIPS_LIMIT = 3
    Hash = {1, 2, 3, 4, 5}
    Difficulty = {1, 3}
    Miners = {"a"}
    Account = {"a", "b"}
    Tx = {"s0", "r0", "s1", "p0"}
    TxSource <- Source
    TxNonce <- Nonce
    TxReceiver <- Receiver
    TxNeeds <- Needs
    Payloads <- MCPayloads
    MaxRewinds = 1
INVARIANTS OrderSound CachesAgree TipsSound LedgerSound
PROPERTIES StableKept NoTxLost
