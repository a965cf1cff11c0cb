SPECIFICATION Spec
CONSTANTS
    Parts = {"storage", "mempool", "wallet", "interrupted", "messages", "payments", "proofs", "cache",
             "seeds", "addresses", "templates", "file", "caches", "custom", "servers"}
    NoAccount = NoAccount
    Account = {"a", "b"}
    Block <- MCBlock
    Miner <- MCMiner
    From <- MCFrom
    To <- MCTo
    Genesis = 0
    PRUNE_SAFETY_LIMIT = 1
    MaxTopo = 4
    ReorgDepth = 2
    PoolAccount = {"a", "b"}
    Asset = {"xel"}
    Tx = {"t0", "t1", "t2", "r1", "u0"}
    TxSource <- MCSource
    TxNonce <- MCNonce
    TxReference <- MCReference
    TxSpend <- MCSpend
    TxBuiltOn <- MCBuiltOn
    StorageStates <- MCStates
    MaxPoolTopo = 2
    TrackOrphans = TRUE
    None = None
    MaxChain = 3
    MaxTxs = 2
    MaxLosses = 1
    MaxRescans = 1
    Byte = 32
    VarSize = 3
    MAX_ITEMS = 200
    TIPS_LIMIT = 3
    MAX_TRANSFER_COUNT = 31
    CHAIN_SYNC_REQUEST_MAX_BLOCKS = 4
    CHAIN_SYNC_RESPONSE_MIN_BLOCKS = 2
    CHAIN_SYNC_RESPONSE_MAX_BLOCKS = 5
    CHAIN_SYNC_TOP_BLOCKS = 2
    P2P_PING_PEER_LIST_LIMIT = 4
    NOTIFY_MAX_LEN = 6
    HANDSHAKE_MAX_LEN = 16
    EXTRA_DATA_LIMIT_SIZE = 200
    Values <- MCValues
    Native = "xel"
    Sender = "me"
    Funds <- MCFunds
    RegisteredAccounts = {"me", "bob", "carol"}
    AmountValues = 64
    Requests <- MCRequests
    FEE_PER_KB = 1
    FEE_PER_TRANSFER = 1
    FEE_PER_ACCOUNT_CREATION = 2
    MaxBuilt = 2
    Q = 5
    Secrets = {2, 4}
    Randomness = {0, 3}
    Masks = {1, 3}
    Operations = 2
    WORDS_LIST = 2
    Word = 5
    Groups = 2
    LANGUAGES <- AllLanguages
    Keys <- MCKeys
    KeySize = 1
    MaxData = 4
    Addresses <- MCAddresses
    Senders = {"a", "b"}
    Ledger <- MCLedger
    Pools <- MCPools
    HeaderSize = 10
    HASH_SIZE = 3
    MAX_BLOCK_SIZE = 32
    Password = {"p", "q"}
    Networks = {"mainnet", "testnet"}
    MaxSalts = 3
    MaxCrashes = 2
    TrackedAsset <- MCTrackedAsset
    Ciphertexts = {1, 2}
    CacheSize = 1
    MaxPending = 2
    Topoheights = {0, 1}
    CustomKeys <- MCCustomKeys
    CustomValues <- MCCustomValues
    KeyQueries <- MCKeyQueries
    ValueQueries <- MCValueQueries
    AllEntries <- MCEntries
    Filters <- MCFilters
    MaxChannels = 4
    Listener = {"l1", "l2"}
CHECK_DEADLOCK FALSE
INVARIANTS CacheIndexed NoGhosts Spendable StorageSound  SeedReadBack  PaymentsSound ProofsSound CacheIsBalance 
PROPERTIES NeverReplaced Implements FrontRunSafe
