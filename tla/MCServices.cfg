SPECIFICATION Spec
CONSTANTS
    Source = {"p1", "p2"}
    Moving = {"p1"}
    Priority = {"p1"}
    MaxTopo = 4
    MaxOurs = 1
    SafetyLimit = 2
    PageSize = 2
    PrunePoints = {2}
    MaxAttempts = 2
    AccountOrder <- MCAccounts
    AssetOrder <- MCAssets
    RegisteredAt <- MCRegistered
    Writes <- MCWrites
    OwnWrites <- MCOwn
    Thread = {t1}
    StableLimit = 1
    UpdateEvery = 1
    MaxNonce = 1
    MaxTips = 1
    MaxPool = 1
    MaxSessions = 2
    Session = {s1, s2}
    MaxNotified = 1
CHECK_DEADLOCK FALSE
INVARIANTS FastSyncSound WorkSound NoSubscriberOver
PROPERTIES ServicesProgress
