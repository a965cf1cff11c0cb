CONSTANTS
    Node = {"a", "b", "c"}
    Links = {{"a","c"}}
    FirstLinks = {{"a","b"},{"b","c"}}
    Tx = {1, 2}
    OldTx = {1}
    Block = {3}
    P2P_PING_PEER_LIST_LIMIT = 1
    NOTIFY_MAX_LEN = 1
    MaxEvents = 2
SPECIFICATION Spec
CHECK_DEADLOCK FALSE
INVARIANTS GossipSound
PROPERTIES Settles
