CONSTANTS
    Peer = {"p", "q"}
    Block = {"b1", "b2", "b3"}
    Tx = {"t1", "t2"}
    Scenarios <- All
    SyncPeer = "p"
    BlockPeer = "q"
    Leavers = {"p"}
    REQUESTER_CHANNEL_BUFFER = 1
    HANDLER_CHANNEL_BUFFER = 1
    PEER_PACKET_CHANNEL_SIZE = 1

SPECIFICATION Spec

CHECK_DEADLOCK FALSE
INVARIANTS WaitsOnQueued TrackerSound
PROPERTIES TrackerProgress
