SPECIFICATION Spec
CONSTANTS
    RotateEvery = 2
    MaxPackets = 5
    Node = {n1, n2}
    MaxPeers = 1
    MaxConns = 2
    MaxEvents = 2
    Ip = {"i1", "i2"}
    Order <- MCOrder
    MaxLinks = 1
    FailToConnectLimit = 1
    ForgetLimit = 3
    FailWidth = 4
    MaxChanges = 4
CHECK_DEADLOCK FALSE
INVARIANTS AllReadable NonceOnce ListSound
PROPERTIES NetworkProgress
