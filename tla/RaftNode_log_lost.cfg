SPECIFICATION Spec
CONSTANTS
    s1 = s1
    s2 = s2
    s3 = s3
    x = x
    y = y
    Nil = Nil
    Peers <- AllPeers
    Proposes <- OwnCommands
    Server = {s1, s2, s3}
    Command = {x, y}
    SnapshotThreshold = 9
    Chunks = 1
    Changes = {}
    Overtake = 0
    Delivery = "lossy"
    Campaigns <- Handover
    MaxIndex = 1
    MaxInFlight = 2
    MaxRestarts = 1
    MaxFaults = 0
CHECK_DEADLOCK FALSE
INVARIANT SafeAcrossRestarts
