SPECIFICATION Spec
CONSTANTS
    s1 = s1
    s2 = s2
    s3 = s3
    x = x
    y = y
    Nil = Nil
    Peers <- AllPeers
    Proposes <- OwnCommands
    Server = {s1, s2, s3}
    Command = {x, y}
    SnapshotThreshold = 9
    Chunks = 1
    Changes = {}
    Overtake = 0
    Delivery = "lossy"
    Campaigns <- Handover
    MaxIndex = 2
    MaxInFlight = 2
    MaxRestarts = 0
    MaxFaults = 0
VIEW LogView
CHECK_DEADLOCK FALSE
INVARIANT LogMatching
INVARIANT SafeWithoutDepartures
