SPECIFICATION FairSpec
CONSTANTS
    s1 = s1
    s2 = s2
    s3 = s3
    x = x
    y = y
    Nil = Nil
    Peers <- AllPeers
    Proposes <- OwnCommands
    Server = {s1, s2, s3}
    Command = {x, y}
    SnapshotThreshold = 9
    Chunks = 1
    Changes = {}
    Overtake = 0
    Delivery = "reliable"
    Campaigns <- OneLeader
    MaxIndex = 2
    MaxInFlight = 3
    MaxRestarts = 1
    MaxFaults = 0
CHECK_DEADLOCK FALSE
PROPERTY ProposalsApplied
