SPECIFICATION Spec
CONSTANTS
    s1 = s1
    s2 = s2
    s3 = s3
    x = x
    y = y
    Nil = Nil
    Peers <- Joining
    Proposes <- OwnCommands
    Server = {s1, s2}
    Command = {x, y}
    SnapshotThreshold = 1
    Chunks = 2
    Changes <- Changed
    Overtake = 1
    Delivery = "breaking"
    Campaigns <- Handover
    MaxIndex = 3
    MaxInFlight = 2
    MaxRestarts = 1
    MaxFaults = 1
CONSTRAINT OneDisturbance
VIEW LogView
CHECK_DEADLOCK FALSE
INVARIANT TypeOK
INVARIANT PendingOnLeader
INVARIANT SnapshotsFaithful
