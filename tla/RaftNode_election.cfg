SPECIFICATION Spec
CONSTANTS
    s1 = s1
    s2 = s2
    s3 = s3
    x = x
    y = y
    Nil = Nil
    Peers <- AllPeers
    Proposes <- OwnCommands
    Server = {s1, s2, s3}
    Command = {x, y}
    SnapshotThreshold = 9
    Chunks = 1
    Changes = {}
    Overtake = 0
    Delivery = "lossy"
    Campaigns <- Rivals
    MaxIndex = 0
    MaxInFlight = 2
    MaxRestarts = 1
    MaxFaults = 1
SYMMETRY Symmetry
CHECK_DEADLOCK FALSE
INVARIANT VoteOnce
INVARIANT OneLeaderPerTerm
INVARIANT MajorityElected
PROPERTY TermNeverDecreases
