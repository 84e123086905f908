SPECIFICATION KeyFairSpec
CONSTANTS
    Client = {p1, p2}
    Nil = Nil
    Server = Server
    Relays = {"stored"}
    BatchSize = 1
    BundleChunks = 2
    InitChunks = 2
    MaxTexts = 2
    MaxExchanges = 2
    MaxResets = 0
    MaxCrashes = 0
CHECK_DEADLOCK FALSE
PROPERTY QueuedLeaves
