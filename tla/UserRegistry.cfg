SPECIFICATION SceneSpec
CONSTANTS
    c1 = c1
    c2 = c2
    c3 = c3
    n1 = n1
    n2 = n2
    n3 = n3
    NoConn = NoConn
    NoNick = NoNick
    Conn = {c1, c2, c3}
    Nick = {n1, n2, n3}
    Wants <- TwoNicks
    Renames <- NoRenames
    Opers = {c1, c2}
    MaxConnections = 2
    MaxUsize = 7
CHECK_DEADLOCK FALSE
INVARIANT NickEntryAgrees
INVARIANT CountCovers
INVARIANT SessionsOwn
PROPERTY WithinLimit
PROPERTY KeptByHolder
PROPERTY OrderlyReleased
