SPECIFICATION Spec
CONSTANTS
    c1 = c1
    c2 = c2
    c3 = c3
    n1 = n1
    n2 = n2
    lower = lower
    upper = upper
    Casing = {lower, upper}
    x = x
    y = y
    Nil = Nil
    Conn = {c1, c2, c3}
    Nick = {n1, n2}
    Name = {x, y}
    Scripts <- AllScripts
    Changes <- SomeChanges
    MaxObjects = 3
    MaxGroups = 1
    MaxTime = 1
SYMMETRY Symmetry
CHECK_DEADLOCK FALSE
INVARIANT ChannelsSound
INVARIANT GroupsSound
INVARIANT WithinChannelLimit
PROPERTY AdminSuccession
