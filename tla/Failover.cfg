SPECIFICATION FairSpec
CONSTANTS
    n1 = n1
    n2 = n2
    n3 = n3
    Nil = Nil
    Nick = {u1, u2}
    Node = {n1, n2, n3}
    Order <- ThreeNodes
    Budgets <- MovesAndSuccessions
CHECK_DEADLOCK FALSE
INVARIANT MigrationFindsUsers
PROPERTY MigrationCompletes
