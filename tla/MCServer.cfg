SPECIFICATION Spec
CONSTANTS
    Nil = Nil
    x = x
    y = y
    p = p
    q = q
    chan1 = chan1
    mask1 = mask1
    j1 = j1
    j2 = j2
SYMMETRY Symmetry
CHECK_DEADLOCK FALSE
INVARIANT TypeOK
 
 
 
INVARIANT DegradedFollows
 
 
