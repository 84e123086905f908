SPECIFICATION Spec
CONSTANTS
    Nil = Nil
    f1 = f1
    f2 = f2
    n1 = n1
    n2 = n2
    bad = bad
SYMMETRY Symmetry
CHECK_DEADLOCK FALSE
 
 
INVARIANT InputExact
 
 
 
