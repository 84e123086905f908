SPECIFICATION Spec
CONSTANTS
    Nil = Nil
    peer1 = peer1
    peer2 = peer2
    peer3 = peer3
    Server = Server
CHECK_DEADLOCK FALSE
INVARIANT LinksExact
 
 
 
 
