\* Three processes: a death notification can be late by a whole connection.
SPECIFICATION FairSpec
CONSTANT MaxProc = 3
CHECK_DEADLOCK FALSE
INVARIANTS
    ChecksHold
    
    NoLeakedCallback
    
PROPERTIES
    Reconnects
