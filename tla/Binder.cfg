\* Two remote clients and the notification: the smallest case in which one
\* listener leaves while another stays.
SPECIFICATION FairSpec
CONSTANTS
    Clients = {c1, c2}
    Notif = notif
    MaxQueue = 2
CHECK_DEADLOCK FALSE
INVARIANTS
    LooperIffListeners
    NoGhostListener
    
PROPERTIES
    LeaverForgotten
