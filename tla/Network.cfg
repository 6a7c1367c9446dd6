\* Two networks, and a callback queue long enough for a switch and a loss.
SPECIFICATION FairSpec
CONSTANTS
    Networks = {wifi, cell}
    NoNet = NoNet
    MaxPending = 4
INVARIANTS
    CaughtUp
    Followed
    
PROPERTIES
    GetAnswered
