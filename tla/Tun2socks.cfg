\* Windows and buffers smaller than what is sent: both directions fill up, wait
\* and go on.
SPECIFICATION FairSpec
CONSTANTS
    TCP_WND = 3
    TCP_SND_BUF = 2
    RECV_BUF = 3
    MaxUp = 5
    MaxDown = 4
    AuthMethods = {"none", "password"}
INVARIANTS
    CallbacksLive
    AbortIsReturned
    NoRefusal
    NoStall
    StreamsInOrder
PROPERTIES
    UpstreamComplete
    DownstreamComplete
    
