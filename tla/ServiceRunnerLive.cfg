SPECIFICATION FairSpec
CONSTANTS
    Jobs = {j1}
    Stops = {s1, s2}
    NoJob = NoJob
    MaxPending = 1
INVARIANTS
    StoppingHasStopper
PROPERTIES
    StopCompletes
    RestartStarts
    
CHECK_DEADLOCK FALSE
