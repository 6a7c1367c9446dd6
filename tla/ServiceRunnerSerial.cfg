SPECIFICATION SerialSpec
CONSTANTS
    Jobs = {j1, j2, j3}
    Stops = {s1, s2, s3}
    NoJob = NoJob
    MaxPending = 2
INVARIANTS
    NothingLeaks
    StoppedIsClean
    ConnectedIsServed
    CloseReaches
    DestroyedIsClean

    
CHECK_DEADLOCK FALSE
