SPECIFICATION FairSpec
CONSTANT
    MaxEvents = 2
CHECK_DEADLOCK FALSE
PROPERTIES
    ClickableReturns
    CrashIsShown
