\* One guard is enough to lose an exit code; API 24 has no timeouts to race.
SPECIFICATION FairSpec
CONSTANTS
    Guards = {tun2socks}
    SdkInts = {24}
CHECK_DEADLOCK FALSE
PROPERTIES
    CloseJoins
