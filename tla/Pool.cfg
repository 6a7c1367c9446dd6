\* Two guards on every branch of the clean-up by API level.
SPECIFICATION FairSpec
CONSTANTS
    Guards = {sslocal, tun2socks}
    SdkInts = {23, 24, 26}
CHECK_DEADLOCK FALSE
INVARIANTS
    NoOrphan
PROPERTIES
    RestartOrFatal
    CloseJoinsUnlessLost
