\* Three local addresses for two connections, and two places in each buffer: a
\* connection makes room for another, and a buffer fills up.
SPECIFICATION Spec
CONSTANTS
    Con = {k1, k2}
    NoCon = NoCon
    Locals = {l1, l2, l3}
    Remotes = {r1, r2}
    max_connections = 2
    BufSize = 2
SYMMETRY Symmetry
CHECK_DEADLOCK FALSE
INVARIANTS
    RightDatagram
    JobsLive
    TableIsExact
    NoLostWakeup
