\* One local address is enough.
SPECIFICATION Spec
CONSTANTS
    Con = {k1}
    NoCon = NoCon
    Locals = {l1}
    Remotes = {r1}
    max_connections = 1
    BufSize = 1
CHECK_DEADLOCK FALSE
INVARIANTS
    NotIntercepted
