CONSTANTS
    p1 = p1
    p2 = p2
    Pingers <- MCPingers
    MaxDials = 2
    MaxPings = 3
    QueueCap = 2
SPECIFICATION Spec
SYMMETRY MCSymmetry
CHECK_DEADLOCK FALSE
INVARIANTS
    NoLeakedConnection
