CONSTANTS
    Prober = {g1, g2}
    Caller = {c}
    Peer = {n1}
    Self = Self
    NoID = NoID
    AdjustmentWindowSize = 2
    MaxPings = 4
SPECIFICATION PingSpec
INVARIANT CoordInv
PROPERTIES
    OwnNeverBack
    ResetsEnd
CHECK_DEADLOCK FALSE
