CONSTANTS
    BufSize = 1
    nil = nil
    Goroutine = {receiver, rpc1, rpc2}
    Receiver = receiver
    Peer = {a}
    Name = {deploy}
    Payload = {p, q}
    NoName = NoName
    IgnoreOld = {TRUE, FALSE}
    LastActionClock = 0
    MaxTime = 3
    MaxOps = 3
    MaxReplay = 1
SYMMETRY Symmetry
SPECIFICATION Spec
INVARIANTS
    ActionInv
    AtMostOnce
    IgnoredNotDelivered
PROPERTY DropsDuplicatesOnly
CHECK_DEADLOCK FALSE
