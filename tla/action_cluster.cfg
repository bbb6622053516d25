CONSTANTS
    BufSize = 1
    nil = nil
    Node = {n1, n2}
    Payload = {p, q}
    IgnoreOld = {TRUE, FALSE}
    MaxTime = 3
    MaxActions = 2
    Restarting = {n1}
    MaxRestarts = 1
SPECIFICATION ClusterSpec
PROPERTIES
    ImplementsBroadcast
    DurableNotRepeated
    EveryActionArrives
CHECK_DEADLOCK FALSE
