CONSTANTS
    BufSize = 2
    nil = nil
    Query = {q1, q2}
    Node = {o, n}
    Origin = o
    Selections <- Others
    Oversized = {q1}
    Overloaded = {q1}
    Reach = {q2}
    NumActive = {1}
    NumScripts = 2
    NumRelays = 1
SPECIFICATION Spec
INVARIANTS
    QueryInv
    ResponsesOnce
PROPERTIES
    NoSendOnClosed
    CallsReturn
CHECK_DEADLOCK FALSE
