CONSTANTS
    Member = {a, b, c}
    Info = {x, y}
    MaxEvents = 4
SPECIFICATION CoalescerSpec
INVARIANT CoalescerInv
PROPERTIES
    LeftOutWasSent
    ImplementsFeed
CHECK_DEADLOCK FALSE
