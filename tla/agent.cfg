CONSTANTS
    LeaveCall = {l1, l2}
    RetryJoin = {TRUE, FALSE}
    RetryJoinMax = 1
    Polls = 2
    Addr = {a1, a2}
SPECIFICATION Spec
INVARIANTS
    ClosedOnce
    LeaveIsRecorded
PROPERTIES
    BegunIsDone
CHECK_DEADLOCK FALSE
