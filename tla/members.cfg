CONSTANTS
    Member = {a, b}
    MaxChanges = 6
SPECIFICATION Spec
INVARIANTS
    ListsInv
    EventsMatchState
PROPERTY ReapedOnce
CHECK_DEADLOCK FALSE
