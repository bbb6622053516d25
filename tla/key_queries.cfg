CONSTANTS
    Node = {o, n}
    Origin = o
    Key = {k1, k2}
    FirstKey = k1
    MaxListed = 1
    MaxQueries = 3
    MaxCrashes = 1
    MaxFaults = 1
SPECIFICATION Spec
INVARIANTS
    KeyInv
    EverybodyUnderstood
PROPERTIES
    CountsAreTrue
CHECK_DEADLOCK FALSE
