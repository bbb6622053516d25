CONSTANTS
    NodeID = {a}
    Junk = Junk
    MinCompactSize = 2
    BytesPerNode = 2
    Faults = {"write", "dump"}
    CrashPoints = {"loop", "compact", "dumped", "flushed", "renamed"}
    TeeSize = 2
    TornEnds = FALSE
    MaxTime = 2
    MaxEvents = 3
    MaxRuns = 2
    MaxFaults = 2
SPECIFICATION Spec
INVARIANTS
    SnapshotInv
    StoppedIsDurable
PROPERTIES
    ImplementsDurableState
    TimesReachDisk
CHECK_DEADLOCK FALSE
