CONSTANTS
    Handler = {h1, h2}
    Filter = {{"failed", "user"}}
    ScriptFilters = {{"user", "failed"}, {"join", "failed"}}
    MemberType = {"join", "failed"}
    Member = {m1, m2}
    ChSize = 1
    StreamSize = 1
    MaxEvents = 2
SPECIFICATION Spec
INVARIANTS
    PipelineInv
    NoGaps
    InOrder
PROPERTIES
    EventsArrive
CHECK_DEADLOCK FALSE
