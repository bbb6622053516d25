CONSTANTS
    MonitorCall = {m1, m2}
    RingSize = 2
    ChSize = 2
    Level = {1, 2}
    WARN = 2
    LogLevel = 2
    Syslog = {TRUE, FALSE}
    MaxLines = 5
SPECIFICATION LogSpec
INVARIANTS
    LogInv
    SkipsAreWarned
CHECK_DEADLOCK FALSE
