SPECIFICATION Spec
CONSTANTS
    x = x
    y = y
    turtle = turtle
    xml = xml
    Verdict <- MCVerdict
    Caller = {c1}
    Domain = {d1}
    Data = {x}
    Format = {turtle}
    NumShapes = 1
    TTL = 2
    TicksPerSecond = 1
    Drift = 0
    MaxTime = 1
    MaxRestarts = 1
    MaxMints = 2
    MaxWrites = 2
    MayReboot = FALSE
    HasNeo4j = TRUE
    HasPolicy = FALSE
    MaxPerSession = 3
    MaxPerMinute = 2
    Minute = 2
INVARIANTS SingleUse
CHECK_DEADLOCK FALSE
