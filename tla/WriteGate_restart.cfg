SPECIFICATION Spec
CONSTANTS
    x = x
    y = y
    turtle = turtle
    xml = xml
    Verdict <- MCVerdict
    Caller = {c1, c2}
    Domain = {d1}
    Data = {x, y}
    Format = {turtle}
    NumShapes = 2
    TTL = 1
    TicksPerSecond = 1
    Drift = 0
    MaxTime = 2
    MaxRestarts = 1
    MaxMints = 2
    MaxWrites = 2
    MayReboot = FALSE
    HasNeo4j = TRUE
    HasPolicy = FALSE
    MaxPerSession = 3
    MaxPerMinute = 2
    Minute = 2
INVARIANTS StoredConforms WrittenSoonAfterValidation
PROPERTIES KeepsStorePromise
CHECK_DEADLOCK FALSE
