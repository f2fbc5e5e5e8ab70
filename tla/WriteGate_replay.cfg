SPECIFICATION Spec
CONSTANTS
    x = x
    y = y
    turtle = turtle
    xml = xml
    Verdict <- MCVerdict
    Caller = {c1}
    Domain = {d1, d2}
    Data = {x}
    Format = {turtle}
    NumShapes = 1
    TTL = 4
    TicksPerSecond = 2
    Drift = 1
    MaxTime = 6
    MaxRestarts = 1
    MaxMints = 2
    MaxWrites = 3
    MayReboot = TRUE
    HasNeo4j = FALSE
    HasPolicy = TRUE
    MaxPerSession = 2
    MaxPerMinute = 1
    Minute = 3
INVARIANTS TypeOK BoundToValidation QuotaHolds ReuseOnlyAfterTTL ReuseOnlyAtTheBoundary LedgerIsRecent
CHECK_DEADLOCK FALSE
