SPECIFICATION FairSpec
CONSTANTS
    r1 = r1
    r2 = r2
    asset = asset
    assignment = assignment
    Run = {r1, r2}
    Task = {t1, t2}
    NoTask = NoTask
    Item = {asset}
    Steps <- FourEyes
    Triggered <- AsksForSome
    Supplied = {}
    HasFeedback = TRUE
    HasSender = TRUE
    MayRaise = TRUE
    TTL = 1
    MaxTime = 1
    MaxClicks = 2
    MaxCrashes = 1
INVARIANT WrittenOnlyIfApproved
INVARIANT DecisionInHand
PROPERTY DecisionTakesEffect
\* A run may wait for a decision for ever.
CHECK_DEADLOCK FALSE
