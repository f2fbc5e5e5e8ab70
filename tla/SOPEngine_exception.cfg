SPECIFICATION Spec
CONSTANTS
    r1 = r1
    r2 = r2
    asset = asset
    assignment = assignment
    Run = {r1}
    Task = {t1, t2}
    NoTask = NoTask
    Item = {asset, assignment}
    Steps <- Onboarding
    Triggered <- AsksForOne
    Supplied = {assignment}
    HasFeedback = TRUE
    HasSender = FALSE
    MayRaise = TRUE
    TTL = 1
    MaxTime = 2
    MaxClicks = 3
    MaxCrashes = 0
INVARIANT DecidedRunsReachAState
SYMMETRY Handlers
\* A run may wait for a decision for ever.
CHECK_DEADLOCK FALSE
