SPECIFICATION Spec
CONSTANTS
    r1 = r1
    r2 = r2
    asset = asset
    assignment = assignment
    Run = {r1, r2}
    Task = {t1, t2}
    NoTask = NoTask
    Item = {asset, assignment}
    Steps <- Onboarding
    Triggered <- AsksForOne
    Supplied = {assignment}
    HasFeedback = TRUE
    HasSender = TRUE
    MayRaise = TRUE
    TTL = 1
    MaxTime = 1
    MaxClicks = 2
    MaxCrashes = 1
INVARIANT TypeOK
INVARIANT WrittenOnlyIfApproved
INVARIANT RejectionStops
INVARIANT OutcomeIsTrue
PROPERTY FinalStays
PROPERTY TablesMove
PROPERTY KeepsProtocol
\* A run may wait for a decision for ever.
CHECK_DEADLOCK FALSE
