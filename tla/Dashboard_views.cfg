SPECIFICATION Spec
CONSTANTS
    Tab = {tab}
    Run = {r1, r2}
    Limit = 1
    NoRow = NoRow
    NoData = NoData
    MaxMoments = 6
SYMMETRY Runs
INVARIANT TypeOK
INVARIANT ShownIsOneMoment
INVARIANT ShownStaysTrue
INVARIANT MissingBehindNewer
