CONSTANTS
    None = None
    Pending = Pending
    Done = Done
    Stations = {sa, sb}
    Visits = {v1, v2}
    Mutations = {m1}
    MaxVersion = 1
    MaxTroubles = 1
SPECIFICATION FairSpec
INVARIANTS
    OneStream
    HeardIsShown
PROPERTIES
    ShowsCurrent
    StreamReturns
CHECK_DEADLOCK FALSE
