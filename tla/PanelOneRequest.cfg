CONSTANTS
    None = None
    Keys = {k1}
    Threads = {t1}
    Procs = {p1, p2}
    Requests <- AllRequests
    MaxDeaths = 1
SPECIFICATION PanelSpec
SYMMETRY ProcSymmetry
INVARIANTS
    LiveIsWanted
    CreateStartsFresh
PROPERTIES
    ImplementsDirectory
    DeleteIsComplete
    StopIsComplete
