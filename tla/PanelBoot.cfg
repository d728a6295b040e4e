CONSTANTS
    None = None
    Keys = {k1, k2}
    Threads = {t1}
    Procs = {p1, p2}
    Requests = {"create"}
    MaxDeaths = 2
SPECIFICATION FairPanelSpec
PROPERTIES
    BootIsThorough
    BootEnds
