CONSTANTS
    None = None
    Keys = {k1}
    Threads = {t1, t2}
    Procs = {p1, p2}
SPECIFICATION FairSpec
ACTION_CONSTRAINT CrossedCallsEnd
INVARIANTS
    OneProcessPerKey
    RunningIsTracked
    RestartNotRefused
    CrashIsUnasked
PROPERTIES
    ImplementsSupervisor
    StopTerminates
    DeathIsRecorded
    StopLeavesDead
