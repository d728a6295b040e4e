CONSTANTS
    None = None
    Keys = {k1}
    Threads = {t1, t2}
    Procs = {p1, p2}
SPECIFICATION Spec
INVARIANTS
    OneProcessEver
