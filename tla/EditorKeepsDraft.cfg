CONSTANTS
    None = None
    Pending = Pending
    Texts = {ta, tb}
    Starter = ta
    Requests = {r1}
    MaxGen = 1
    MaxTroubles = 1
SPECIFICATION FairSpec
INVARIANTS
    ScriptIsOfThisStation
PROPERTIES
    DraftIsKept
    ProcessConverges
