CONSTANTS
    None = None
    Urls = {ua, ub}
    MaxTroubles = 3
    Tracks = {song, relay}
    Seekable = {song}
    Elapsed = {0, 1}
SPECIFICATION NowFair
INVARIANTS
    ProofIsOfThisSource
    OffsetIsCurrent
    TargetIsHeld
PROPERTIES
    ListenIsAnswered
