CONSTANTS
    None = None
    Slugs = {s1}
    Watches = {w1, w2, w3}
    MaxTroubles = 2
    MaxChanges = 2
SPECIFICATION FairSpec
INVARIANTS
    EventsWin
PROPERTIES
    Recovers
    GoroutinesEnd
    DroppedHasCancel
    ImplementsFeeds
