CONSTANTS
    None = None
    Users = {ann, bob}
    Admins = {t1}
    Tabs = {t1, t2}
    MaxLogins = 2
    MaxChanges = 1
SPECIFICATION FairSpec
ACTION_CONSTRAINT FewRequests
INVARIANTS
    ToldIsListed
PROPERTIES
    EndsAtLogin
    OwnStepsAgree
