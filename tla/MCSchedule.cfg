SPECIFICATION FairSpec
CONSTANTS
    Keys = {k1, k2}
    None = None
    DefaultInterval = 1
    DefaultTTL = 4
    DefaultLead = 3
    MaxWork = 1
    MaxAge = 4
    QueueSize = 1
    RawConfigs <- MCRawConfigs
INVARIANTS
    NoGap
    ShownIsTheTimer
PROPERTIES
    RenewsAtDocumentedAge
    SweepsRecur
    TriggersServed
