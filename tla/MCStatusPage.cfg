SPECIFICATION Spec
CONSTANTS
    Accounts = {a1, a2}
    Alias <- MCAlias
    UserKeys = {key1}
    NoKey = NoKey
    NoPage = NoPage
    Nobody = Nobody
    None = None
    MaxFlight = 2
    MaxGeneration = 3
SYMMETRY Symmetry
INVARIANTS
    AlwaysAWayOn
    SelectionIsWhatWasChecked
    AliasesResolve
PROPERTIES
    LatePagesDropped
CHECK_DEADLOCK FALSE
