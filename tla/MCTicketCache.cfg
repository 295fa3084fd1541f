\* One key (keys do not interact), every kind of ticket, two ttls.
CONSTANTS
    k1 = k1
    early = early
    late = late
    future = future
    opaque = opaque
    None = None
    Keys = {k1}
    Tickets = {early, late, future, opaque}
    IssueOf <- MCIssueOf
    TTLs = {1, 2}
    Skew = 1
    MaxTime = 3
SPECIFICATION Spec
INVARIANTS
    NeverRenewed
    IssueTimesMatchMode
    CrashLosesNothingWritten
PROPERTIES
    NoRollback
