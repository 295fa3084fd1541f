\* Five responses against a table of two candidates.
CONSTANTS
    r1 = r1
    r2 = r2
    r3 = r3
    r4 = r4
    r5 = r5
    k1 = k1
    k2 = k2
    t1 = t1
    t2 = t2
    t3 = t3
    Absent = Absent
    Responses = {r1, r2, r3, r4, r5}
    RequestId <- MCRequestId
    KeyOf <- MCKeyOf
    HeaderOf <- MCHeaderOf
    Script <- MCScript
    Whole = {r4}
    RetryOf <- MCRetryOf
    Tickets = {t1, t2, t3}
    Capacity = 2
    StaleAfter = 1
    MaxChunk = 3
    MaxTime = 3
SPECIFICATION HarvestSpec
INVARIANTS
    HarvestTypeOK
    OnlyCompletedPromote
    CompletedPromotes
PROPERTIES
    RefusedOnlyWhenFull
CHECK_DEADLOCK FALSE
