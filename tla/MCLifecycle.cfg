\* One host thread; three requests on two keys against a channel of one job.
CONSTANTS
    r1 = r1
    r2 = r2
    r3 = r3
    k1 = k1
    k2 = k2
    None = None
    Requests = {r1, r2, r3}
    Keys = {k1, k2}
    KeyOf <- MCKeyOf
    Workers = {w1, w2}
    Callers = {c1}
    DemandCap = 1
    TargetCap = 1
SPECIFICATION Spec
INVARIANTS
    OneFlightPerKey
    NeverClosedTwice
    WaitersAnswerable
PROPERTIES
    NoJobForACancelledWorker
SYMMETRY MCSymmetry
