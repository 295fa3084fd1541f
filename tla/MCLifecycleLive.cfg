\* Liveness and refinement: one goroutine slot is enough, OneWorker says.
CONSTANTS
    r1 = r1
    r2 = r2
    r3 = r3
    k1 = k1
    k2 = k2
    None = None
    Requests = {r1, r2}
    Keys = {k1}
    KeyOf <- MCKeyOf
    Workers = {w1}
    Callers = {c1}
    DemandCap = 1
    TargetCap = 1
SPECIFICATION FairSpec
PROPERTIES
    ImplementsSingleFlight
    CallersReturn
    WaitersReturn
