\* Two overlapping calls, two failures to the threshold, a channel of one.
CONSTANTS
    h1 = h1
    h2 = h2
    None = None
    Keys = {k1}
    Handlers = {h1, h2}
    Threshold = 2
    TargetCap = 1
    MaxStored = 2
SPECIFICATION Spec
INVARIANTS
    CountsOnlyItsTicket
    QueuedIsOnItsWay
SYMMETRY MCSymmetry
