\* One cookie name, two values, two ttls and a clock longer than both.
CONSTANTS
    cflb = cflb
    oailb = oailb
    v1 = v1
    v2 = v2
    None = None
    Names = {cflb}
    Values = {v1, v2}
    TTLs = {1, 3}
    MaxTime = 4
SPECIFICATION Spec
INVARIANTS
    AgeIsReal
    UpdatesSurvive
PROPERTIES
    ResendingNeverRenews
    NewestWins
SYMMETRY MCSymmetry
