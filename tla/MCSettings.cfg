\* Two savers and a host that reconfigures whenever it likes.
CONSTANTS
    a1 = a1
    p1 = p1
    Choices <- MCChoices
    Yamls <- MCYamls
    Savers = {s1, s2}
    Unset = Unset
    Nobody = Nobody
    Marker = Marker
    Garbled = Garbled
    None = None
SPECIFICATION Spec
INVARIANTS
    SavedSurvives
    UndisturbedSaveHolds
