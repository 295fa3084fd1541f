\* One saver, no YAML: a save and a reconfiguration overlap.
CONSTANTS
    a1 = a1
    p1 = p1
    Choices <- MCChoices
    Yamls <- MCNoYaml
    Savers = {s1}
    Unset = Unset
    Nobody = Nobody
    Marker = Marker
    Garbled = Garbled
    None = None
SPECIFICATION Spec
INVARIANTS
    SavedIsInForce
