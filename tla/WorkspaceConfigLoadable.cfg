CONSTANTS
    Editors = {e1, e2}
    NoEditor = NoEditor
    plain = plain
    keyed = keyed
    Contents = {plain, keyed}
    References <- KeyedReferences
    FirstContent = plain
    Keys = {k1, k2}
    Values = {good}
    Operations = {"save", "set", "delete"}
    MaxTicks = 2
    MaxMishaps = 0
SPECIFICATION ConfigSpec
SYMMETRY Symmetry
CHECK_DEADLOCK FALSE
INVARIANTS
    ReferencedKeysAreSet
