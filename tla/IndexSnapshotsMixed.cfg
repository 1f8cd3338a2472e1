\* A failed index, an edit and an update: three runs, whatever title rule.
CONSTANTS
    Names = {a, b}
    Texts = {x, y}
    Absent = Absent
    MaxRuns = 3
SPECIFICATION SnapshotsSpec
SYMMETRY Symmetry
CHECK_DEADLOCK FALSE
INVARIANTS
    IndexedMeansIngested
