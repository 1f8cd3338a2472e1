\* Two names and two texts; two concurrent requests at the files, three runs over
\* the snapshots, two concurrent editors of the configuration and two keys, and
\* two jobs of one project under the sweep.  Requests are requests of either part,
\* so that one small symmetry group serves both.
CONSTANTS
    a = a
    b = b
    Names = {a, b}
    Place <- PlaceOfNames
    Texts = {x, y}
    Absent = Absent
    Clients = {r1, r2}
    NoClient = NoClient
    Quotas = {1, 2}
    MaxWindow = 3
    MaxAsked = 3
    MaxFailed = 1
    MaxRuns = 3
    Editors = {r1, r2}
    NoEditor = NoEditor
    plain = plain
    keyed = keyed
    Contents = {plain, keyed}
    References <- KeyedReferences
    FirstContent = plain
    Keys = {k1, k2}
    Values = {good}
    Operations = {"save", "set", "delete", "enqueue", "query", "test_run"}
    MaxTicks = 3
    MaxMishaps = 1
    Projects = {pr1}
    NoProject = NoProject
    MaxJobs = 2
    SucceededDays = 0
    FailedDays = 1
    KeepLatest = 1
SPECIFICATION WorkspaceSpec
SYMMETRY Symmetry
CHECK_DEADLOCK FALSE
INVARIANTS
    WorkspaceTypeOK
    CachedHashIsTheFile
    StartSnapshotIsTheInput
    UploadsStayWithinQuota
    StatesMirrorTheIndex
    HistoryEndsWithTheFile
    MemoIsCurrent
    RunConfigMatchesRevision
PROPERTIES
    EvidenceIsKept
    NoEditIsLost
    FrozenWhileIndexing
