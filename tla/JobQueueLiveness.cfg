\* Two projects and the single slot of a pod, which crashes or loses the
\* database, for an index job and a test run: every running row comes to an end,
\* and the queue drains.
CONSTANTS
    Projects = {pr1, pr2}
    NoProject = NoProject
    Pods = {p1}
    NoPod = NoPod
    Types = {"index", "test_run"}
    MaxJobs = 2
    Cap = 1
    MaxCrashes = 1
    MaxOutages = 1
    MaxFaults = 1
SPECIFICATION FairSpec
ACTION_CONSTRAINT OneOfEach
PROPERTIES
    StuckRowsEnd
    QueueDrains
