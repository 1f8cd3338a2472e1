\* Two pods, one of which crashes or loses the database. Over two jobs of one
\* project results, cancels and reconciliation race; over three projects with a
\* job each the pods count and claim for one slot.
CONSTANTS
    Projects = {pr1, pr2, pr3}
    NoProject = NoProject
    Pods = {p1, p2}
    NoPod = NoPod
    Types = {"index", "update", "test_run"}
    MaxJobs = 3
    Cap = 1
    MaxCrashes = 1
    MaxOutages = 1
    MaxFaults = 1
SPECIFICATION RacingSpec
SYMMETRY Symmetry
CHECK_DEADLOCK FALSE
INVARIANTS
    OverCapAtMostPodsMinusOne
    BaselineIsEvidence
    CancelledBeforeStartLeavesNoTrace
    TestRunClosesWithItsJob
    CurrentBaselineMatchesOutput
PROPERTIES
    ImplementsLifecycle
