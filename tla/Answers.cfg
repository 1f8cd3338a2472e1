\* One project rebuilt twice beside a reader: two runs are one baseline and one
\* rebuild that fails half way or succeeds, two documents make a memo matter,
\* two queries make a cached frame matter.  Beside it two curators of a set of two
\* questions, for which three rows and two texts stand, over two test runs.
CONSTANTS
    Projects = {pr1}
    NoProject = NoProject
    Pods = {p1}
    NoPod = NoPod
    Types = {"index"}
    MaxJobs = 2
    Cap = 1
    MaxCrashes = 0
    MaxOutages = 0
    MaxFaults = 1
    Readers = {r1}
    Documents = {x, y}
    MaxQueries = 2
    Curators = {c1, c2}
    NoCurator = NoCurator
    Texts = {x, y}
    NoText = NoText
    MaxLive = 2
    MaxQuestions = 3
    MaxRuns = 2
    MaxResults = 3
    MaxUpsets = 2
SPECIFICATION AnswersSpec
SYMMETRY Symmetry
CHECK_DEADLOCK FALSE
INVARIANTS
    AnswersTypeOK
    LinksAreOfTheBaseline
    HistoryKeepsItsQuestions
    MatrixShowsEveryResult
    AddsDoNotCollide
    ResultsTellTheRun
PROPERTIES
    ManifestIsTheLiveSet
    ConcludedRunsAreFinal
