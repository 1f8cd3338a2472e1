\* The same with an outage: two runs that write output/ at once.
CONSTANTS
    Projects = {pr1}
    NoProject = NoProject
    Pods = {p1}
    NoPod = NoPod
    Types = {"index"}
    MaxJobs = 2
    Cap = 1
    MaxCrashes = 0
    MaxOutages = 1
    MaxFaults = 1
    Readers = {r1}
    Documents = {d1}
    MaxQueries = 1
SPECIFICATION GuardSpec
SYMMETRY Symmetry
INVARIANTS
    LinksAreOfTheBaseline
