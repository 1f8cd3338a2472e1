\* Three tabs under the lock and one answer lost, or three clients of any kind, two at
\* a time.  Three users, two of them created, one custom role, one administrator at a
\* time.  Two first requests of one address.  Two members, one custom project role.
\* Two projects of one name, one job, two requests.  Two tables, written two times
\* under two queries.  Six bytes of log in characters of three, of which a read of four cuts one.
\* Three keys of a window that remembers two.
CONSTANTS
    Requests = {t1, t2, t3}
    MaxLogins = 1
    MaxChain = 2
    Locks = TRUE
    Logouts = TRUE
    MaxLosses = 1
    Clients = {TRUE, FALSE}
    Users = {u1, u2, u3}
    FirstUser = u1
    CustomRoles = {custom}
    UserAdmin = UserAdmin
    Admins = {q1}
    Addresses = {e1}
    Resolvers = {c1, c2}
    People = {u1, u2}
    Owner = u1
    ProjectRoles = {custom}
    NoRole = NoRole
    Changers = {c1, c2}
    Projects = {pr1, pr2}
    NoProject = NoProject
    MaxJobs = 1
    Callers = {c1, c2}
    NoCaller = NoCaller
    Tables = {tab1, tab2}
    Askers = {a1, a2}
    FrameSizes <- Sizes
    Budget = 3
    Streams = {a1}
    Methods = {"basic", "local"}
    TablesFor <- FramesOf
    MaxChunks = 1
    Widths = {3}
    MaxLog = 6
    ChunkBytes = 4
    Keys = {k1, k2, k3}
    NoKey = NoKey
    Logins = {c1, c2}
    Limit = 2
    Window = 2
    MaxKeys = 2
SPECIFICATION ServiceSpec
SYMMETRY Symmetry
CHECK_DEADLOCK FALSE
INVARIANTS
    ReuseNeedsALostAnswer
    StoredTokenIsCurrent
    ServiceTypeOK
    SomebodyManagesUsers
    FirstLoginsDoNotFail
    PermissionsAgree
    WorkspacesFollowTheRows
    FramesAreWhatTheyClaim
    StreamsEndOnce
    TailIsComplete
    AttemptsAreBounded
PROPERTIES
    AbsorbedWithinGrace
    LoginsAreSessions
