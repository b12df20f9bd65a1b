\* One page, two routers, caps so small that every trimming happens and an answer
\* passes over rows; two ports,
\* requests to save them that overlap, one fault; lists of three rows on pages of
\* one, with two requests.
SPECIFICATION ScreensSpec
INVARIANTS BufferBacked ShownIsKnown NothingSkipped FollowsTheRow ShownIsStored WalkSkipsNothing
PROPERTIES RestartKeepsASavedState
CONSTANTS
    Servers = {s1, s2}
    NoServer = NoServer
    Pages = {p1}
    MaxRows = 3
    MaxHandlers = 2
    PageSize = 1
    ShownMax = 1
    KnownMax = 2
    KnownKeep = 2
    BufferMax = 2
    MaxClicks = 2
    MaxRefreshes = 1
    MaxLosses = 0
    MaxRestarts = 1
    MaxOverlaps = 2
    Texts = {1}
    Ports = {1122, 8728}
    DefaultText = 1
    DefaultPort = 1122
    Icons = {png}
    Keys = {k1}
    None = None
    Routers = {r1}
    Clerks = {c1, c2}
    MaxSettingRequests = 2
    MaxSettingFaults = 1
    MaxEdits = 1
    Tags = {g1}
    AnyTag = AnyTag
    PageLength = 1
    LastPage = 2
    Loads = {l1, l2}
    MaxLogged = 3
    MaxLoads = 3
    MaxTroubles = 1
SYMMETRY Symmetry
CHECK_DEADLOCK FALSE
