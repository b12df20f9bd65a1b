\* Two pages on one router: they catch up in spite of faults.
\* Signing in: two logins, two attempts at a time.
SPECIFICATION BrowserSpec
INVARIANTS AttemptsBounded
PROPERTIES StreamCatchesUp BrowserSettles
CONSTANTS
    Servers = {s1}
    NoServer = NoServer
    Pages = {p1, p2}
    MaxRows = 2
    MaxHandlers = 2
    PageSize = 3
    ShownMax = 3
    KnownMax = 6
    KnownKeep = 6
    BufferMax = 3
    MaxClicks = 2
    MaxRefreshes = 0
    MaxLosses = 1
    MaxRestarts = 1
    MaxOverlaps = 2
    Logins = {ada, bea}
    Attempts = {at1, at2}
    MaxAttempts = 2
    WindowTicks = 2
    PruneBuckets = 2
    NoLogin = NoLogin
    MaxTries = 5
    MaxTurns = 2
CHECK_DEADLOCK FALSE
