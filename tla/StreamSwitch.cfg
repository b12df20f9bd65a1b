\* The router is switched while an answer is on its way.
SPECIFICATION Spec
INVARIANTS OnlySelected
CONSTANTS
    Servers = {s1, s2}
    NoServer = NoServer
    Pages = {p1}
    MaxRows = 1
    MaxHandlers = 1
    PageSize = 2
    ShownMax = 2
    KnownMax = 4
    KnownKeep = 4
    BufferMax = 2
    MaxClicks = 2
    MaxRefreshes = 0
    MaxLosses = 0
    MaxRestarts = 0
    MaxOverlaps = 2
CHECK_DEADLOCK FALSE
