\* Every kind of line and every failure, to the end.
SPECIFICATION FairSpec
CONSTANTS
    Hosts = {h1}
    Servers = {s1}
    Handlers = {t1, t2}
    NoHost = NoHost
    NoServer = NoServer
    Lines = {"nat", "ppp", "bare", "pppNat"}
    Registered = {s1}
    MaxInFlight = 2
    RatePerSec = 4
    RateHosts = 2
    CacheTtl = 1
    DaySeconds = 10
    MaxClock = 0
    MaxArrivals = 3
    MaxEdits = 1
    MaxRestarts = 1
    BufferMax = 2
CHECK_DEADLOCK FALSE
INVARIANTS
    SlotAccounting
    ArchiveFollowsInsert
PROPERTIES
    SlotsDrain
