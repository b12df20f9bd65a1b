\* Two hosts, a router that is added and edited, two handlers: who is let in, and as whom.
SPECIFICATION Spec
CONSTANTS
    Hosts = {h1, h2}
    Servers = {s1}
    Handlers = {t1, t2}
    NoHost = NoHost
    NoServer = NoServer
    Lines = {"nat"}
    Registered = {}
    MaxInFlight = 2
    RatePerSec = 1
    RateHosts = 1
    CacheTtl = 1
    DaySeconds = 1
    MaxClock = 2
    MaxArrivals = 3
    MaxEdits = 2
    MaxRestarts = 0
    BufferMax = 1
CHECK_DEADLOCK FALSE
SYMMETRY AdmissionSymmetry
INVARIANTS
    FreshAttribution
    RateBound
    CounterExact
