\* Two addresses, requests that overlap, every fault once.
SPECIFICATION FairRegistrySpec
INVARIANTS FileIsTable RestoreCompletes LongWasLicensed
PROPERTIES RestoredOnce ChangesReachDisk
CONSTANTS
    Urls = {u1, u2}
    NoUrl = NoUrl
    Ports = {p1, p2}
    Entered = {p1}
    NoPort = NoPort
    Requests = {q1, q2}
    MaxIds = 4
    MaxRequests = 2
    MaxVerdicts = 1
    MaxFaults = 2
CHECK_DEADLOCK FALSE
