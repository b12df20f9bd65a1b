\* One router watched by two runs of the check with a test message beside them, a
\* limit of one; one router whose clients are asked for; two routers behind which the
\* same private address is another customer.
SPECIFICATION JobsSpec
INVARIANTS DailyLimit OneAlertPerOutage ListsAreAnswers OneCustomer SearchStaysWithCustomer AddressesBounded
PROPERTIES SilenceReported StatusFollows SyncEnds
CONSTANTS
    Routers = {w1}
    NoRouter = NoRouter
    Handlers = {h1}
    Checks = {k1, k2}
    Tests = {q1}
    DailyMax = 1
    MaxDays = 1
    MaxEdits = 1
    MaxFaults = 1
    MapRouters = {m1}
    NoMapRouter = NoMapRouter
    HttpPorts = 2
    ApiPorts = 2
    MaxRows = 1
    MaxSentences = 2
    r1 = r1
    r2 = r2
    home = home
    wan = wan
    mac1 = mac1
    ann = ann
    Ann = Ann
    c1 = c1
    c2 = c2
    Servers = {r1, r2}
    Ips = {home, wan}
    Macs = {mac1}
    Users = {Ann}
    None = None
    PrivateIps = {home}
    Gateways = {wan}
    Names = {mac1, ann}
    Lower <- MCLower
    Customers = {c1, c2}
    Of <- MCOf
    PruneAt = 2
    PruneOver = 0
CHECK_DEADLOCK FALSE
