\* Three accounts, one role besides SuperAdmin, requests that overlap; pages with two
\* entries, two names, two requests and one disturbance.
SPECIFICATION AdministrationSpec
INVARIANTS SomeoneHolds SomeoneCanAdminister ListIsStored PartsAsChosen
PROPERTIES GivenBySuperAdmin SentToItsEntry
CONSTANTS
    Users = {root, ann, bob}
    Seeded = root
    Undeletable = {root}
    Roles = {SuperAdmin, staff}
    SuperAdmin = SuperAdmin
    Requests = {q1, q2}
    Nobody = Nobody
    NoRole = NoRole
    MaxRequests = 2
    Own = own
    Entries = {own, e2}
    EntryNames = {n1, n2}
    Parts = {p1}
    Asks = {a1, a2}
    Nothing = Nothing
    MaxAsks = 2
    MaxUpsets = 1
SYMMETRY Symmetry
CHECK_DEADLOCK FALSE
