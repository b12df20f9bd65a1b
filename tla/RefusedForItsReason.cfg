\* An administrator edits his own account.
SPECIFICATION AdminSpec
INVARIANTS RefusedForItsReason
CONSTANTS
    Own = own
    Entries = {own, e2}
    EntryNames = {n1, n2}
    Parts = {p1}
    Asks = {a1, a2}
    Nothing = Nothing
    MaxAsks = 2
    MaxUpsets = 1
CHECK_DEADLOCK FALSE
