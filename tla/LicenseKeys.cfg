\* Two keys, one administrator's request at a time beside the background refresh.
\* A server without a key may have nothing to do: deadlock is not checked.
SPECIFICATION FairSpec
INVARIANTS LockedUntilConfirmed NoGraceAfterNegative
PROPERTIES RefreshEnds ActiveUnlocks
CONSTANTS
    Keys = {k1, k2}
    NoKey = NoKey
    Requests = {q1}
    Refresher = refresher
    MaxActivations = 1
    MaxDeactivations = 1
    MaxVerdicts = 1
    MaxLosses = 1
    MaxRestarts = 1
CHECK_DEADLOCK FALSE
