\* A deactivation while a refresh is in flight.
\* A server without a key may have nothing to do: deadlock is not checked.
SPECIFICATION Spec
INVARIANTS DeactivatedIsLocked
CONSTANTS
    Keys = {k1}
    NoKey = NoKey
    Requests = {q1}
    Refresher = refresher
    MaxActivations = 0
    MaxDeactivations = 1
    MaxVerdicts = 0
    MaxLosses = 0
    MaxRestarts = 0
CHECK_DEADLOCK FALSE
