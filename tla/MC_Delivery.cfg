\* An alert and its update, an alert beside them, a cancel of the update and of
\* the alert beside, areas that resolve to another target on the next attempt, or
\* an eNB that restarts.  The CBE may fall silent.
CONSTANTS
    c = c
    d = d
    v = v
    w = w
    x = x
    y = y
    z = z
    None = None
    Cells = {c, d}
    NumPeers = 2
    Ids <- UpdatedIds
    Alerts <- RetargetedAlerts
    MaxNumber = 2
    MaxRestarts = 1
SPECIFICATION Spec
CHECK_DEADLOCK FALSE
CONSTRAINT RetargetedOrRestarted
INVARIANTS
    TypeOK
    CancelledStaysOff
    AcceptedIsStoppable
PROPERTIES
    ActivatedEverywhere
    ActiveKeepsBroadcast
