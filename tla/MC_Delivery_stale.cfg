\* A restart is handled while a cancel is being delivered.
CONSTANTS
    c = c
    d = d
    v = v
    w = w
    x = x
    y = y
    z = z
    None = None
    Cells = {c, d}
    NumPeers = 2
    Ids <- CancelledIds
    Alerts <- CancelledAlerts
    MaxNumber = 0
    MaxRestarts = 1
SPECIFICATION Spec
INVARIANT CancelledIsOff
