\* An update that is refused and retried.
CONSTANTS
    c = c
    d = d
    v = v
    w = w
    x = x
    y = y
    z = z
    None = None
    Cells = {c, d}
    NumPeers = 2
    Ids <- UpdatedIds
    Alerts <- UpdatedAlerts
    MaxNumber = 2
    MaxRestarts = 0
SPECIFICATION Spec
INVARIANT Stoppable
