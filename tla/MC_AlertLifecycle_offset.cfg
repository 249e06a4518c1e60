\* An alert whose expiry is written one hour behind UTC.
CONSTANTS
    x = x
    y = y
    z = z
    None = None
    Ids <- MCIds
    Alerts <- OffsetAlerts
    MaxTime = 2
SPECIFICATION Spec
PROPERTY NeverRemovedEarly
