\* An alert, its update and their cancel; expiry at times 1 and 2.
CONSTANTS
    x = x
    y = y
    z = z
    None = None
    Ids <- MCIds
    Alerts <- ChainAlerts
    MaxTime = 2
SPECIFICATION Spec
INVARIANTS
    TypeOK
    IndexIsBacked
    StoreIsIndexed
    LossIsAudited
PROPERTIES
    NoResurrection
    NeverRemovedEarly
    ExpiredAlertsLeave
    ImplementsRegister
