\* Both TLS modes, three alerts, up to two messages unread.  Run may return.
CONSTANTS
    Alerts <- MCAlerts
    ReconnectMin = 1
    ReconnectMax = 3
    MaxInbox = 2
    MaxFaults = 2
SPECIFICATION Spec
CHECK_DEADLOCK FALSE
INVARIANTS
    TypeOK
    OnlyInsideTLS
    NoAlertPassedOver
PROPERTIES
    AlertGetsThrough
