\* 2 message codes and 2 update numbers, so that exhaustion and wrap-around happen.
CONSTANTS
    a = a
    b = b
    c = c
    m = m
    None = None
    Ids <- MCIds
    MessageIds = {m}
    Scopes = {2, 3}
    Alerts <- MCAlerts
    MessageCodes = 2
    UpdateNumbers = 2
SPECIFICATION Spec
INVARIANTS
    TypeOK
    DenseCodes
    SerialsUnique
    NoForeignStop
    DurableBeforeDelivery
PROPERTY RetryRepeatable
