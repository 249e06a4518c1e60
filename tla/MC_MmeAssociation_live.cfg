\* One request; the response timer is used by EverySendReturns only.
CONSTANTS
    p = p
    h = h
    c1 = c1
    c2 = c2
    j1 = j1
    j2 = j2
    None = None
    Senders = {p, h}
    Handlers = {h}
    Requests <- OneWrite
    Conns = {c1, c2}
    Jobs = {j1, j2}
    MaxOutstanding = 1
    MaxInbox = 2
    ReconnectMin = 1
    ReconnectMax = 1
SPECIFICATION Spec
PROPERTIES
    NewsReachesCaller
    AssociationReturns
    EverySendReturns
