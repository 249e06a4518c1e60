\* Two senders, three requests, up to two requests unanswered.
CONSTANTS
    p = p
    h = h
    c1 = c1
    c2 = c2
    j1 = j1
    j2 = j2
    None = None
    Senders = {p, h}
    Handlers = {h}
    Requests <- AllRequests
    Conns = {c1, c2}
    Jobs = {j1, j2}
    MaxOutstanding = 1
    MaxInbox = 2
    ReconnectMin = 1
    ReconnectMax = 2
SYMMETRY Identities
SPECIFICATION SafetySpec
INVARIANTS
    TypeOK
    SlotHasOwner
    SuccessIsGenuine
