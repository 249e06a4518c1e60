\* Two octets of the code's page constants are smaller here: 8 octets (82), 2 pages (15).
CONSTANTS
    None = None
    PageOctets = 8
    MaxPages = 2
    DefaultMessageIdentifier = 4352
    Overrides <- MCOverrides
    PLMN <- MCPlmn
    Period = 30
    Broadcasts = 4
    AllowPLMNWide = TRUE
    ParseUint <- MCParseUint
    FormatUint <- Dec
    Scenarios <- MCScenarios
SPECIFICATION Spec
CHECK_DEADLOCK FALSE
INVARIANTS
    Understood
    CutShortIsRefused
    OnAirIsTarget
    TextSurvives
    TestsStayTests
    AreaIsAlerted
