\* One PLMN, two cells, two concurrent requests and the preparation of a message.
CONSTANTS
    Plmns = {"home"}
    Ecis = {1, 2}
    Zones = {"zone"}
    Tags = {"SAME", "same"}
    Canonical <- CanonicalTags
    Written = {"SAME"}
    Forms <- MCForms
    Files <- MCFiles
    TagFiles <- MCTagFiles
    Handlers = {h1, h2}
    MaxImports = 1
    MaxId = 2
    None = None
    Requests <- MCRequests
    OwnPlmn = "home"
    AllowPLMNWide = TRUE
SYMMETRY Symmetric
SPECIFICATION TargetingSpec
INVARIANTS
    TargetingTypeOK
    VersionIffCompleted
    TagsNameTheirCell
    TargetIsMeantArea
PROPERTIES
    TagsSurviveImport
