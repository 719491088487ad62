SPECIFICATION Spec
CONSTANTS
    Callers = {r1, r2}
    NoDoc = NoDoc
    NoSub = NoSub
    NoRow = NoRow
    Gone = Gone
    Idle = Idle
    Blank = Blank
    Vague = Vague
    None = 0
    Docs = {1, 2, 3, 4, 5}
    KindOf <- MCKindOf
    Keys = {1, 2}
    Places = {1, 2}
    Texts = {1}
    Existing <- MCExisting
    _CHANGELOG_LIST_MAX_LIMIT = 2
    Stale = 0
    MaxVersion = 7
    MaxWrites = 15
    AttributionIds = {1, 2}
    HfacsEvents = {1}
    CategoryOf <- MCCategoryOf
    HfacsValues = {1, 2}
    FactorIds = {1, 2}
    InteractionIds = {1, 2}
    SheloEvents = {1, 2}
    SheloValues = {1}
    SheloInteractionKind = {1}
    MaxEdits = 2
    OrionEvents = {"e1", "e2"}
    Projections <- MCProjections
    Normal <- MCNormal
    Codes = {"EHAM"}
    Claimed = {"n-1", "n1", "klm", "EHAM", "schiphol"}
    EntityIds = {1, 2, 3, 4, 5, 6, 7, 8}
    MaxRuns = 3
    Kinds = {1, 2, 3, 4}
    Times = {1, 2}
    Projected <- MCProjected
    Extractors = {"extraction"}
    Detectors = {"detection"}
    ChangeTypes = {"FETCH_FAILED", "CONTENT_CHANGED"}
    Decisions = {"DISMISSED"}
    ConflictBatches <- MCConflictBatches
    Curated = {1}
    RecentLimit = 2
    SpikeThreshold = 2
    MaxInputs = 3
    MaxReviews = 1
INVARIANT NoDuplicateEntities
CHECK_DEADLOCK FALSE
