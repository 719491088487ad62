SPECIFICATION Spec
CONSTANTS
    e1 = e1
    e2 = e2
    a = a
    b = b
    t = t
    u = u
    usa = usa
    Pages = {1, 2}
    Events = {e1, e2}
    Slugs = {a, b}
    Texts = {t, u}
    Editors = {x, y}
    Stale = 0
    MaxVersion = 6
    MaxWrites = 8
    Existing <- MCExisting
    Unsettled = {e1}
    BatchSize = 1
    NoPage = NoPage
    NoEntry = NoEntry
    NoEvent = NoEvent
    Idle = Idle
    Country <- MCCountry
    Fatalities <- MCFatalities
    Position <- MCPosition
    Queries <- MCQueries
    Boxes <- MCBoxes
    Precision = 4
    MaxPoints = 1
    MaxCells = 3
    Relations <- MCRelations
    RelatedLimit = 5
    Null = Null
SYMMETRY Symmetry
INVARIANTS
    AuditTrail
    PublicRoutesAgree
PROPERTIES
    RetractionFinal
    NoLostEdit
    ImplementsDocument
CHECK_DEADLOCK FALSE
