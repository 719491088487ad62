\* Two sources, two values, three claims, one request at a time.
SPECIFICATION Spec
CONSTANTS
    ClaimIds = {1, 2, 3}
    Values = {v, w}
    A = A
    B = B
    record = record
    Feeds <- MCFeeds
    Curator = Curator
    NoRecord = NoRecord
    NoClaim = NoClaim
    Elsewhere = Elsewhere
    NoValue = NoValue
    Processes = {p}
    NoProcess = NoProcess
    MaxVersion = 4
SYMMETRY Symmetry
PROPERTY
    DisputeRestored
CHECK_DEADLOCK FALSE
