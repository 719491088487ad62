\* Two sources and the curators, two values, four claims, two requests at a time.
SPECIFICATION Spec
CONSTANTS
    ClaimIds = {1, 2, 3, 4}
    Values = {v, w}
    A = A
    B = B
    record = record
    Feeds <- MCFeeds
    Curator = Curator
    NoRecord = NoRecord
    NoClaim = NoClaim
    Elsewhere = Elsewhere
    NoValue = NoValue
    Processes = {p, q}
    NoProcess = NoProcess
    MaxVersion = 4
SYMMETRY Symmetry
INVARIANTS
    WinnerActive
    DisputeQueued
PROPERTIES
    LineageKept
    NoLostDecision
CHECK_DEADLOCK FALSE
