\* Two events, two processes, one source with two values, two outbox rows.
SPECIFICATION Spec
CONSTANTS
    p1 = p1
    p2 = p2
    s1 = s1
    a = a
    b = b
    r1 = r1
    r2 = r2
    Events = {1, 2}
    Sources = {s1}
    Values = {a, b}
    Rows = {r1, r2}
    Processes = {p1, p2}
    NoEvent = NoEvent
    Missing = Missing
    NoRow = NoRow
    NoProcess = NoProcess
    NoReview = NoReview
    Disputed = Disputed
    Reviewable <- OnePair
SYMMETRY Symmetry
INVARIANTS
    MergeForest
    NoStrandedClaims
    Freshness
    NoRowCycle
