\* As event_store.cfg.  One property at a time: the first violation ends the run, so
\* put the one to be reproduced in place of the one that is active.
SPECIFICATION Spec
CONSTANTS
    p1 = p1
    p2 = p2
    s1 = s1
    a = a
    b = b
    r1 = r1
    r2 = r2
    Events = {1, 2}
    Sources = {s1}
    Values = {a, b}
    Rows = {r1, r2}
    Processes = {p1, p2}
    NoEvent = NoEvent
    Missing = Missing
    NoRow = NoRow
    NoProcess = NoProcess
    NoReview = NoReview
    Disputed = Disputed
    Reviewable <- OnePair
SYMMETRY Symmetry
PROPERTY
    ReviewFinal
\* INVARIANT TombstoneInserts
