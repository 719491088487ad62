\* Two workers, one Echo job, no crash: a lock that goes stale is enough.
SPECIFICATION Spec
CONSTANTS
    p1 = p1
    p2 = p2
    Processes = {p1, p2}
    WorkerId <- OwnId
    Events = {1}
    Kind <- EchoKind
    NoWorker = NoWorker
    NoEvent = NoEvent
    MaxAttempts = 2
    BatchLimit = 1
    MaxFaults = 0
INVARIANTS
    MeterMatchesCompletion
