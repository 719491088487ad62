\* Two processes that share a worker id, an Echo row and a CLAIMS_UPDATED row.
SPECIFICATION Spec
CONSTANTS
    p1 = p1
    p2 = p2
    Processes = {p1, p2}
    WorkerId <- SharedId
    Events = {1, 2}
    Kind <- MixedKind
    NoWorker = NoWorker
    NoEvent = NoEvent
    MaxAttempts = 3
    BatchLimit = 2
    MaxFaults = 2
SYMMETRY Symmetry
INVARIANTS
    ProjectedOnce
    EchoConsistent
PROPERTIES
    ImplementsQueue
