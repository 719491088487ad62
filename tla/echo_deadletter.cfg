\* One worker, one Echo job, one crash.
SPECIFICATION FairSpec
CONSTANTS
    p1 = p1
    p2 = p2
    Processes = {p1}
    WorkerId <- OwnId
    Events = {1}
    Kind <- EchoKind
    NoWorker = NoWorker
    NoEvent = NoEvent
    MaxAttempts = 2
    BatchLimit = 1
    MaxFaults = 1
PROPERTIES
    DeadLetterReachesTenant
