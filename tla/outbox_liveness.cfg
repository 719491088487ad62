\* Liveness needs fairness and no symmetry: own worker ids, one fault.  The second
\* row has a type no handler knows.
SPECIFICATION FairSpec
CONSTANTS
    p1 = p1
    p2 = p2
    Processes = {p1, p2}
    WorkerId <- OwnId
    Events = {1, 2}
    Kind <- EchoAndOther
    NoWorker = NoWorker
    NoEvent = NoEvent
    MaxAttempts = 2
    BatchLimit = 1
    MaxFaults = 1
PROPERTIES
    EveryRowSettles
