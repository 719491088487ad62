\* Three fetches of one target: a body, another one, and the first again.
SPECIFICATION Spec
CONSTANTS
    p1 = p1
    p2 = p2
    t1 = t1
    a = a
    b = b
    Jobs = {1, 2, 3}
    Targets = {t1}
    TargetOf <- ThreeFetches
    Contents = {a, b}
    Processes = {p1}
    NoProcess = NoProcess
    NoJob = NoJob
    NoContent = NoContent
    MaxAttempts = 1
    RecoverLimit = 1
    MaxCrashes = 0
PROPERTIES
    ChangedContentIsReported
