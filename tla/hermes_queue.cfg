\* Three jobs of one target, two workers, two possible bodies.
SPECIFICATION FairSpec
CONSTANTS
    p1 = p1
    p2 = p2
    t1 = t1
    a = a
    b = b
    Jobs = {1, 2, 3}
    Targets = {t1}
    TargetOf <- ThreeFetches
    Contents = {a, b}
    Processes = {p1, p2}
    NoProcess = NoProcess
    NoJob = NoJob
    NoContent = NoContent
    MaxAttempts = 2
    RecoverLimit = 1
    MaxCrashes = 1
INVARIANTS
    OneActivePerTarget
    ChangesAccounted
PROPERTIES
    OwnerSettles
    ImplementsQueue
    EveryJobEnds
