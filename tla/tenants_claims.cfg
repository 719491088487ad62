\* As tenants.cfg.  One property at a time: the first violation ends the run, so
\* put the one to be reproduced in place of the one that is active.
SPECIFICATION Spec
CONSTANTS
    Callers = {c1, c2}
    Nobody = Nobody
    NoRow = NoRow
    Idle = Idle
    Ended = Ended
    Never = Never
    requests = 2
    window_seconds = 2
    TicksPerSecond = 2
    MaxTicks = 11
    KeyHashes = {k1, k2}
    ttl = 2
    max_entries = 1
    MaxAuthTime = 3
    Metered = {"t1"}
    NO_TENANT_SENTINEL = "system"
    _TENANT_SCOPED_METRICS <- MCScoped
    _SYSTEM_METRICS <- MCSystem
    Writers = {1}
    Quantities = {0, 2}
    TicksPerDay = 1
    Days = {0, 1}
    MaxEvents = 2
    Tenants = {"t1", "t2"}
    Users = {"u"}
    ApiKeys <- MCApiKeys
    Events = {1, 2, 3, 4}
    Existing = {1, 2, 3, 4}
    Projected = {1, 2, 3}
    Duplicates = {2}
    Names = {"s"}
    RunIds = {1, 2}
    ClaimIds = {1, 2, 3, 4}
    ReportIds = {1, 2}
    Batches <- MCBatches
    Narratives <- MCNarratives
    Texts = {"text"}
    InitialMember <- MCMembers
    Changes <- MCChanges
    Closing = {"t2"}
    Workloads <- MCWorkloads
    MAX_CLAIMS_PER_BATCH = 2
    MIN_NARRATIVE_WORDS = 2
    _TENANT_EVENT_LIST_MAX_LIMIT = 2
    MaxTime = 2
SYMMETRY Symmetry
PROPERTY
    ClosedRunFrozen
\* INVARIANT ClearingInvalidates
\* INVARIANT ListingExact
\* INVARIANT OverlayOpens
CHECK_DEADLOCK FALSE
