SPECIFICATION MCSpec
SYMMETRY ClientSymmetry
CONSTANTS
    NoMark = NoMark
    MaxRegistrationAliases = 2
    Clients = {c1, c2, loader}
    Loader = loader
    Submissions <- MCSubmissions
    Workloads <- MCWorkloads
    Events = {1, 2, 3, 4}
    SourceKind <- MCSourceKind
    CandidateLimit = 1
    RegistrationLimit = 3
    MaxDuplicateReviews = 2
    NtsbSource = "ntsb"
    NtsbRows <- MCRows
    MaxLoads = 2
    NoRow = NoRow
    NoEvent = NoEvent
    NoClient = NoClient
    NoResult = NoResult
INVARIANTS
    OnceAndForAll
    RecordContinuity
PROPERTY
    TwinAnnounced
