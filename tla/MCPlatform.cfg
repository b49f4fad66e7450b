SPECIFICATION Spec
CONSTANTS
    a1 = a1
    a2 = a2
    Ledgers = 2
    LedgerOf <- LedgerOfEvent
    Kind <- KindOfEvent
    PageLimit = 1
    Runs = {a1, a2}
    Ahead = 1
    MaxStarts = 2
    BatchSize = 1
    FetchLimit = 1
    Entries = {n1, n2}
    Webhooks = {n1}
    Senders = {a1, a2}
    MaxAttempts = 3
    RetryAttempts = 2
    MaxHooks = 2
    MaxJobs = 1
    MaxFailures = 3
    FlagProcs = {a1, a2}
    Flags = {f1, f2}
    Edited = {f1}
    BuiltOn = {f2}
    WriteFlag = f2
    NoCopy = NoCopy
    FlagTtl = 1
    MaxFlagTime = 1
    MaxFlagWrites = 2
    Publishers = {a1, a2}
    Builds = {b1, b2}
    MaxRows = 2
    MaxVersion = 2
    MaxRetries = 1
    EscrowRows = {x1}
    PaymentRows = {y1}
    Runners = {a1, a2}
    ReconBatch = 1
    KeyRows = {i1}
    Organizations = {o1, o2}
    RawKeys = {k1, k2, k3, k4}
    NoKey = NoKey
    KeyPrefixes = {{k1, k2, k4}, {k3}}
    KeyCalls = {a1, a2}
    Overlap = 1
    MaxHours = 1
    Ids = {1, 2, 3}
    Dates = {1, 2}
    PageSize = 1
    NoCursor = NoCursor
    LastPage = LastPage
    Learners = {m1}
    SessionIds = {1, 2, 3}
    AuthCalls = {a1, a2}
    Guests = {g1, g2, g3}
    Limits = {1, 2}
    RoomCalls = {a1, a2}
    MaxMiscounts = 1
SYMMETRY Symmetry
INVARIANTS CheckpointCovers DlqIsExhausted OpenWasOpened AlwaysOneBuild SettledFirstIsTold BurnedStaysDead WalkIsWhole LoginHasOneSession OverfullByRacesOnly
CHECK_DEADLOCK FALSE
