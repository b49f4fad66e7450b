SPECIFICATION IngestSpec
CONSTANTS
    r1 = r1
    Ledgers = 2
    LedgerOf <- LedgerOfEvent
    Kind <- KindOfEvent
    PageLimit = 1
    Runs = {r1}
    Ahead = 0
    MaxStarts = 2
    BatchSize = 1
    FetchLimit = 1
INVARIANT StreamLosesNothing
CHECK_DEADLOCK FALSE
