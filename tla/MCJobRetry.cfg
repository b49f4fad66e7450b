SPECIFICATION FairJobSpec
CONSTANTS
    j1 = j1
    j2 = j2
    i1 = i1
    c1 = c1
    c2 = c2
    NoJob = NoJob
    Jobs = {j1, j2}
    Instances = {i1}
    Clients = {c1, c2}
    MaxAttempts <- Attempts
    PollLimit = 1
    MaxCrashes = 1
    MaxRequests = 2
PROPERTY RunningIsRun
CHECK_DEADLOCK FALSE
