SPECIFICATION KeysSpec
CONSTANTS
    KeyRows = {i1}
    Organizations = {o1}
    RawKeys = {k1, k2}
    NoKey = NoKey
    KeyPrefixes = {{k1}, {k2}}
    KeyCalls = {c1}
    Overlap = 1
    MaxHours = 1
INVARIANT OldKeyOverlaps
CHECK_DEADLOCK FALSE
