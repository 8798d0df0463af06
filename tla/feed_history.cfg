CONSTANTS
    p1 = p1
    NoPath = NoPath
    Paths = {p1}
    Managed = {}
    Mishaps = {"kill", "write_fails"}
    Periods = {2}
    SeqCap = 3
    AgeCap = 10
    CoalesceSettings = {0, 4}
    StaleSettings = {1, 2}
    DefaultStale = 2
    RetryTicks = 1
    Grain = 1
    MaxLag = 1
SPECIFICATION HSpec
INVARIANTS
    OkIsRecent
PROPERTIES
    NeverTooSoon
    NeverHasty
