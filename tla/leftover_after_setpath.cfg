CONSTANTS
    p1 = p1
    NoPath = NoPath
    Paths = {p1}
    Managed = {}
    Mishaps = {"kill"}
    Periods = {2}
    SeqCap = 3
    AgeCap = 13
    CoalesceSettings = {0}
    StaleSettings = {3}
    DefaultStale = 3
    RetryTicks = 2
    Grain = 1
    MaxLag = 0
SPECIFICATION HSpec
INVARIANT LeftoverIsNotCurrent
