CONSTANTS
    p1 = p1
    NoPath = NoPath
    Paths = {p1}
    Managed = {}
    Mishaps = {}
    Periods = {3}
    SeqCap = 3
    AgeCap = 4
    CoalesceSettings = {0}
    StaleSettings = {3}
    DefaultStale = 3
    RetryTicks = 1
    Grain = 2
    MaxLag = 1
SPECIFICATION Spec
PROPERTIES
    IntervalIsStable
