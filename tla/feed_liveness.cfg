CONSTANTS
    p1 = p1
    NoPath = NoPath
    Paths = {p1}
    Managed = {p1}
    Mishaps = {"load_fails", "write_fails", "stop", "kill", "clock_step", "overwrite"}
    Periods = {3}
    SeqCap = 3
    AgeCap = 3
    CoalesceSettings = {0, 4}
    StaleSettings = {1, 2}
    DefaultStale = 2
    RetryTicks = 1
    Grain = 2
    MaxLag = 1
SPECIFICATION FairSpec
INVARIANTS
    TypeOK
    OkIsGuarded
    RecoveryIsArmed
    NothingUnseen
PROPERTIES
    SourceIsKept
    ClockIsIgnored
    HealthyIsShown
    DeadIsReported
