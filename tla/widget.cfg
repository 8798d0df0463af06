CONSTANTS
    group = group
    single = single
    browser = browser
    helper = helper
    Apps <- MCApps
    Exclusions <- MCExclusions
    PeakRate = 1
    Spans = {1, 2}
    Intervals = {1}
    Lingers = {0, 1}
    TopCounts = {1, 2}
    Refresh = 1
    MinWindow = 1
    MaxWindow = 2
SPECIFICATION Spec
INVARIANTS
    TypeOK
    WindowsAreTheLog
    WindowsAreAligned
PROPERTIES
    HiddenIsNotShown
    DelegatesSurvive
