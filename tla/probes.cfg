CONSTANTS
    Calls <- OrdinaryCalls
    MaxCounted = 3
SPECIFICATION Spec
INVARIANTS
    TypeOK
    NothingLeftBehind
PROPERTY TallyIsExact
