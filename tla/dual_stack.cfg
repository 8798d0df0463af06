CONSTANTS
    Calls <- DualStackCalls
    MaxCounted = 3
SPECIFICATION Spec
PROPERTY TallyIsExact
