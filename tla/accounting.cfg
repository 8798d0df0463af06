CONSTANTS
    Pids = {1, 2, 3}
    Cpus = {c1, c2}
    c1 = c1
    c2 = c2
    Elements = {e1, e2}
    e1 = e1
    e2 = e2
    NoElement = NoElement
    MaxBytes = 3
    MaxSpawns = 1
SYMMETRY Symmetry
SPECIFICATION Spec
INVARIANTS
    TypeOK
    ExactUnlessCounterLost
    NoGarbage
PROPERTY MeterIsKept
