CONSTANTS
    Pids = {1}
    Cpus = {c1}
    c1 = c1
    Elements = {e1}
    e1 = e1
    NoElement = NoElement
    MaxBytes = 2
    MaxSpawns = 0
SPECIFICATION Spec
INVARIANT ExitIsCounted
