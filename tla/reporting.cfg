CONSTANTS
    Pids = {1, 2, 3}
    Apps = {a1, a2, a3}
    a1 = a1
    a2 = a2
    a3 = a3
    NoApp = NoApp
    Parts = 4
    Rates = {0, 1, 2, 7}
    TopCounts = {1, 2}
SYMMETRY AppSymmetry
VIEW MCView
SPECIFICATION Spec
INVARIANTS
    TypeOK
    TotalIsTheRest
    RowsFitTheTotal
    TopIsBusiest
