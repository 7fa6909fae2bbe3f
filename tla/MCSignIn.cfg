CONSTANTS
    Slugs = {a, b}
    Keys = {k1, k2}
    Flows = {f1, f2}
    Grants = {g1, g2}
    Requests = {r1, r2}
    None = None
    StateTtl = 1
    Life = 1
    Skew = 1
    MaxTime = 2
SPECIFICATION Spec
INVARIANTS OneSessionPerCode CodeMatchesState StartedInTime
SYMMETRY Symmetry
