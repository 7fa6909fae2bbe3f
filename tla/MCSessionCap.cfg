CONSTANTS
    Ids = {i1, i2, i3, i4}
    NoId = NoId
    Requests = {r1}
    Logins = {l1, l2}
    Cap = 1
    MaxRotations = 0
SPECIFICATION Spec
SYMMETRY Symmetry
INVARIANTS CapUpToConcurrency
PROPERTIES LoneLoginRestoresCap
