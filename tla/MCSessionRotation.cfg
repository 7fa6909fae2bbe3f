CONSTANTS
    Ids = {i1, i2}
    NoId = NoId
    Requests = {r1, r2}
    Logins = {l1}
    Cap = 1
    MaxRotations = 2
SPECIFICATION Spec
SYMMETRY Symmetry
INVARIANTS OneRotationPerToken TokenReachesClient
PROPERTIES LogoutMissesOnlyRotated
