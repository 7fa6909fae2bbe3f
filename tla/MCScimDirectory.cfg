CONSTANTS
    Users = {u1, u2}
    ByEmail = {u2}
    UserGroups = {g1, g2}
    Requests = {r1, r2}
    None = None
    Attempts = 2
SPECIFICATION DirectorySpec
INVARIANTS TookEffect
PROPERTIES ChangesAreWanted
SYMMETRY Symmetry
