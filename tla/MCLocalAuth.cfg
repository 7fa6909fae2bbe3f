CONSTANTS
    Passwords = {p1, p2}
    Tokens = {t1}
    Sessions = {s1, s2}
    Requests = {r1, r2}
    None = None
    MaxResets = 2
SPECIFICATION Spec
INVARIANTS ResetEndsSessions UsedTwiceOnlyByRivals BreakGlassByOwners
SYMMETRY Symmetry
