CONSTANTS
    Tabs = {t1, t2}
    Sessions = {s1, s2}
    Calls = {c1, c2}
    NoToken = NoToken
    Old = Old
    None = None
SPECIFICATION Spec
INVARIANTS HandlerRunsOnce RefusedTwiceOnlyIfTroubled CookieKept WaitsForFetch
SYMMETRY Symmetry
