CONSTANTS
    Writers = {w1, w2}
    Ids = {1, 2, 3}
    Skew = 1
    MaxAttempts = 2
    MaxNow = 2
SPECIFICATION ChainSpec
SYMMETRY Symmetry
INVARIANTS ForksComeFromClock
