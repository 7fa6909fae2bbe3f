SPECIFICATION FairListSpec
CONSTANTS
    Projects <- ThreeProjects
    BatchSize = 2
    ExportLimit = 2
    Skew = 1
    MaxNow = 1
INVARIANTS
    UntouchedOnce
    TwiceOnlyByClock
    LimitUpToChanges
PROPERTY
    ExportEnds
