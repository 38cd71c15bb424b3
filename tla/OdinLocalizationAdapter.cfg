SPECIFICATION Spec
CONSTANTS
    LocalTimeout = 1
    CorrectionTimeout = 2
    FutureTolerance = 1
    MaxPendingSamples = 2
    MaxTime = 4
INVARIANTS TypeOK ReadyIsEarned
PROPERTY CorrectionsAscend
