SPECIFICATION Spec
CONSTANTS
    Checks = {1}
    Frequency <- Frequencies
    MaxLag = 1
    MaxLosses = 1
    Recent = 3
    Horizon = 2
    BatchSize = 1
    PerDay = 2
    MaxKilled = 1
INVARIANTS
    TypeOK
    ChecksAreTimely
    RunningIsReported
PROPERTIES
    LastBatchLeavesNothing
    DatabaseIsCleaned
