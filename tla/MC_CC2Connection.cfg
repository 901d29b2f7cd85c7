SPECIFICATION FairSpec
CONSTANTS
    MaxAttempts = 2
    MaxQueue = 1
    UserCode = TRUE
INVARIANTS Supervised
PROPERTIES HealthyConnectionKept SilenceNoticed EveryTaskReturns
CHECK_DEADLOCK FALSE
