SPECIFICATION Spec
CONSTANTS
    MaxEvents = 4
    MaxNonContinuous = 2
    QueueMax = 2
INVARIANTS CacheIsSnapshot HistoryFaithful
CHECK_DEADLOCK FALSE
