SPECIFICATION FairSpec
CONSTANTS
    Viewers = {v1, v2}
    NoTask = NoTask
    Troubles <- AnyFault
INVARIANTS CountsViewers NoOrphanStream
PROPERTIES IdleStreamSwitchedOff
CHECK_DEADLOCK FALSE
