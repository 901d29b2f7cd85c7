SPECIFICATION FramingFairSpec
CONSTANTS
    Base = 2
    Payloads <- SomePayloads
    MaxRead = 6
    MaxPackets = 2
INVARIANTS PacketsAreWhole PeersCanRead
PROPERTIES AllIsTaken
CHECK_DEADLOCK FALSE
