SPECIFICATION FairSpec
CONSTANTS
    Entries = {"one", "two"}
    NoOne = NoOne
    MaxOps = 5
INVARIANTS ProxyServes
PROPERTIES BrokerIsShared CallsReturn
CHECK_DEADLOCK FALSE
