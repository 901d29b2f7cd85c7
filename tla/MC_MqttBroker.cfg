SPECIFICATION FairSpec
CONSTANTS
    old = old
    new = new
    other = other
    Connections = {old, new, other}
    Publishers = {old, other}
    ClientIds = {"client", "other"}
    IdOf <- SameClient
    NoConnection = NoConnection
    Troubled = {old}
    QosOf <- Qos
    MaxPublish = 2
    StopAfter = 2
INVARIANTS SubscribersSeeTheLog
PROPERTIES EveryPublicationForwarded
CHECK_DEADLOCK FALSE
