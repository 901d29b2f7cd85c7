SPECIFICATION RoutingFairSpec
CONSTANTS
    Printers = {"A", "B"}
    Gone = "gone"
    NoId = "none"
    Segments <- SomeSegments
    Paths <- SomePaths
    Contents <- Scripts
    Clashing = {"B"}
    MaxMessages = 2
INVARIANTS NamedPrinterIsServed ScriptArrives SessionRouting
PROPERTIES SessionEnds
CHECK_DEADLOCK FALSE
