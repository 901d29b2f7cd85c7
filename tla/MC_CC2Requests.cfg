SPECIFICATION RequestsFairSpec
CONSTANTS
    Calls = {c1, c2, c3}
    Codes = {ok}
    NoCall = NoCall
    MaxId = 3
INVARIANTS OwnAnswer NoResidue NoLostWakeup
PROPERTIES ImplementsReply EveryCallReturns
CHECK_DEADLOCK FALSE
