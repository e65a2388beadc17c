SPECIFICATION BridgeSpec
CONSTANTS
    Clients <- MCClients
    Wanted <- MCWanted
INVARIANTS
    StopLeavesAtMostOne
PROPERTIES
    EveryoneReturns
CHECK_DEADLOCK FALSE
