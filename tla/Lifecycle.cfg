SPECIFICATION FairSpec
CONSTANT MaxSignals = 2
INVARIANTS
    TypeOK
    CleanExit
    RequestFindsConnection
PROPERTIES
    
    Reconnects
CHECK_DEADLOCK FALSE
