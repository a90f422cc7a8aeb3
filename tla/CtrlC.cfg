SPECIFICATION FairSpec
CONSTANT MaxSignals = 1
PROPERTY CtrlCExits
CHECK_DEADLOCK FALSE
