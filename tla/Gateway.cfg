SPECIFICATION FairSpec
CONSTANTS
    Clients <- MCClients
    Devices <- MCDevices
    Accounts <- MCAccounts
    Vocabulary <- MCVocabulary
    Cost <- MCCost
    Budget = 4
    Strays <- MCStrays
    Contents <- MCContents
    Wrong = Wrong
    Missing = Missing
    NoNumber = NoNumber
    Huge = Huge
    None = None
    Rest = Rest
    MaxUnread = 2
CHECK_DEADLOCK FALSE
INVARIANTS TypeOK  DeathExplained Readable NodesUsable
PROPERTIES  RequestsAnswered
