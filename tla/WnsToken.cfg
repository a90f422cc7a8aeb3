SPECIFICATION FairSpec
CONSTANT Senders = {"asio"}
INVARIANTS
    TypeOK
    Startable
    Survives
    HeaderGenuine
    RetriesJustified
PROPERTIES
    SendsEnd
    TokenRenewed
