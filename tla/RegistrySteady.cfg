SPECIFICATION FairSpec
CONSTANTS
    d1 = d1
    d2 = d2
    u1 = u1
    u2 = u2
    u3 = u3
    NoDevice = NoDevice
    NoNode = NoNode
    NoUri = NoUri
    NoOwner = NoOwner
    Devices = {d1, d2}
    AccountIds = {a1}
    Nodes = {n1, n2}
    Uris <- TwoDeviceUris
    UriOwner <- TwoDeviceUriOwner
    Versions = {2}
    Faults = {}
    MaxAccounts = 1
    MaxInbox = 2
INVARIANTS
    NodesFollowAccounts
PROPERTIES
    EventDelivered
    RefinesRegistrations
