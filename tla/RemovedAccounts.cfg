SPECIFICATION Spec
CONSTANTS
    d1 = d1
    d2 = d2
    u1 = u1
    u2 = u2
    u3 = u3
    NoDevice = NoDevice
    NoNode = NoNode
    NoUri = NoUri
    NoOwner = NoOwner
    Devices = {d1}
    AccountIds = {a1, a2}
    Nodes = {n1, n2, n3}
    Uris <- OneDeviceUris
    UriOwner <- OneDeviceUriOwner
    Versions = {2}
    Faults = {"disconnect"}
    MaxAccounts = 2
    MaxInbox = 0
INVARIANT OnlyActiveAccountsRoutable
