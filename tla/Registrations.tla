--------------------------- MODULE Registrations ----------------------------
(***************************************************************************)
(* What the push server promises of its registry, with no Redis, no        *)
(* threads and no order of commands in it: a device has a channel and its  *)
(* accounts, each with a node that was drawn for it and for no other; a    *)
(* request replaces the channel or all of the accounts at once, and        *)
(* neither costs the device the other; a push goes to the channel a device *)
(* has at that moment, and carries what the node was drawn for.            *)
(*                                                                         *)
(* PushRegistry implements this as long as Redis answers and the process   *)
(* lives.                                                                  *)
(***************************************************************************)
CONSTANTS Devices, AccountIds, Nodes, Uris, UriOwner, NoDevice, NoNode, NoUri,
    NoOwner

VARIABLES
    channel,    \* device -> its channel URI
    accounts,   \* device -> account id -> its node
    request,    \* the accounts a device is asking for: [device, ids]
    owner,      \* node -> the device and account it was drawn for
    posts       \* the pushes on their way to WNS

vars == <<channel, accounts, request, owner, posts>>

NoRequest == [device |-> NoDevice, ids |-> {}]
Push(d, u, n) == [device |-> d, uri |-> u, node |-> n]

Init ==
    /\ channel = [d \in Devices |-> NoUri]
    /\ accounts = [d \in Devices |-> [a \in AccountIds |-> NoNode]]
    /\ request = NoRequest
    /\ owner = [n \in Nodes |-> NoOwner]
    /\ posts = {}

SetChannelUri(d, u) ==
    /\ UriOwner[u] = d
    /\ channel' = [channel EXCEPT ![d] = u]
    /\ UNCHANGED <<accounts, request, owner, posts>>

\* A request for these accounts comes in, from a device that has a channel. Tokens are
\* drawn for accounts of the device; none is ever drawn again.
Request(d, ids) ==
    /\ request = NoRequest /\ channel[d] # NoUri
    /\ request' = [device |-> d, ids |-> ids]
    /\ DOMAIN owner' = Nodes
    /\ \A n \in Nodes :
          \/ owner'[n] = owner[n]
          \/ owner[n] = NoOwner /\ owner'[n] \in [device : {d}, account : ids]
    /\ UNCHANGED <<channel, accounts, posts>>

\* Exactly these accounts are registered from now on, and those before are gone.
SetPushAccounts ==
    /\ request # NoRequest
    /\ request' = NoRequest
    /\ \E new \in [AccountIds -> Nodes \union {NoNode}] :
         /\ \A a \in AccountIds :
               IF a \in request.ids
                 THEN new[a] # NoNode /\ owner[new[a]] = [device |-> request.device, account |-> a]
                 ELSE new[a] = NoNode
         /\ accounts' = [accounts EXCEPT ![request.device] = new]
    /\ UNCHANGED <<channel, owner, posts>>

\* An event of a node that was drawn for a device, or a test push.
StartPush(d, n) ==
    /\ channel[d] # NoUri
    /\ n # NoNode => owner[n] # NoOwner /\ owner[n].device = d
    /\ posts' = posts \union {Push(d, channel[d], n)}
    /\ UNCHANGED <<channel, accounts, request, owner>>

EndPush(p) ==
    /\ posts' = posts \ {p}
    /\ UNCHANGED <<channel, accounts, request, owner>>

Next ==
    \/ \E d \in Devices :
          \/ \E u \in Uris : SetChannelUri(d, u)
          \/ \E ids \in SUBSET AccountIds : Request(d, ids)
          \/ \E n \in Nodes \union {NoNode} : StartPush(d, n)
    \/ SetPushAccounts
    \/ \E p \in posts : EndPush(p)

Spec == Init /\ [][Next]_vars

=============================================================================
