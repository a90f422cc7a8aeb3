---------------------------- MODULE PushRegistry ----------------------------
(***************************************************************************)
(* The registry of devices, push accounts and PubSub nodes that the push   *)
(* server keeps in Redis, with the two threads that use it:                *)
(*                                                                         *)
(*   asio   the single thread of the asio service behind the TCP server.   *)
(*          It runs PushServer::on_message_received to completion, one     *)
(*          request after the other, and is the only writer of the         *)
(*          registry (set_channel_uri, set_push_accounts).                 *)
(*   xmpp   the thread in xmpp_run. It runs message_handler for every      *)
(*          PubSub event and reads the registry, one LRANGE at a time, to  *)
(*          decide what to send to which device.                           *)
(*                                                                         *)
(* Nothing locks the two against each other, and a crash or a failing      *)
(* Redis command leaves behind what the commands before it wrote. One      *)
(* action is one Redis command the other thread can tell from its          *)
(* neighbours; runs of reads by asio, the only writer, are one action.     *)
(*                                                                         *)
(* Definitions whose comment starts with "Mutant" are wrong on purpose:     *)
(* each changes the definition after it the way a plausible bug would, to  *)
(* see that the properties notice. No action uses them.                    *)
(*                                                                         *)
(* Not modelled here: the WNS token, which has no part in routing, and an  *)
(* entry that expires while a request is handled.                          *)
(***************************************************************************)
EXTENDS Naturals, Sequences, Functions

CONSTANTS
    Devices,        \* device ids
    AccountIds,     \* account ids the devices choose
    Nodes,          \* the tokens PushAccount::create can draw for a node
    Uris,           \* channel URIs that is_valid_channel_uri accepts
    UriOwner,       \* the device WNS issued a channel URI to
    Versions,       \* protocol versions the clients speak
    Faults,         \* what may go wrong: a subset of FaultKinds
    MaxAccounts,    \* bound: accounts in one request
    MaxInbox,       \* bound: PubSub events waiting for the xmpp thread
    NoDevice, NoNode, NoUri, NoOwner

FaultKinds == {"disconnect", "iq", "redis", "crash", "duplicate", "expire"}

ASSUME ConstantsAssumption ==
    /\ UriOwner \in [Uris -> Devices]
    /\ Versions \subseteq 1..2
    /\ Faults \subseteq FaultKinds
    /\ MaxAccounts \in Nat
    /\ MaxInbox \in Nat
    /\ NoDevice \notin Devices
    /\ NoNode \notin Nodes
    /\ NoUri \notin Uris
    /\ NoOwner \notin [device : Devices, account : AccountIds]

VARIABLES
    \* Redis. An absent key is an empty list or NoNode.
    device,     \* device id -> [channel uri, version, account keys...]
    account,    \* hash of (device id, account id) -> node
    node,       \* node -> [account id, device id, secret] once per RPUSH
    \* The XMPP server, as the push server sees it.
    connected,  \* xmpp_conn_is_connected(conn)
    pubsub,     \* the nodes that exist and that the push server subscribes
    inbox,      \* PubSub events not handled yet, oldest first
    \* The two threads: where each one is and its local variables.
    asio, xmpp,
    \* History.
    owner,      \* the account a node token was drawn for
    told        \* the accounts in the last response a device received

redisVars == <<device, account, node>>
xmppServerVars == <<connected, pubsub, inbox>>
historyVars == <<owner, told>>
vars == <<redisVars, xmppServerVars, asio, xmpp, historyVars>>

NoVersion == 0
NoRecord == [uri |-> NoUri, version |-> NoVersion, accounts |-> <<>>]
Owner(d, a) == [device |-> d, account |-> a]

IdleAsio == [pc |-> "idle", device |-> NoDevice, uri |-> NoUri,
             version |-> NoVersion, accounts |-> <<>>, deleteNodes |-> {},
             addNodes |-> {}, keys |-> <<>>, i |-> 1]
IdleXmpp == [pc |-> "idle", node |-> NoNode, account |-> NoNode,
             device |-> NoDevice, kind |-> "none", uri |-> NoUri]

\* A request lists accounts of one device; a well-behaved client lists each once.
Requests ==
    {ids \in UNION {[1..k -> AccountIds] : k \in 0..MaxAccounts} :
        "duplicate" \in Faults \/ \A j, k \in DOMAIN ids : ids[j] = ids[k] => j = k}

Init ==
    /\ device = [d \in Devices |-> NoRecord]
    /\ account = [d \in Devices |-> [a \in AccountIds |-> NoNode]]
    /\ node = [n \in Nodes |-> <<>>]
    /\ connected = ("disconnect" \notin Faults)
    /\ pubsub = {}
    /\ inbox = <<>>
    /\ asio = IdleAsio
    /\ xmpp = IdleXmpp
    /\ owner = [n \in Nodes |-> NoOwner]
    /\ told = [d \in Devices |-> <<>>]

-----------------------------------------------------------------------------
(* RedisClient: the reads.                                                 *)

\* Three elements are one RPUSH; a reused node that was pushed again has more.
has_node_record(n) == Len(node[n]) = 1
\* Mutant: the registry is locked with try_lock, and a failure taken for "unknown".
get_channel_uri_try_lock(d) == IF asio.pc = "idle" THEN device[d].uri ELSE NoUri
get_channel_uri(d) == device[d].uri
get_version(d) == device[d].version
listed(d) == Range(device[d].accounts)
\* Mutant: gen_account hashes the account id without the device id.
get_push_nodes_without_device_in_hash(d) ==
    {account[e][a] : e \in Devices, a \in listed(d)} \ {NoNode}
get_push_nodes(d) == {account[d][a] : a \in listed(d)}

\* Mutant: the node is dereferenced without looking whether it is there.
NodesFoundUnchecked(d) == TRUE
\* The assert in get_push_nodes: every listed account key exists.
NodesFound(d) == NoNode \notin get_push_nodes(d)

\* load_push_account finds a node and a secret to reuse.
reusable(d, a) == account[d][a] # NoNode /\ has_node_record(account[d][a])

-----------------------------------------------------------------------------
(* asio: set_channel_uri.                                                  *)

\* The list is read, then deleted; until StoreUri runs the device is unknown.
SetChannelUri(d, u) ==
    /\ asio.pc = "idle"
    /\ UriOwner[u] = d
    /\ asio' = [IdleAsio EXCEPT !.pc = "storeUri", !.device = d, !.uri = u,
                                !.version = get_version(d),
                                !.keys = device[d].accounts]
    /\ device' = [device EXCEPT ![d] = NoRecord]
    /\ UNCHANGED <<account, node, xmppServerVars, xmpp, historyVars>>

\* Mutant: the elements after the channel URI are not written back.
StoreUriOnly ==
    /\ asio.pc = "storeUri"
    /\ device' = [device EXCEPT ![asio.device] = [NoRecord EXCEPT !.uri = asio.uri]]
    /\ asio' = IdleAsio
    /\ UNCHANGED <<account, node, xmppServerVars, xmpp, historyVars>>

StoreUri ==
    /\ asio.pc = "storeUri"
    /\ device' = [device EXCEPT ![asio.device] =
                     [uri |-> asio.uri, version |-> asio.version, accounts |-> asio.keys]]
    /\ asio' = IdleAsio
    /\ UNCHANGED <<account, node, xmppServerVars, xmpp, historyVars>>

-----------------------------------------------------------------------------
(* asio: send_test_push.                                                   *)

RequestTestPush(d) ==
    /\ asio.pc = "idle"
    /\ get_channel_uri(d) # NoUri
    /\ asio' = [IdleAsio EXCEPT !.pc = "testPush", !.device = d,
                                !.uri = get_channel_uri(d), !.version = get_version(d)]
    /\ UNCHANGED <<redisVars, xmppServerVars, xmpp, historyVars>>

SendTestPush ==
    /\ asio.pc = "testPush"
    /\ asio' = IdleAsio
    /\ UNCHANGED <<redisVars, xmppServerVars, xmpp, historyVars>>

-----------------------------------------------------------------------------
(* asio: set_push_accounts.                                                *)

\* Mutant: the token of a deleted PubSub node is handed out again.
FreshAfterDelete(n) == n \notin pubsub

\* 15 random letters and digits: a token that was never drawn before.
Fresh(n) == owner[n] = NoOwner

\* The nodes the request ends up with: a reused one, or a token nobody has drawn.
NodeChoices(d, ids) ==
    {nodes \in [DOMAIN ids -> Nodes] :
        /\ \A j \in DOMAIN ids :
              IF reusable(d, ids[j]) THEN nodes[j] = account[d][ids[j]]
                                     ELSE Fresh(nodes[j])
        /\ \A j, k \in DOMAIN ids :
              j # k /\ ~reusable(d, ids[j]) => nodes[j] # nodes[k]}

\* Mutant: PubSub nodes are only created by the first registration.
AddNodesOnce(d, nodes) == IF get_push_nodes(d) = {} THEN Range(nodes) ELSE {}

\* The first account with a listed node takes it off deleteNodes; a second one
\* no longer finds it there and asks for it to be set up again.
AddNodes(d, nodes) ==
    {n \in Range(nodes) :
        \/ n \notin get_push_nodes(d)
        \/ \E j, k \in DOMAIN nodes : j # k /\ nodes[j] = n /\ nodes[k] = n}

SetPushAccounts(d, v, ids) ==
    /\ asio.pc = "idle"
    /\ get_channel_uri(d) # NoUri /\ NodesFound(d)
    /\ \E nodes \in NodeChoices(d, ids) :
         /\ asio' = [IdleAsio EXCEPT
               !.pc = "nodes", !.device = d, !.version = v, !.uri = get_channel_uri(d),
               !.accounts = [j \in DOMAIN ids |->
                   [id |-> ids[j], node |-> nodes[j], success |-> reusable(d, ids[j])]],
               !.deleteNodes = get_push_nodes(d) \ Range(nodes),
               !.addNodes = AddNodes(d, nodes)]
         /\ owner' = [n \in Nodes |->
               IF owner[n] = NoOwner /\ n \in Range(nodes)
                 THEN Owner(d, ids[CHOOSE j \in DOMAIN ids : nodes[j] = n])
                 ELSE owner[n]]
    /\ UNCHANGED <<redisVars, xmppServerVars, xmpp, told>>

\* Mutant: the stanza waits for the connection to come up.
SendIqBlocking(newPubsub) == connected /\ pubsub' = newPubsub

\* A stanza is only written when connected; nobody waits for the answer, so the
\* server may also refuse it ("iq").
SendIq(newPubsub) ==
    \/ pubsub' = IF connected THEN newPubsub ELSE pubsub
    \/ "iq" \in Faults /\ connected /\ pubsub' = pubsub

DeletePushNode(n) ==
    /\ asio.pc = "nodes"
    /\ n \in asio.deleteNodes
    /\ SendIq(pubsub \ {n})
    /\ asio' = [asio EXCEPT !.deleteNodes = @ \ {n}]
    /\ UNCHANGED <<redisVars, connected, inbox, xmpp, historyVars>>

\* addNodes keeps one pointer per node: that of the last account with the node.
SetupPushNode(n) ==
    /\ asio.pc = "nodes" /\ asio.deleteNodes = {}
    /\ n \in asio.addNodes
    /\ SendIq(pubsub \union {n})
    /\ asio' = [asio EXCEPT
          !.addNodes = @ \ {n},
          !.accounts = [j \in DOMAIN asio.accounts |->
              IF /\ asio.accounts[j].node = n
                 /\ \A k \in DOMAIN asio.accounts : k > j => asio.accounts[k].node # n
                THEN [asio.accounts[j] EXCEPT !.success = connected]
                ELSE asio.accounts[j]]]
    /\ UNCHANGED <<redisVars, connected, inbox, xmpp, historyVars>>

\* RedisClient::set_push_accounts reads the list it is about to replace.
BeginStore ==
    /\ asio.pc = "nodes" /\ asio.deleteNodes = {} /\ asio.addNodes = {}
    /\ asio' = [asio EXCEPT !.pc = "clear", !.keys = device[asio.device].accounts]
    /\ UNCHANGED <<redisVars, xmppServerVars, xmpp, historyVars>>

\* The account key is deleted before it is read to find the node to delete.
ClearAccount ==
    /\ asio.pc = "clear" /\ asio.i <= Len(asio.keys)
    /\ account' = [account EXCEPT ![asio.device][asio.keys[asio.i]] = NoNode]
    /\ LET found == account'[asio.device][asio.keys[asio.i]]
       IN node' = IF found # NoNode THEN [node EXCEPT ![found] = <<>>] ELSE node
    /\ asio' = [asio EXCEPT !.i = @ + 1]
    /\ UNCHANGED <<device, xmppServerVars, xmpp, historyVars>>

DropDevice ==
    /\ asio.pc = "clear" /\ asio.i > Len(asio.keys)
    /\ device' = [device EXCEPT ![asio.device] = NoRecord]
    /\ asio' = [asio EXCEPT !.pc = "store", !.i = 1, !.keys = <<>>]
    /\ UNCHANGED <<account, node, xmppServerVars, xmpp, historyVars>>

StoreAccount ==
    /\ asio.pc = "store" /\ asio.i <= Len(asio.accounts)
    /\ LET a == asio.accounts[asio.i]
       IN account' = [account EXCEPT ![asio.device][a.id] = a.node]
    /\ asio' = [asio EXCEPT !.pc = "storeNode"]
    /\ UNCHANGED <<device, node, xmppServerVars, xmpp, historyVars>>

\* RPUSH appends: a reused node keeps the elements it already has.
StoreNode ==
    /\ asio.pc = "storeNode"
    /\ LET a == asio.accounts[asio.i]
       IN node' = [node EXCEPT ![a.node] = Append(@, Owner(asio.device, a.id))]
    /\ asio' = [asio EXCEPT !.pc = "store", !.i = @ + 1]
    /\ UNCHANGED <<device, account, xmppServerVars, xmpp, historyVars>>

StoreDevice ==
    /\ asio.pc = "store" /\ asio.i > Len(asio.accounts)
    /\ device' = [device EXCEPT ![asio.device] =
          [uri |-> asio.uri, version |-> asio.version,
           accounts |-> [j \in DOMAIN asio.accounts |-> asio.accounts[j].id]]]
    /\ asio' = [asio EXCEPT !.pc = "respond"]
    /\ UNCHANGED <<account, node, xmppServerVars, xmpp, historyVars>>

Respond ==
    /\ asio.pc = "respond"
    /\ told' = [told EXCEPT ![asio.device] = asio.accounts]
    /\ asio' = IdleAsio
    /\ UNCHANGED <<redisVars, xmppServerVars, xmpp, owner>>

\* A Redis command throws; on_message_received answers with an error.
RedisFails ==
    /\ "redis" \in Faults
    /\ \/ asio.pc \in {"storeUri", "testPush", "clear", "store", "storeNode", "respond"}
       \/ asio.pc = "nodes" /\ asio.deleteNodes = {} /\ asio.addNodes = {}
    /\ asio' = IdleAsio
    /\ UNCHANGED <<redisVars, xmppServerVars, xmpp, historyVars>>

-----------------------------------------------------------------------------
(* xmpp: message_handler, and the handler in PushServer it ends in.        *)

\* The oldest stanza is taken; only a push event for a known node is looked at.
TakeMessage ==
    /\ xmpp.pc = "idle" /\ inbox # <<>>
    /\ inbox' = Tail(inbox)
    /\ xmpp' = IF Head(inbox) # NoNode /\ has_node_record(Head(inbox))
                 THEN [IdleXmpp EXCEPT !.pc = "device", !.node = Head(inbox),
                                       !.account = node[Head(inbox)][1].account]
                 ELSE IdleXmpp
    /\ UNCHANGED <<redisVars, connected, pubsub, asio, historyVars>>

ReadDevice ==
    /\ xmpp.pc = "device"
    /\ xmpp' = [xmpp EXCEPT !.pc = "version",
                            !.device = IF has_node_record(xmpp.node)
                                         THEN node[xmpp.node][1].device ELSE NoDevice]
    /\ UNCHANGED <<redisVars, xmppServerVars, asio, historyVars>>

\* Everything that is not known to speak version 2 gets a version 1 payload.
ReadVersion ==
    /\ xmpp.pc = "version"
    /\ xmpp' = [xmpp EXCEPT !.pc = "route",
                            !.kind = IF /\ xmpp.device # NoDevice
                                        /\ get_version(xmpp.device) = 2
                                       THEN "v2" ELSE "v1"]
    /\ UNCHANGED <<redisVars, xmppServerVars, asio, historyVars>>

\* on_v1_message_for_node and on_v2_message_for_node look the device up again.
RouteToDevice ==
    /\ xmpp.pc = "route"
    /\ xmpp' = IF has_node_record(xmpp.node)
                 THEN [xmpp EXCEPT !.pc = "uri", !.device = node[xmpp.node][1].device]
                 ELSE IdleXmpp
    /\ UNCHANGED <<redisVars, xmppServerVars, asio, historyVars>>

\* Mutant: the channel URI is a buffer the two threads share.
RouteToSharedUri ==
    /\ xmpp.pc = "uri"
    /\ xmpp' = IF asio.uri # NoUri THEN [xmpp EXCEPT !.pc = "send", !.uri = asio.uri]
                                  ELSE IdleXmpp
    /\ UNCHANGED <<redisVars, xmppServerVars, asio, historyVars>>

RouteToUri ==
    /\ xmpp.pc = "uri"
    /\ xmpp' = IF get_channel_uri(xmpp.device) # NoUri
                 THEN [xmpp EXCEPT !.pc = "send", !.uri = get_channel_uri(xmpp.device)]
                 ELSE IdleXmpp
    /\ UNCHANGED <<redisVars, xmppServerVars, asio, historyVars>>

SendPush ==
    /\ xmpp.pc = "send"
    /\ xmpp' = IdleXmpp
    /\ UNCHANGED <<redisVars, xmppServerVars, asio, historyVars>>

-----------------------------------------------------------------------------
(* The environment.                                                        *)

\* Somebody publishes to a node, or a message that is no push event arrives.
Publish(n) ==
    /\ connected /\ Len(inbox) < MaxInbox
    /\ n \in pubsub \union {NoNode}
    /\ inbox' = Append(inbox, n)
    /\ UNCHANGED <<redisVars, connected, pubsub, asio, xmpp, historyVars>>

Disconnect ==
    /\ "disconnect" \in Faults /\ connected
    /\ connected' = FALSE
    /\ inbox' = <<>>
    /\ UNCHANGED <<redisVars, pubsub, asio, xmpp, historyVars>>

Connect ==
    /\ ~connected
    /\ connected' = TRUE
    /\ UNCHANGED <<redisVars, pubsub, inbox, asio, xmpp, historyVars>>

\* The process dies and is started again: only Redis and the XMPP server remember.
Restart ==
    /\ asio' = IdleAsio
    /\ xmpp' = IdleXmpp
    /\ inbox' = <<>>
    /\ connected' = ("disconnect" \notin Faults)
    /\ UNCHANGED <<redisVars, pubsub, historyVars>>

Crash == "crash" \in Faults /\ Restart

\* An entry reaches the end of its 30 * 7 days. All entries of a device get theirs in
\* set_push_accounts, an account key before its node and the device's list last, and
\* only the list gets a new one in set_channel_uri: they go in that order. (After a
\* request that died halfway a node's or the device's list may go first; a request that
\* dies before it writes that list leaves the same.)
ExpireAccount(d, a) ==
    /\ account[d][a] # NoNode
    /\ account' = [account EXCEPT ![d][a] = NoNode]
    /\ UNCHANGED <<device, node>>
ExpireNode(n) ==
    /\ node[n] # <<>> /\ \A d \in Devices, a \in AccountIds : account[d][a] # n
    /\ node' = [node EXCEPT ![n] = <<>>]
    /\ UNCHANGED <<device, account>>
ExpireDevice(d) ==
    /\ get_channel_uri(d) # NoUri /\ get_push_nodes(d) \subseteq {NoNode}
    /\ device' = [device EXCEPT ![d] = NoRecord]
    /\ UNCHANGED <<account, node>>
Expire ==
    /\ "expire" \in Faults /\ asio.pc = "idle"
    /\ \/ \E d \in Devices, a \in AccountIds : ExpireAccount(d, a)
       \/ \E n \in Nodes : ExpireNode(n)
       \/ \E d \in Devices : ExpireDevice(d)
    /\ UNCHANGED <<xmppServerVars, asio, xmpp, historyVars>>

\* Nothing catches what a Redis command throws in message_handler.
RedisFailsForXmpp ==
    /\ "redis" \in Faults
    /\ xmpp.pc # "idle" \/ inbox # <<>>
    /\ Restart

\* get_push_nodes asserts that every listed account key exists.
AbortOnMissingNode(d) ==
    /\ asio.pc = "idle"
    /\ get_channel_uri(d) # NoUri /\ ~NodesFound(d)
    /\ Restart

-----------------------------------------------------------------------------

AsioReceive ==
    \E d \in Devices :
        \/ \E u \in Uris : SetChannelUri(d, u)
        \/ RequestTestPush(d)
        \/ \E v \in Versions, ids \in Requests : SetPushAccounts(d, v, ids)
        \/ AbortOnMissingNode(d)

AsioStep ==
    \/ StoreUri \/ SendTestPush
    \/ \E n \in Nodes : DeletePushNode(n) \/ SetupPushNode(n)
    \/ BeginStore \/ ClearAccount \/ DropDevice
    \/ StoreAccount \/ StoreNode \/ StoreDevice \/ Respond

XmppStep ==
    \/ TakeMessage \/ ReadDevice \/ ReadVersion
    \/ RouteToDevice \/ RouteToUri \/ SendPush

Environment ==
    \/ \E n \in Nodes \union {NoNode} : Publish(n)
    \/ Disconnect \/ Connect \/ Crash \/ RedisFails \/ RedisFailsForXmpp
    \/ Expire

Next == AsioReceive \/ AsioStep \/ XmppStep \/ Environment

Spec == Init /\ [][Next]_vars

\* Both threads run: a handler that has begun is not suspended for ever.
FairSpec == Spec /\ WF_vars(AsioStep) /\ WF_vars(XmppStep)

-----------------------------------------------------------------------------
(* Properties.                                                             *)

Quiet == asio.pc = "idle"

PushAccount == [id : AccountIds, node : Nodes, success : BOOLEAN]
DeviceRecord == [uri : Uris \union {NoUri}, version : 0..2, accounts : Seq(AccountIds)]
NodeRecord == [device : Devices, account : AccountIds]
AsioThread == [pc : {"idle", "storeUri", "testPush", "nodes", "clear", "store",
                     "storeNode", "respond"},
               device : Devices \union {NoDevice}, uri : Uris \union {NoUri},
               version : 0..2, accounts : Seq(PushAccount),
               deleteNodes : SUBSET Nodes, addNodes : SUBSET Nodes,
               keys : Seq(AccountIds), i : Nat \ {0}]
XmppThread == [pc : {"idle", "device", "version", "route", "uri", "send"},
               node : Nodes \union {NoNode}, account : AccountIds \union {NoNode},
               device : Devices \union {NoDevice}, kind : {"none", "v1", "v2"},
               uri : Uris \union {NoUri}]

\* TypeOK: what the variables range over.
TypeOK ==
    /\ device \in [Devices -> DeviceRecord]
    /\ account \in [Devices -> [AccountIds -> Nodes \union {NoNode}]]
    /\ node \in [Nodes -> Seq(NodeRecord)]
    /\ connected \in BOOLEAN
    /\ pubsub \subseteq Nodes
    /\ inbox \in Seq(Nodes \union {NoNode})
    /\ asio \in AsioThread
    /\ xmpp \in XmppThread
    /\ owner \in [Nodes -> NodeRecord \union {NoOwner}]
    /\ told \in [Devices -> Seq(PushAccount)]

\* NodeOwnership: whatever crashes, failures and interleavings leave in Redis,
\* every element of a node's list and every account key that names the node
\* agree on the one account the node was created for (gen_account,
\* load_push_account and set_push_accounts in RedisClient).
NodeOwnership ==
    /\ \A n \in Nodes : \A k \in DOMAIN node[n] : node[n][k] = owner[n]
    /\ \A d \in Devices, a \in AccountIds :
          account[d][a] # NoNode => owner[account[d][a]] = Owner(d, a)

\* RightRecipient: the message a thread is about to post goes to a channel of
\* the device, and carries the account id, that the PubSub node was created for,
\* although message_handler reads Redis five times while the registry changes
\* under it (message_handler, on_v1/v2_message_for_node, send_test_push).
RightRecipient ==
    /\ xmpp.pc = "send" =>
          /\ owner[xmpp.node] = Owner(xmpp.device, xmpp.account)
          /\ UriOwner[xmpp.uri] = xmpp.device
    /\ asio.pc = "testPush" => UriOwner[asio.uri] = asio.device

\* The device whose request the asio thread works on in this step.
ServedDevice == IF Quiet THEN asio'.device ELSE asio.device

\* What Redis, the XMPP server and the token generator hold for a device.
Untouched(d) ==
    /\ device'[d] = device[d]
    /\ account'[d] = account[d]
    /\ \A n \in Nodes :
          owner[n] # NoOwner /\ owner[n].device = d =>
             /\ node'[n] = node[n]
             /\ owner'[n] = owner[n]
             /\ (n \in pubsub') = (n \in pubsub)

\* ForeignDataUntouched: what either thread does for a request or an event never changes
\* the records, the nodes or the subscriptions of another device, wherever it stops
\* (PushServer::set_push_accounts). Entries that expire do so without them.
ForeignDataUntouched ==
    [][ <<asio, xmpp>>' # <<asio, xmpp>> =>
          \A d \in Devices : d # ServedDevice => Untouched(d) ]_vars

\* StoreMatchesResponse: between requests, the account keys of a device are those
\* its list names, which are those its last response named, with the same nodes;
\* the connection may come and go, but nothing crashes and Redis does not fail
\* (RedisClient::set_push_accounts, set_channel_uri).
StoreMatchesResponse ==
    Quiet => \A d \in Devices :
        /\ {a \in AccountIds : account[d][a] # NoNode} = listed(d)
        /\ listed(d) = {told[d][j].id : j \in DOMAIN told[d]}
        /\ \A j \in DOMAIN told[d] :
              (\A k \in DOMAIN told[d] : k > j => told[d][k].id # told[d][j].id)
                 => account[d][told[d][j].id] = told[d][j].node

\* NodesFollowAccounts: with a healthy connection and no failures, between
\* requests the PubSub nodes are exactly those of the registered accounts, and
\* every account was answered with success (deleteNodes/addNodes in
\* PushServer::set_push_accounts).
NodesFollowAccounts ==
    Quiet =>
        /\ pubsub = UNION {get_push_nodes(d) : d \in Devices}
        /\ \A d \in Devices : \A j \in DOMAIN told[d] : told[d][j].success

\* RequestsEnd: every handler the asio thread starts comes to an end, so that the
\* next request of any client is read.
RequestsEnd == (asio.pc # "idle") ~> (asio.pc = "idle")

\* EventDelivered: an event for a node that has a channel when it reaches the head
\* of the inbox is posted, unless the registration it belongs to is being changed;
\* requests of other devices and test pushes never cost a message (message_handler,
\* on_v1/v2_message_for_node).
Waiting(n) == /\ inbox # <<>> /\ Head(inbox) = n
              /\ has_node_record(n) /\ get_channel_uri(node[n][1].device) # NoUri
Posting(n) == xmpp.pc = "send" /\ xmpp.node = n
Changing(d) == asio.pc # "testPush" /\ asio.device = d
EventDelivered ==
    \A d \in Devices, n \in Nodes :
        Waiting(n) /\ node[n][1].device = d ~> Posting(n) \/ Changing(d)

-----------------------------------------------------------------------------
(* The abstract registry this one implements (Registrations).              *)

\* A set_channel_uri takes effect with the deletion of the device's list, a
\* set_push_accounts with the first of its writes.
Storing(d) == asio.device = d /\ asio.pc \in {"clear", "store", "storeNode"}
Renewing(d) == asio.device = d /\ asio.pc = "storeUri"

channelOf(d) == IF Storing(d) \/ Renewing(d) THEN asio.uri ELSE device[d].uri

\* The node of the last mention of an account in the request.
requested(a) ==
    LET at == {j \in DOMAIN asio.accounts : asio.accounts[j].id = a}
    IN IF at = {} THEN NoNode
       ELSE asio.accounts[CHOOSE j \in at : \A k \in at : k <= j].node

accountsOf(d) ==
    [a \in AccountIds |->
        IF Storing(d) THEN requested(a)
        ELSE IF a \in (IF Renewing(d) THEN Range(asio.keys) ELSE listed(d))
               THEN account[d][a] ELSE NoNode]

Push(d, u, n) == [device |-> d, uri |-> u, node |-> n]

R == INSTANCE Registrations WITH
        channel <- [d \in Devices |-> channelOf(d)],
        accounts <- [d \in Devices |-> accountsOf(d)],
        request <- IF asio.pc = "nodes"
                     THEN [device |-> asio.device, ids |-> {p.id : p \in Range(asio.accounts)}]
                     ELSE [device |-> NoDevice, ids |-> {}],
        posts <- (IF xmpp.pc = "send" THEN {Push(xmpp.device, xmpp.uri, xmpp.node)} ELSE {})
                   \union (IF asio.pc = "testPush" THEN {Push(asio.device, asio.uri, NoNode)} ELSE {})

\* RefinesRegistrations: with Redis answering, whatever the two threads read and write
\* between each other's commands is what atomic requests would do: renewing a channel
\* keeps the accounts, replacing the accounts keeps the channel, and a push goes to the
\* channel the device has when it is routed (RedisClient::set_channel_uri,
\* set_push_accounts, message_handler).
RefinesRegistrations == R!Spec

-----------------------------------------------------------------------------
(* What the documentation and the comments say, and the code does not do.  *)

\* ActiveAccountsRoutable: between requests every account a device registered has
\* a node whose events can be routed. The README (line 54) has the message list
\* "all account IDs for those, that should receive push notifications".
ActiveAccountsRoutable ==
    Quiet => \A d \in Devices : \A a \in listed(d) : has_node_record(account[d][a])

\* OnlyActiveAccountsRoutable: between requests no event of an account the device
\* no longer lists can reach it. The README (line 56): "This ensures, the client
\* only receives notifications for those accounts, that are still active."
OnlyActiveAccountsRoutable ==
    Quiet => \A n \in pubsub :
        has_node_record(n) /\ get_channel_uri(node[n][1].device) # NoUri
           => owner[n].account \in listed(owner[n].device)

\* SuccessMeansNode: an account answered with success has its PubSub node. The
\* README (line 81): "The success attribute indicates if creating a PubSub node
\* was successful for the account."
SuccessMeansNode ==
    Quiet => \A d \in Devices : \A j \in DOMAIN told[d] :
        told[d][j].success => told[d][j].node \in pubsub

\* ListedNodesFound: the assertion in RedisClient::get_push_nodes (line 85) holds
\* for whatever device a request may come from.
ListedNodesFound == Quiet => \A d \in Devices : NodesFound(d)

\* OnlyVersionTwoPayloads: with clients that all speak version 2, no version 1
\* payload is posted. The README (line 176): "we do not simply forward the received
\* message from the XMPP server ... Instead we only send the account_id".
OnlyVersionTwoPayloads == xmpp.pc = "send" => xmpp.kind = "v2"

=============================================================================
