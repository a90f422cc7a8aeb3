------------------------- MODULE PushRegistryProofs -------------------------
(***************************************************************************)
(* Proofs about PushRegistry, for every set of devices, accounts, nodes and*)
(* channels, every bound and every combination of faults.                  *)
(***************************************************************************)
EXTENDS PushRegistry, TLAPS

-----------------------------------------------------------------------------
(* Type correctness.                                                       *)

\* A handler that has begun knows whom it works for, and its loop is in bounds.
LocalsSet ==
    /\ asio.pc # "idle" => asio.device \in Devices
    /\ asio.pc = "storeNode" => asio.i \in DOMAIN asio.accounts
    /\ xmpp.pc # "idle" => xmpp.node \in Nodes
    /\ xmpp.pc = "uri" => xmpp.device \in Devices

TypeInv == TypeOK /\ LocalsSet

\* The local variables a handler starts with are well typed.
LEMMA IdleThreadsTyped == IdleAsio \in AsioThread /\ IdleXmpp \in XmppThread
BY DEF IdleAsio, IdleXmpp, AsioThread, XmppThread, NoVersion, PushAccount

LEMMA NoRecordTyped == NoRecord \in DeviceRecord
BY DEF NoRecord, DeviceRecord, NoVersion

\* The invariant holds initially.
LEMMA InitTypeInv == Init => TypeInv
<1>1. Init => TypeOK
  BY ConstantsAssumption, IdleThreadsTyped, NoRecordTyped
  DEF Init, TypeOK, NodeRecord, PushAccount
<1>2. Init => LocalsSet
  BY DEF Init, LocalsSet, IdleAsio, IdleXmpp
<1> QED
  BY <1>1, <1>2 DEF TypeInv

\* A request is a sequence of account ids.
LEMMA RequestsTyped == \A ids \in Requests : ids \in Seq(AccountIds)
BY ConstantsAssumption DEF Requests

\* The accounts of a request, with the nodes chosen for them, are well typed.
LEMMA ChoicesTyped ==
    ASSUME NEW d, NEW ids \in Seq(AccountIds), NEW nodes \in NodeChoices(d, ids)
    PROVE  /\ nodes \in [1..Len(ids) -> Nodes]
           /\ [j \in DOMAIN ids |->
                 [id |-> ids[j], node |-> nodes[j], success |-> reusable(d, ids[j])]]
                 \in Seq(PushAccount)
           /\ AddNodes(d, nodes) \in SUBSET Nodes
<1>1. nodes \in [1..Len(ids) -> Nodes]
  BY DEF NodeChoices
<1>2. \A a \in AccountIds : reusable(d, a) \in BOOLEAN
  BY DEF reusable
<1>3. DOMAIN ids = 1..Len(ids) /\ Len(ids) \in Nat
  OBVIOUS
<1>4. Range(nodes) \subseteq Nodes
  BY <1>1 DEF Range
<1>5. AddNodes(d, nodes) \in SUBSET Nodes
  BY <1>4 DEF AddNodes
<1>6. \A j \in 1..Len(ids) :
        [id |-> ids[j], node |-> nodes[j], success |-> reusable(d, ids[j])] \in PushAccount
  BY <1>1, <1>2 DEF PushAccount
<1> QED
  BY <1>1, <1>3, <1>5, <1>6

\* The nodes of a device that passed the assertion are nodes.
LEMMA PushNodesTyped ==
    ASSUME TypeOK, NEW d \in Devices, NodesFound(d)
    PROVE  get_push_nodes(d) \subseteq Nodes
<1>1. listed(d) \subseteq AccountIds
  BY DEF TypeOK, DeviceRecord, listed, Range
<1> QED
  BY <1>1 DEF TypeOK, NodesFound, get_push_nodes

\* A process that starts again starts with idle threads.
LEMMA RestartTypeInv == TypeInv /\ Restart => TypeInv'
<1>1. TypeInv /\ Restart => TypeOK'
  BY IdleThreadsTyped DEF TypeInv, TypeOK, Restart, redisVars, historyVars
<1>2. TypeInv /\ Restart => LocalsSet'
  BY DEF Restart, LocalsSet, IdleAsio, IdleXmpp
<1> QED
  BY <1>1, <1>2 DEF TypeInv

\* A request that asio receives leaves the types alone.
LEMMA AsioReceiveTypeInv == TypeInv /\ AsioReceive => TypeInv'
<1> SUFFICES ASSUME TypeOK, LocalsSet, NEW d \in Devices,
                    \/ \E u \in Uris : SetChannelUri(d, u)
                    \/ RequestTestPush(d)
                    \/ \E v \in Versions, ids \in Requests : SetPushAccounts(d, v, ids)
                    \/ AbortOnMissingNode(d)
             PROVE  TypeInv'
  BY DEF AsioReceive, TypeInv
<1> USE IdleThreadsTyped
<1>1. ASSUME NEW u \in Uris, SetChannelUri(d, u) PROVE TypeInv'
  <2>1. device' \in [Devices -> DeviceRecord]
    BY <1>1, NoRecordTyped DEF TypeOK, SetChannelUri
  <2>2. device[d] \in DeviceRecord
    BY DEF TypeOK
  <2>3. asio' \in AsioThread
    BY <1>1, <2>2 DEF SetChannelUri, get_version, DeviceRecord, AsioThread
  <2>4. TypeOK'
    BY <1>1, <2>1, <2>3 DEF TypeOK, SetChannelUri, xmppServerVars, historyVars
  <2>5. LocalsSet'
    BY <1>1 DEF LocalsSet, SetChannelUri, IdleAsio
  <2> QED
    BY <2>4, <2>5 DEF TypeInv
<1>2. CASE RequestTestPush(d)
  <2>1. device[d] \in DeviceRecord
    BY DEF TypeOK
  <2>2. asio' \in AsioThread
    BY <1>2, <2>1
    DEF RequestTestPush, get_version, get_channel_uri, DeviceRecord, AsioThread
  <2>3. TypeOK'
    BY <1>2, <2>2 DEF TypeOK, RequestTestPush, redisVars, xmppServerVars, historyVars
  <2>4. LocalsSet'
    BY <1>2 DEF LocalsSet, RequestTestPush, IdleAsio
  <2> QED
    BY <2>3, <2>4 DEF TypeInv
<1>3. ASSUME NEW v \in Versions, NEW ids \in Requests, SetPushAccounts(d, v, ids)
      PROVE  TypeInv'
  <2>1. PICK nodes \in NodeChoices(d, ids) :
          /\ asio' = [IdleAsio EXCEPT
               !.pc = "nodes", !.device = d, !.version = v, !.uri = get_channel_uri(d),
               !.accounts = [j \in DOMAIN ids |->
                   [id |-> ids[j], node |-> nodes[j], success |-> reusable(d, ids[j])]],
               !.deleteNodes = get_push_nodes(d) \ Range(nodes),
               !.addNodes = AddNodes(d, nodes)]
          /\ owner' = [n \in Nodes |->
               IF owner[n] = NoOwner /\ n \in Range(nodes)
                 THEN Owner(d, ids[CHOOSE j \in DOMAIN ids : nodes[j] = n])
                 ELSE owner[n]]
    BY <1>3 DEF SetPushAccounts
  <2>2. ids \in Seq(AccountIds) /\ v \in 0..2
    BY RequestsTyped, ConstantsAssumption
  <2>3. get_push_nodes(d) \subseteq Nodes
    BY <1>3, PushNodesTyped DEF SetPushAccounts
  <2>4. get_channel_uri(d) \in Uris \union {NoUri}
    BY DEF TypeOK, DeviceRecord, get_channel_uri
  <2> DEFINE pushAccounts == [j \in DOMAIN ids |->
          [id |-> ids[j], node |-> nodes[j], success |-> reusable(d, ids[j])]]
  <2>5. /\ nodes \in [1..Len(ids) -> Nodes]
        /\ pushAccounts \in Seq(PushAccount)
        /\ AddNodes(d, nodes) \in SUBSET Nodes
    BY <2>2, ChoicesTyped
  <2>6. asio' = [pc |-> "nodes", device |-> d, uri |-> get_channel_uri(d), version |-> v,
                 accounts |-> pushAccounts, deleteNodes |-> get_push_nodes(d) \ Range(nodes),
                 addNodes |-> AddNodes(d, nodes), keys |-> <<>>, i |-> 1]
    BY <2>1 DEF IdleAsio
  <2> HIDE DEF pushAccounts
  <2>7. asio' \in AsioThread
    BY <2>2, <2>3, <2>4, <2>5, <2>6 DEF AsioThread
  <2>8. owner' \in [Nodes -> NodeRecord \union {NoOwner}]
    <3>1. ASSUME NEW n \in Nodes, n \in Range(nodes)
          PROVE  Owner(d, ids[CHOOSE j \in DOMAIN ids : nodes[j] = n]) \in NodeRecord
      <4>1. \E j \in DOMAIN ids : nodes[j] = n
        BY <2>5, <3>1 DEF Range
      <4>2. (CHOOSE j \in DOMAIN ids : nodes[j] = n) \in DOMAIN ids
        BY <4>1
      <4> QED
        BY <2>2, <4>2 DEF Owner, NodeRecord
    <3> QED
      BY <2>1, <3>1 DEF TypeOK
  <2>9. TypeOK'
    BY <1>3, <2>7, <2>8 DEF TypeOK, SetPushAccounts, redisVars, xmppServerVars
  <2>10. LocalsSet'
    BY <1>3, <2>6 DEF LocalsSet, SetPushAccounts
  <2> QED
    BY <2>9, <2>10 DEF TypeInv
<1>4. CASE AbortOnMissingNode(d)
  BY <1>4, RestartTypeInv DEF TypeInv, AbortOnMissingNode
<1> QED
  BY <1>1, <1>2, <1>3, <1>4

\* A step of a handler that asio has begun leaves the types alone.
LEMMA AsioStepTypeInv == TypeInv /\ AsioStep => TypeInv'
<1> SUFFICES ASSUME TypeOK, LocalsSet, AsioStep PROVE TypeInv'
  BY DEF TypeInv
<1> USE DEF redisVars, xmppServerVars, historyVars
<1>0. /\ asio \in AsioThread
      /\ asio.accounts \in Seq(PushAccount)
      /\ \A j \in DOMAIN asio.accounts : asio.accounts[j] \in PushAccount
      /\ asio.i + 1 \in Nat \ {0} /\ 1 \in Nat \ {0}
  BY DEF TypeOK, AsioThread
<1>1. CASE StoreUri
  <2>1. [uri |-> asio.uri, version |-> asio.version, accounts |-> asio.keys] \in DeviceRecord
    BY <1>0 DEF AsioThread, DeviceRecord
  <2>2. TypeOK'
    BY <1>1, <2>1, IdleThreadsTyped DEF TypeOK, StoreUri
  <2> QED
    BY <1>1, <2>2 DEF TypeInv, LocalsSet, StoreUri, IdleAsio
<1>2. CASE SendTestPush
  BY <1>2, IdleThreadsTyped DEF TypeInv, TypeOK, LocalsSet, SendTestPush, IdleAsio
<1>3. ASSUME NEW n \in Nodes, DeletePushNode(n) PROVE TypeInv'
  <2>1. pubsub' \subseteq Nodes
    BY <1>3 DEF TypeOK, DeletePushNode, SendIq
  <2>2. asio' \in AsioThread
    BY <1>0, <1>3 DEF DeletePushNode, AsioThread
  <2>3. TypeOK'
    BY <1>3, <2>1, <2>2 DEF TypeOK, DeletePushNode
  <2> QED
    BY <1>0, <1>3, <2>3 DEF TypeInv, LocalsSet, DeletePushNode, AsioThread
<1>4. ASSUME NEW n \in Nodes, SetupPushNode(n) PROVE TypeInv'
  <2> DEFINE answered(j) ==
        IF /\ asio.accounts[j].node = n
           /\ \A k \in DOMAIN asio.accounts : k > j => asio.accounts[k].node # n
          THEN [asio.accounts[j] EXCEPT !.success = connected]
          ELSE asio.accounts[j]
  <2>1. pubsub' \subseteq Nodes
    BY <1>4 DEF TypeOK, SetupPushNode, SendIq
  <2>2. \A j \in DOMAIN asio.accounts : answered(j) \in PushAccount
    BY <1>0 DEF TypeOK, PushAccount
  <2>3. asio' = [asio EXCEPT !.addNodes = @ \ {n},
                             !.accounts = [j \in DOMAIN asio.accounts |-> answered(j)]]
    BY <1>4 DEF SetupPushNode
  <2> HIDE DEF answered
  <2>4. [j \in DOMAIN asio.accounts |-> answered(j)] \in Seq(PushAccount)
    BY <1>0, <2>2
  <2>5. asio' \in AsioThread
    BY <1>0, <2>3, <2>4 DEF AsioThread
  <2>6. TypeOK'
    BY <1>4, <2>1, <2>5 DEF TypeOK, SetupPushNode
  <2>7. LocalsSet'
    BY <1>0, <1>4, <2>3 DEF LocalsSet, SetupPushNode, AsioThread
  <2> QED
    BY <2>6, <2>7 DEF TypeInv
<1>5. CASE BeginStore
  <2>1. device[asio.device] \in DeviceRecord
    BY <1>5 DEF TypeOK, LocalsSet, BeginStore
  <2>2. asio' \in AsioThread
    BY <1>0, <1>5, <2>1 DEF BeginStore, AsioThread, DeviceRecord
  <2>3. TypeOK'
    BY <1>5, <2>2 DEF TypeOK, BeginStore
  <2> QED
    BY <1>0, <1>5, <2>3 DEF TypeInv, LocalsSet, BeginStore, AsioThread
<1>6. CASE ClearAccount
  <2>1. asio' \in AsioThread
    BY <1>0, <1>6 DEF ClearAccount, AsioThread
  <2>2. account' \in [Devices -> [AccountIds -> Nodes \union {NoNode}]]
    BY <1>6 DEF TypeOK, ClearAccount
  <2> DEFINE found == account'[asio.device][asio.keys[asio.i]]
  <2>3. node' \in [Nodes -> Seq(NodeRecord)]
    <3>1. node' = IF found # NoNode THEN [node EXCEPT ![found] = <<>>] ELSE node
      BY <1>6 DEF ClearAccount
    <3>2. <<>> \in Seq(NodeRecord) /\ node \in [Nodes -> Seq(NodeRecord)]
      BY DEF TypeOK
    <3> HIDE DEF found
    <3> QED
      BY <3>1, <3>2
  <2>4. TypeOK'
    BY <1>6, <2>1, <2>2, <2>3 DEF TypeOK, ClearAccount
  <2> QED
    BY <1>0, <1>6, <2>4 DEF TypeInv, LocalsSet, ClearAccount, AsioThread
<1>7. CASE DropDevice
  <2>1. asio' \in AsioThread
    <3>1. asio' = [asio EXCEPT !.pc = "store", !.i = 1, !.keys = <<>>]
      BY <1>7 DEF DropDevice
    <3>2. <<>> \in Seq(AccountIds)
      OBVIOUS
    <3> QED
      BY <1>0, <3>1, <3>2 DEF AsioThread
  <2>2. TypeOK'
    BY <1>7, <2>1, NoRecordTyped DEF TypeOK, DropDevice
  <2> QED
    BY <1>0, <1>7, <2>2 DEF TypeInv, LocalsSet, DropDevice, AsioThread
<1>8. CASE StoreAccount
  <2>1. asio.i \in DOMAIN asio.accounts
    BY <1>0, <1>8 DEF StoreAccount, AsioThread
  <2>2. asio' \in AsioThread
    BY <1>0, <1>8 DEF StoreAccount, AsioThread
  <2>3. account' \in [Devices -> [AccountIds -> Nodes \union {NoNode}]]
    BY <1>0, <1>8, <2>1 DEF TypeOK, StoreAccount, PushAccount
  <2>4. TypeOK'
    BY <1>8, <2>2, <2>3 DEF TypeOK, StoreAccount
  <2> QED
    BY <1>0, <1>8, <2>1, <2>4 DEF TypeInv, LocalsSet, StoreAccount, AsioThread
<1>9. CASE StoreNode
  <2>1. asio.i \in DOMAIN asio.accounts /\ asio.device \in Devices
    BY <1>9 DEF LocalsSet, StoreNode
  <2>2. asio' \in AsioThread
    BY <1>0, <1>9 DEF StoreNode, AsioThread
  <2>3. Owner(asio.device, asio.accounts[asio.i].id) \in NodeRecord
    BY <1>0, <2>1 DEF Owner, NodeRecord, PushAccount
  <2>4. node' \in [Nodes -> Seq(NodeRecord)]
    <3> DEFINE a == asio.accounts[asio.i]
    <3>1. node' = [node EXCEPT ![a.node] = Append(@, Owner(asio.device, a.id))]
      BY <1>9 DEF StoreNode
    <3>2. a.node \in Nodes
      BY <1>0, <2>1 DEF PushAccount
    <3>3. Append(node[a.node], Owner(asio.device, a.id)) \in Seq(NodeRecord)
      BY <2>3, <3>2 DEF TypeOK
    <3> HIDE DEF a
    <3> QED
      BY <3>1, <3>2, <3>3 DEF TypeOK
  <2>5. TypeOK'
    BY <1>9, <2>2, <2>4 DEF TypeOK, StoreNode
  <2> QED
    BY <1>0, <1>9, <2>5 DEF TypeInv, LocalsSet, StoreNode, AsioThread
<1>10. CASE StoreDevice
  <2>1. asio' \in AsioThread
    BY <1>0, <1>10 DEF StoreDevice, AsioThread
  <2>2. [j \in DOMAIN asio.accounts |-> asio.accounts[j].id] \in Seq(AccountIds)
    BY <1>0 DEF PushAccount
  <2>3. [uri |-> asio.uri, version |-> asio.version,
         accounts |-> [j \in DOMAIN asio.accounts |-> asio.accounts[j].id]] \in DeviceRecord
    BY <1>0, <2>2 DEF DeviceRecord, AsioThread
  <2>4. TypeOK'
    BY <1>10, <2>1, <2>3 DEF TypeOK, StoreDevice
  <2> QED
    BY <1>0, <1>10, <2>4 DEF TypeInv, LocalsSet, StoreDevice, AsioThread
<1>11. CASE Respond
  BY <1>0, <1>11, IdleThreadsTyped DEF TypeInv, TypeOK, LocalsSet, Respond, IdleAsio
<1> QED
  BY <1>1, <1>2, <1>3, <1>4, <1>5, <1>6, <1>7, <1>8, <1>9, <1>10, <1>11 DEF AsioStep

\* A step of message_handler leaves the types alone.
LEMMA XmppStepTypeInv == TypeInv /\ XmppStep => TypeInv'
<1> SUFFICES ASSUME TypeOK, LocalsSet, XmppStep PROVE TypeInv'
  BY DEF TypeInv
<1> USE IdleThreadsTyped DEF redisVars, xmppServerVars, historyVars
<1>0. /\ xmpp \in XmppThread
      /\ \A n \in Nodes : has_node_record(n) => node[n][1] \in NodeRecord
      /\ \A d \in Devices : device[d] \in DeviceRecord
  BY DEF TypeOK, has_node_record
<1>1. CASE TakeMessage
  <2>1. Head(inbox) \in Nodes \union {NoNode} /\ inbox' \in Seq(Nodes \union {NoNode})
    BY <1>1 DEF TypeOK, TakeMessage
  <2>2. xmpp' \in XmppThread
    BY <1>0, <1>1, <2>1 DEF TakeMessage, XmppThread, NodeRecord, IdleXmpp
  <2>3. TypeOK'
    BY <1>1, <2>1, <2>2 DEF TypeOK, TakeMessage
  <2>4. LocalsSet'
    BY <1>1, <2>1 DEF LocalsSet, TakeMessage, IdleXmpp
  <2> QED
    BY <2>3, <2>4 DEF TypeInv
<1>2. CASE ReadDevice
  <2>1. xmpp' \in XmppThread
    BY <1>0, <1>2 DEF ReadDevice, LocalsSet, XmppThread, NodeRecord
  <2> QED
    BY <1>0, <1>2, <2>1 DEF TypeInv, TypeOK, LocalsSet, ReadDevice, XmppThread
<1>3. CASE ReadVersion
  <2>1. xmpp' \in XmppThread
    BY <1>0, <1>3 DEF ReadVersion, XmppThread
  <2> QED
    BY <1>0, <1>3, <2>1 DEF TypeInv, TypeOK, LocalsSet, ReadVersion, XmppThread
<1>4. CASE RouteToDevice
  <2>1. xmpp.node \in Nodes
    BY <1>4 DEF RouteToDevice, LocalsSet
  <2>2. xmpp' \in XmppThread
    BY <1>0, <1>4, <2>1 DEF RouteToDevice, XmppThread, NodeRecord
  <2>3. LocalsSet'
    BY <1>0, <1>4, <2>1 DEF LocalsSet, RouteToDevice, XmppThread, NodeRecord, IdleXmpp
  <2> QED
    BY <1>4, <2>2, <2>3 DEF TypeInv, TypeOK, RouteToDevice
<1>5. CASE RouteToUri
  <2>1. device[xmpp.device] \in DeviceRecord
    BY <1>0, <1>5 DEF RouteToUri, LocalsSet
  <2>2. xmpp' \in XmppThread
    BY <1>0, <1>5, <2>1 DEF RouteToUri, XmppThread, DeviceRecord, get_channel_uri
  <2> QED
    BY <1>0, <1>5, <2>2 DEF TypeInv, TypeOK, LocalsSet, RouteToUri, XmppThread, IdleXmpp
<1>6. CASE SendPush
  BY <1>6 DEF TypeInv, TypeOK, LocalsSet, SendPush, IdleXmpp
<1> QED
  BY <1>1, <1>2, <1>3, <1>4, <1>5, <1>6 DEF XmppStep

\* What happens around the two threads leaves the types alone.
\* An entry that has expired is as one that was never written.
LEMMA ExpireTyped == TypeInv /\ Expire => TypeInv'
<1> SUFFICES ASSUME TypeInv, Expire PROVE TypeInv'
  OBVIOUS
<1> USE DEF TypeInv, TypeOK
<1>0. <<>> \in Seq(NodeRecord)
  OBVIOUS
<1>a. ASSUME NEW d \in Devices, NEW a \in AccountIds, ExpireAccount(d, a)
      PROVE  device' = device /\ node' = node
                /\ account' \in [Devices -> [AccountIds -> Nodes \union {NoNode}]]
  BY <1>a DEF ExpireAccount
<1>b. ASSUME NEW n \in Nodes, ExpireNode(n)
      PROVE  device' = device /\ account' = account /\ node' \in [Nodes -> Seq(NodeRecord)]
  BY <1>0, <1>b DEF ExpireNode
<1>c. ASSUME NEW d \in Devices, ExpireDevice(d)
      PROVE  account' = account /\ node' = node /\ device' \in [Devices -> DeviceRecord]
  BY <1>c, NoRecordTyped DEF ExpireDevice
<1>1. device' \in [Devices -> DeviceRecord]
  BY <1>a, <1>b, <1>c DEF Expire
<1>2. account' \in [Devices -> [AccountIds -> Nodes \union {NoNode}]]
  BY <1>a, <1>b, <1>c DEF Expire
<1>3. node' \in [Nodes -> Seq(NodeRecord)]
  BY <1>a, <1>b, <1>c DEF Expire
<1> QED
  BY <1>1, <1>2, <1>3 DEF TypeInv, TypeOK, LocalsSet, Expire, xmppServerVars, historyVars

LEMMA EnvironmentTypeInv == TypeInv /\ Environment => TypeInv'
<1> SUFFICES ASSUME TypeInv, Environment PROVE TypeInv'
  OBVIOUS
<1> USE DEF TypeInv, redisVars, historyVars
<1>1. ASSUME NEW n \in Nodes \union {NoNode}, Publish(n) PROVE TypeInv'
  BY <1>1 DEF TypeOK, LocalsSet, Publish
<1>2. CASE Disconnect
  <2>1. connected' \in BOOLEAN
    BY <1>2 DEF Disconnect
  <2>2. inbox' \in Seq(Nodes \union {NoNode})
    BY <1>2 DEF Disconnect
  <2> QED
    BY <1>2, <2>1, <2>2 DEF TypeOK, LocalsSet, Disconnect
<1>3. CASE Connect
  BY <1>3 DEF TypeOK, LocalsSet, Connect
<1>4. CASE Crash \/ RedisFailsForXmpp
  BY <1>4, RestartTypeInv DEF Crash, RedisFailsForXmpp
<1>5. CASE RedisFails
  BY <1>5, IdleThreadsTyped DEF TypeOK, LocalsSet, RedisFails, IdleAsio, xmppServerVars
<1>6. CASE Expire
  BY <1>6, ExpireTyped
<1> QED
  BY <1>1, <1>2, <1>3, <1>4, <1>5, <1>6 DEF Environment

\* TypeOK for every instance: Redis, the inbox and the local variables of the two
\* threads hold values of the kinds the code declares, whatever fails.
THEOREM TypeCorrect == Spec => []TypeOK
<1>1. TypeInv /\ [Next]_vars => TypeInv'
  <2>1. TypeInv /\ UNCHANGED vars => TypeInv'
    BY DEF TypeInv, TypeOK, LocalsSet, vars, redisVars, xmppServerVars, historyVars
  <2> QED
    BY <2>1, AsioReceiveTypeInv, AsioStepTypeInv, XmppStepTypeInv, EnvironmentTypeInv DEF Next
<1>2. TypeInv => TypeOK
  BY DEF TypeInv
<1> QED
  BY <1>1, <1>2, InitTypeInv, PTL DEF Spec

-----------------------------------------------------------------------------
(* Node ownership and message routing. NodeOwnership and RightRecipient    *)
(* are not inductive: what a handler carries in its local variables, and   *)
(* will write or act on later, must belong to the device it serves.        *)

\* What asio is about to write belongs to the device whose request it serves.
AsioOwnership ==
    /\ \A j \in DOMAIN asio.accounts :
          owner[asio.accounts[j].node] = Owner(asio.device, asio.accounts[j].id)
    /\ \A n \in asio.deleteNodes \union asio.addNodes :
          owner[n] # NoOwner /\ owner[n].device = asio.device
    /\ asio.uri # NoUri => UriOwner[asio.uri] = asio.device
    /\ asio.pc = "testPush" => asio.uri # NoUri

\* A channel is stored for the device it was issued to.
ChannelOwnership ==
    \A d \in Devices : device[d].uri # NoUri => UriOwner[device[d].uri] = d

\* What message_handler has read so far belongs to the node of the event.
XmppOwnership ==
    /\ xmpp.pc # "idle" =>
          owner[xmpp.node] # NoOwner /\ owner[xmpp.node].account = xmpp.account
    /\ xmpp.pc \in {"uri", "send"} =>
          xmpp.device \in Devices /\ owner[xmpp.node].device = xmpp.device
    /\ xmpp.pc = "send" => xmpp.uri \in Uris /\ UriOwner[xmpp.uri] = xmpp.device

Ownership == NodeOwnership /\ AsioOwnership /\ ChannelOwnership /\ XmppOwnership

OwnershipInv == TypeInv /\ Ownership

\* Every node somebody was told of or Redis knows has an owner.
LEMMA RecordsAreNotNoOwner ==
    /\ NoOwner \notin NodeRecord
    /\ \A d \in Devices, a \in AccountIds :
          /\ Owner(d, a) \in NodeRecord
          /\ Owner(d, a).device = d /\ Owner(d, a).account = a
BY ConstantsAssumption DEF NodeRecord, Owner

LEMMA InitOwnershipInv == Init => OwnershipInv
<1> SUFFICES ASSUME Init PROVE Ownership
  BY InitTypeInv DEF OwnershipInv
<1>1. NodeOwnership
  BY DEF Init, NodeOwnership
<1>2. AsioOwnership
  BY DEF Init, AsioOwnership, IdleAsio
<1>3. ChannelOwnership
  BY DEF Init, ChannelOwnership, NoRecord
<1>4. XmppOwnership
  BY DEF Init, XmppOwnership, IdleXmpp
<1> QED
  BY <1>1, <1>2, <1>3, <1>4 DEF Ownership

\* An idle asio thread carries nothing that could belong to the wrong device.
LEMMA IdleAsioOwnership == asio' = IdleAsio => AsioOwnership'
BY DEF AsioOwnership, IdleAsio

\* A restarted process has lost its local variables, and with them their owners.
LEMMA RestartOwnership == OwnershipInv /\ Restart => Ownership'
<1> SUFFICES ASSUME OwnershipInv, Restart PROVE Ownership'
  OBVIOUS
<1> USE DEF OwnershipInv, Ownership, Restart, redisVars, historyVars
<1>1. NodeOwnership' /\ ChannelOwnership'
  BY DEF NodeOwnership, ChannelOwnership
<1>2. AsioOwnership'
  BY IdleAsioOwnership
<1>3. XmppOwnership'
  BY DEF XmppOwnership, IdleXmpp
<1> QED
  BY <1>1, <1>2, <1>3

\* A node that has an owner keeps it: only a fresh token gets one.
LEMMA OwnersStay ==
    ASSUME TypeInv, AsioReceive \/ AsioStep \/ XmppStep \/ Environment,
           NEW n \in Nodes, owner[n] # NoOwner
    PROVE  owner'[n] = owner[n]
<1>1. CASE AsioReceive
  <2>1. ASSUME NEW d \in Devices, NEW v \in Versions, NEW ids \in Requests,
               SetPushAccounts(d, v, ids)
        PROVE  owner'[n] = owner[n]
    BY <2>1 DEF SetPushAccounts
  <2> QED
    BY <1>1, <2>1 DEF AsioReceive, SetChannelUri, RequestTestPush, AbortOnMissingNode,
                      Restart, historyVars
<1>2. CASE AsioStep
  BY <1>2 DEF AsioStep, StoreUri, SendTestPush, DeletePushNode, SetupPushNode, BeginStore,
              ClearAccount, DropDevice, StoreAccount, StoreNode, StoreDevice, Respond,
              historyVars
<1>3. CASE XmppStep
  BY <1>3 DEF XmppStep, TakeMessage, ReadDevice, ReadVersion, RouteToDevice, RouteToUri,
              SendPush, historyVars
<1>4. CASE Environment
  BY <1>4 DEF Environment, Publish, Disconnect, Connect, Crash, RedisFails,
              RedisFailsForXmpp, Restart, Expire, historyVars
<1> QED
  BY <1>1, <1>2, <1>3, <1>4

\* The nodes of a request belong to the accounts of the request: a reused node
\* already did, and a fresh token is drawn for exactly one of them.
LEMMA ChosenNodesOwned ==
    ASSUME OwnershipInv, NEW d \in Devices, NEW ids \in Seq(AccountIds),
           NEW nodes \in NodeChoices(d, ids),
           owner' = [n \in Nodes |->
               IF owner[n] = NoOwner /\ n \in Range(nodes)
                 THEN Owner(d, ids[CHOOSE j \in DOMAIN ids : nodes[j] = n])
                 ELSE owner[n]]
    PROVE  \A j \in DOMAIN ids : owner'[nodes[j]] = Owner(d, ids[j])
<1> SUFFICES ASSUME NEW j \in DOMAIN ids PROVE owner'[nodes[j]] = Owner(d, ids[j])
  OBVIOUS
<1>1. nodes \in [DOMAIN ids -> Nodes]
  BY DEF NodeChoices
<1>2. nodes[j] \in Nodes /\ nodes[j] \in Range(nodes) /\ ids[j] \in AccountIds
  BY <1>1 DEF Range
<1>3. CASE reusable(d, ids[j])
  <2>1. nodes[j] = account[d][ids[j]] /\ account[d][ids[j]] # NoNode
    BY <1>3 DEF NodeChoices, reusable
  <2>2. owner[nodes[j]] = Owner(d, ids[j])
    BY <1>2, <2>1 DEF OwnershipInv, Ownership, NodeOwnership
  <2>3. owner[nodes[j]] # NoOwner
    BY <1>2, <2>2, RecordsAreNotNoOwner
  <2> QED
    BY <1>2, <2>2, <2>3
<1>4. CASE ~reusable(d, ids[j])
  <2>1. owner[nodes[j]] = NoOwner
    BY <1>4 DEF NodeChoices, Fresh
  <2>2. \A k \in DOMAIN ids : nodes[k] = nodes[j] => k = j
    BY <1>4 DEF NodeChoices
  <2>3. (CHOOSE k \in DOMAIN ids : nodes[k] = nodes[j]) = j
    BY <2>2
  <2> QED
    BY <1>2, <2>1, <2>3
<1> QED
  BY <1>3, <1>4

\* A request that asio receives only picks up what belongs to its device.
LEMMA AsioReceiveOwnership == OwnershipInv /\ AsioReceive => Ownership'
<1> SUFFICES ASSUME OwnershipInv, AsioReceive, NEW d \in Devices,
                    \/ \E u \in Uris : SetChannelUri(d, u)
                    \/ RequestTestPush(d)
                    \/ \E v \in Versions, ids \in Requests : SetPushAccounts(d, v, ids)
                    \/ AbortOnMissingNode(d)
             PROVE  Ownership'
  BY DEF AsioReceive
<1> USE DEF OwnershipInv, Ownership
<1>1. ASSUME NEW u \in Uris, SetChannelUri(d, u) PROVE Ownership'
  <2>1. AsioOwnership'
    <3>1. /\ asio'.pc = "storeUri" /\ asio'.device = d /\ asio'.uri = u
          /\ asio'.accounts = <<>> /\ asio'.deleteNodes = {} /\ asio'.addNodes = {}
          /\ UriOwner[u] = d
      BY <1>1 DEF SetChannelUri, IdleAsio
    <3> QED
      BY <3>1 DEF AsioOwnership
  <2>2. ChannelOwnership'
    BY <1>1 DEF ChannelOwnership, TypeInv, TypeOK, SetChannelUri, NoRecord
  <2>3. NodeOwnership' /\ XmppOwnership'
    BY <1>1 DEF NodeOwnership, XmppOwnership, SetChannelUri, historyVars
  <2> QED
    BY <2>1, <2>2, <2>3
<1>2. CASE RequestTestPush(d)
  <2>1. AsioOwnership'
    BY <1>2 DEF AsioOwnership, ChannelOwnership, RequestTestPush, get_channel_uri, IdleAsio
  <2>2. NodeOwnership' /\ ChannelOwnership' /\ XmppOwnership'
    BY <1>2 DEF NodeOwnership, ChannelOwnership, XmppOwnership, RequestTestPush,
                redisVars, historyVars
  <2> QED
    BY <2>1, <2>2
<1>3. ASSUME NEW v \in Versions, NEW ids \in Requests, SetPushAccounts(d, v, ids)
      PROVE  Ownership'
  <2>1. PICK nodes \in NodeChoices(d, ids) :
          /\ asio' = [IdleAsio EXCEPT
               !.pc = "nodes", !.device = d, !.version = v, !.uri = get_channel_uri(d),
               !.accounts = [j \in DOMAIN ids |->
                   [id |-> ids[j], node |-> nodes[j], success |-> reusable(d, ids[j])]],
               !.deleteNodes = get_push_nodes(d) \ Range(nodes),
               !.addNodes = AddNodes(d, nodes)]
          /\ owner' = [n \in Nodes |->
               IF owner[n] = NoOwner /\ n \in Range(nodes)
                 THEN Owner(d, ids[CHOOSE j \in DOMAIN ids : nodes[j] = n])
                 ELSE owner[n]]
    BY <1>3 DEF SetPushAccounts
  <2>2. ids \in Seq(AccountIds)
    BY RequestsTyped
  <2>3. \A j \in DOMAIN ids : owner'[nodes[j]] = Owner(d, ids[j]) /\ ids[j] \in AccountIds
    <3>1. \A j \in DOMAIN ids : owner'[nodes[j]] = Owner(d, ids[j])
      BY <2>1, <2>2, ChosenNodesOwned
    <3>2. \A j \in DOMAIN ids : ids[j] \in AccountIds
      BY <2>2
    <3> QED
      BY <3>1, <3>2
  <2>4. \A n \in Nodes : owner[n] # NoOwner => owner'[n] = owner[n]
    BY <2>1
  <2>5. NodeOwnership'
    <3>1. ASSUME NEW n \in Nodes, NEW k \in DOMAIN node[n]
          PROVE  node[n][k] = owner'[n]
      <4>1. node[n][k] \in NodeRecord /\ node[n][k] = owner[n]
        BY DEF TypeInv, TypeOK, NodeOwnership
      <4> QED
        BY <4>1, <2>4, RecordsAreNotNoOwner
    <3>2. ASSUME NEW e \in Devices, NEW a \in AccountIds, account[e][a] # NoNode
          PROVE  owner'[account[e][a]] = Owner(e, a)
      <4>1. account[e][a] \in Nodes
        BY <3>2 DEF TypeInv, TypeOK
      <4>2. owner[account[e][a]] = Owner(e, a)
        BY <3>2 DEF NodeOwnership
      <4> QED
        BY <4>1, <4>2, <2>4, RecordsAreNotNoOwner
    <3> QED
      BY <1>3, <3>1, <3>2 DEF NodeOwnership, SetPushAccounts, redisVars
  <2>6. \A n \in get_push_nodes(d) : owner'[n] # NoOwner /\ owner'[n].device = d
    <3> SUFFICES ASSUME NEW a \in listed(d)
                 PROVE  /\ owner'[account[d][a]] # NoOwner
                        /\ owner'[account[d][a]].device = d
      BY DEF get_push_nodes
    <3>1. a \in AccountIds
      BY DEF TypeInv, TypeOK, DeviceRecord, listed, Range
    <3>2. account[d][a] # NoNode /\ account[d][a] \in Nodes
      <4>1. account[d][a] \in get_push_nodes(d)
        BY DEF get_push_nodes
      <4>2. NodesFound(d)
        BY <1>3 DEF SetPushAccounts
      <4> QED
        BY <4>1, <4>2, <3>1, PushNodesTyped DEF NodesFound, TypeInv
    <3>3. owner[account[d][a]] = Owner(d, a)
      BY <3>1, <3>2 DEF NodeOwnership
    <3> QED
      BY <3>1, <3>2, <3>3, <2>4, RecordsAreNotNoOwner
  <2>7. \A n \in AddNodes(d, nodes) : owner'[n] # NoOwner /\ owner'[n].device = d
    <3>1. \A n \in AddNodes(d, nodes) : \E j \in DOMAIN ids : n = nodes[j]
      BY DEF AddNodes, Range, NodeChoices
    <3> QED
      BY <3>1, <2>3, RecordsAreNotNoOwner
  <2>8. asio'.uri # NoUri => UriOwner[asio'.uri] = d
    BY <2>1 DEF IdleAsio, ChannelOwnership, get_channel_uri
  <2>9. AsioOwnership'
    <3> DEFINE pushAccounts == [j \in DOMAIN ids |->
            [id |-> ids[j], node |-> nodes[j], success |-> reusable(d, ids[j])]]
    <3>1. /\ asio'.pc = "nodes" /\ asio'.device = d
          /\ asio'.accounts = pushAccounts
          /\ asio'.deleteNodes = get_push_nodes(d) \ Range(nodes)
          /\ asio'.addNodes = AddNodes(d, nodes)
      BY <2>1 DEF IdleAsio
    <3>2. \A j \in DOMAIN pushAccounts :
             owner'[pushAccounts[j].node] = Owner(d, pushAccounts[j].id)
      BY <2>3
    <3> HIDE DEF pushAccounts
    <3> QED
      BY <3>1, <3>2, <2>6, <2>7, <2>8 DEF AsioOwnership
  <2>10. ChannelOwnership'
    BY <1>3 DEF ChannelOwnership, SetPushAccounts, redisVars
  <2>11. XmppOwnership'
    BY <1>3, <2>4 DEF XmppOwnership, SetPushAccounts, TypeInv, LocalsSet
  <2> QED
    BY <2>5, <2>9, <2>10, <2>11
<1>4. CASE AbortOnMissingNode(d)
  BY <1>4, RestartOwnership DEF AbortOnMissingNode
<1> QED
  BY <1>1, <1>2, <1>3, <1>4

\* asio writes only what belongs to the device it serves, in any order.
LEMMA AsioStepOwnership == OwnershipInv /\ AsioStep => Ownership'
<1> SUFFICES ASSUME OwnershipInv, AsioStep PROVE Ownership'
  OBVIOUS
<1> USE DEF OwnershipInv, Ownership
<1>0. /\ TypeOK /\ LocalsSet /\ NodeOwnership /\ AsioOwnership
      /\ ChannelOwnership /\ XmppOwnership
  BY DEF TypeInv
<1>1. CASE StoreUri
  <2>1. ChannelOwnership'
    BY <1>0, <1>1 DEF ChannelOwnership, AsioOwnership, TypeOK, StoreUri
  <2>2. NodeOwnership' /\ XmppOwnership'
    BY <1>0, <1>1 DEF NodeOwnership, XmppOwnership, StoreUri, historyVars
  <2>3. AsioOwnership'
    BY <1>1, IdleAsioOwnership DEF StoreUri
  <2> QED
    BY <2>1, <2>2, <2>3
<1>2. CASE SendTestPush
  <2>1. AsioOwnership'
    BY <1>2, IdleAsioOwnership DEF SendTestPush
  <2> QED
    BY <1>0, <1>2, <2>1 DEF NodeOwnership, ChannelOwnership, XmppOwnership, SendTestPush,
                            redisVars, historyVars
<1>3. ASSUME NEW n \in Nodes, DeletePushNode(n) PROVE Ownership'
  <2>1. AsioOwnership'
    BY <1>0, <1>3 DEF AsioOwnership, DeletePushNode, TypeOK, AsioThread, historyVars
  <2> QED
    BY <1>0, <1>3, <2>1 DEF NodeOwnership, ChannelOwnership, XmppOwnership, DeletePushNode,
                            redisVars, historyVars
<1>4. ASSUME NEW n \in Nodes, SetupPushNode(n) PROVE Ownership'
  <2>1. AsioOwnership'
    <3>1. /\ asio'.pc = asio.pc /\ asio'.device = asio.device /\ asio'.uri = asio.uri
          /\ asio'.deleteNodes = asio.deleteNodes
          /\ asio'.addNodes = asio.addNodes \ {n}
      BY <1>0, <1>4 DEF SetupPushNode, TypeOK, AsioThread
    <3>2. /\ DOMAIN asio'.accounts = DOMAIN asio.accounts
          /\ \A j \in DOMAIN asio.accounts :
                /\ asio'.accounts[j].node = asio.accounts[j].node
                /\ asio'.accounts[j].id = asio.accounts[j].id
      <4>1. \A j \in DOMAIN asio.accounts : asio.accounts[j] \in PushAccount
        BY <1>0 DEF TypeOK, AsioThread
      <4> QED
        BY <1>0, <1>4, <4>1 DEF SetupPushNode, TypeOK, AsioThread, PushAccount
    <3>3. owner' = owner
      BY <1>4 DEF SetupPushNode, historyVars
    <3> QED
      BY <1>0, <3>1, <3>2, <3>3 DEF AsioOwnership
  <2> QED
    BY <1>0, <1>4, <2>1 DEF NodeOwnership, ChannelOwnership, XmppOwnership, SetupPushNode,
                            redisVars, historyVars
<1>5. CASE BeginStore
  <2>1. AsioOwnership'
    BY <1>0, <1>5 DEF AsioOwnership, BeginStore, TypeOK, AsioThread, historyVars
  <2> QED
    BY <1>0, <1>5, <2>1 DEF NodeOwnership, ChannelOwnership, XmppOwnership, BeginStore,
                            redisVars, historyVars
<1>6. CASE ClearAccount
  <2>1. AsioOwnership'
    BY <1>0, <1>6 DEF AsioOwnership, ClearAccount, TypeOK, AsioThread, historyVars
  <2>2. \A n \in Nodes : node'[n] = node[n] \/ node'[n] = <<>>
    BY <1>0, <1>6 DEF ClearAccount, TypeOK
  <2>3. \A d \in Devices, a \in AccountIds :
           account'[d][a] = account[d][a] \/ account'[d][a] = NoNode
    BY <1>0, <1>6 DEF ClearAccount, TypeOK
  <2>4. NodeOwnership'
    BY <1>0, <1>6, <2>2, <2>3 DEF NodeOwnership, ClearAccount, historyVars
  <2> QED
    BY <1>0, <1>6, <2>1, <2>4 DEF ChannelOwnership, XmppOwnership, ClearAccount, historyVars
<1>7. CASE DropDevice
  <2>1. AsioOwnership'
    BY <1>0, <1>7 DEF AsioOwnership, DropDevice, TypeOK, AsioThread, historyVars
  <2>2. ChannelOwnership'
    BY <1>0, <1>7 DEF ChannelOwnership, DropDevice, TypeOK, NoRecord
  <2> QED
    BY <1>0, <1>7, <2>1, <2>2 DEF NodeOwnership, XmppOwnership, DropDevice, historyVars
<1>8. CASE StoreAccount
  <2> DEFINE a == asio.accounts[asio.i]
  <2>1. owner[a.node] = Owner(asio.device, a.id)
    <3>1. asio.accounts \in Seq(PushAccount) /\ asio.i \in Nat \ {0}
      BY <1>0 DEF TypeOK, AsioThread
    <3>2. asio.i <= Len(asio.accounts)
      BY <1>8 DEF StoreAccount
    <3>3. asio.i \in DOMAIN asio.accounts
      BY <3>1, <3>2
    <3> QED
      BY <1>0, <3>3 DEF AsioOwnership
  <2>2. account' = [account EXCEPT ![asio.device][a.id] = a.node]
    BY <1>8 DEF StoreAccount
  <2>3. \A d \in Devices, b \in AccountIds :
           \/ account'[d][b] = account[d][b]
           \/ d = asio.device /\ b = a.id /\ account'[d][b] = a.node
    <3> HIDE DEF a
    <3> QED
      BY <1>0, <2>2 DEF TypeOK
  <2>4. NodeOwnership'
    BY <1>0, <1>8, <2>1, <2>3 DEF NodeOwnership, StoreAccount, historyVars
  <2>5. AsioOwnership'
    BY <1>0, <1>8 DEF AsioOwnership, StoreAccount, TypeOK, AsioThread, historyVars
  <2> QED
    BY <1>0, <1>8, <2>4, <2>5 DEF ChannelOwnership, XmppOwnership, StoreAccount, historyVars
<1>9. CASE StoreNode
  <2> DEFINE a == asio.accounts[asio.i]
  <2>1. owner[a.node] = Owner(asio.device, a.id) /\ a.node \in Nodes
    <3>1. asio.accounts \in Seq(PushAccount)
      BY <1>0 DEF TypeOK, AsioThread
    <3>2. asio.i \in DOMAIN asio.accounts
      BY <1>0, <1>9 DEF LocalsSet, StoreNode
    <3>3. owner[a.node] = Owner(asio.device, a.id)
      BY <1>0, <3>2 DEF AsioOwnership
    <3>4. a \in PushAccount
      BY <3>1, <3>2
    <3> QED
      BY <3>3, <3>4 DEF PushAccount
  <2>2. node' = [node EXCEPT ![a.node] = Append(@, Owner(asio.device, a.id))]
    BY <1>9 DEF StoreNode
  <2>3. ASSUME NEW n \in Nodes, NEW k \in DOMAIN node'[n] PROVE node'[n][k] = owner[n]
    <3> HIDE DEF a
    <3>1. node[n] \in Seq(NodeRecord) /\ \A l \in DOMAIN node[n] : node[n][l] = owner[n]
      BY <1>0 DEF TypeOK, NodeOwnership
    <3>2. CASE n = a.node
      <4>1. node'[n] = Append(node[n], owner[n])
        BY <1>0, <2>1, <2>2, <3>2 DEF TypeOK
      <4> QED
        BY <3>1, <4>1
    <3>3. CASE n # a.node
      <4>1. node'[n] = node[n]
        BY <1>0, <2>2, <3>3 DEF TypeOK
      <4> QED
        BY <3>1, <4>1
    <3> QED
      BY <3>2, <3>3
  <2>4. NodeOwnership'
    BY <1>0, <1>9, <2>3 DEF NodeOwnership, StoreNode, historyVars
  <2>5. AsioOwnership'
    BY <1>0, <1>9 DEF AsioOwnership, StoreNode, TypeOK, AsioThread, historyVars
  <2> QED
    BY <1>0, <1>9, <2>4, <2>5 DEF ChannelOwnership, XmppOwnership, StoreNode, historyVars
<1>10. CASE StoreDevice
  <2>1. AsioOwnership'
    BY <1>0, <1>10 DEF AsioOwnership, StoreDevice, TypeOK, AsioThread, historyVars
  <2>2. ChannelOwnership'
    BY <1>0, <1>10 DEF ChannelOwnership, AsioOwnership, StoreDevice, TypeOK
  <2> QED
    BY <1>0, <1>10, <2>1, <2>2 DEF NodeOwnership, XmppOwnership, StoreDevice, historyVars
<1>11. CASE Respond
  <2>1. AsioOwnership'
    BY <1>11, IdleAsioOwnership DEF Respond
  <2> QED
    BY <1>0, <1>11, <2>1 DEF NodeOwnership, ChannelOwnership, XmppOwnership, Respond, redisVars
<1> QED
  BY <1>1, <1>2, <1>3, <1>4, <1>5, <1>6, <1>7, <1>8, <1>9, <1>10, <1>11 DEF AsioStep

\* message_handler learns the account, the device and the channel of its node.
LEMMA XmppStepOwnership == OwnershipInv /\ XmppStep => Ownership'
<1> SUFFICES ASSUME OwnershipInv, XmppStep PROVE Ownership'
  OBVIOUS
<1> USE DEF OwnershipInv, Ownership
<1>0. /\ TypeOK /\ LocalsSet /\ NodeOwnership /\ AsioOwnership
      /\ ChannelOwnership /\ XmppOwnership
  BY DEF TypeInv
<1>1. NodeOwnership' /\ AsioOwnership' /\ ChannelOwnership'
  BY <1>0 DEF XmppStep, TakeMessage, ReadDevice, ReadVersion, RouteToDevice, RouteToUri,
              SendPush, NodeOwnership, AsioOwnership, ChannelOwnership,
              redisVars, historyVars
<1>2. ASSUME NEW n \in Nodes, has_node_record(n)
      PROVE  /\ owner[n] = node[n][1] /\ owner[n] # NoOwner
             /\ owner[n].device \in Devices
  <2>1. node[n] \in Seq(NodeRecord) /\ Len(node[n]) = 1
    BY <1>0, <1>2 DEF TypeOK, has_node_record
  <2>2. 1 \in DOMAIN node[n] /\ node[n][1] \in NodeRecord
    <3>1. \A s \in Seq(NodeRecord) : Len(s) = 1 => 1 \in DOMAIN s /\ s[1] \in NodeRecord
      OBVIOUS
    <3> QED
      BY <2>1, <3>1
  <2>3. owner[n] = node[n][1]
    BY <1>0, <2>2 DEF NodeOwnership
  <2> QED
    BY <2>2, <2>3, RecordsAreNotNoOwner DEF NodeRecord
<1>3. xmpp \in XmppThread /\ (xmpp.pc # "idle" => xmpp.node \in Nodes)
  BY <1>0 DEF TypeOK, LocalsSet
<1>4. CASE TakeMessage
  <2>1. Head(inbox) \in Nodes \union {NoNode}
    BY <1>0, <1>4 DEF TypeOK, TakeMessage
  <2>2. XmppOwnership'
    BY <1>2, <1>4, <2>1 DEF XmppOwnership, TakeMessage, IdleXmpp, historyVars
  <2> QED
    BY <1>1, <2>2
<1>5. CASE ReadDevice
  BY <1>0, <1>1, <1>3, <1>5 DEF XmppOwnership, ReadDevice, XmppThread, historyVars
<1>6. CASE ReadVersion
  BY <1>0, <1>1, <1>3, <1>6 DEF XmppOwnership, ReadVersion, XmppThread, historyVars
<1>7. CASE RouteToDevice
  <2>1. owner' = owner /\ xmpp.pc = "route"
    BY <1>7 DEF RouteToDevice, historyVars
  <2>2. CASE has_node_record(xmpp.node)
    <3>1. /\ xmpp'.pc = "uri" /\ xmpp'.device = node[xmpp.node][1].device
          /\ xmpp'.node = xmpp.node /\ xmpp'.account = xmpp.account
      BY <1>3, <1>7, <2>2 DEF RouteToDevice, XmppThread
    <3>2. XmppOwnership'
      BY <1>0, <1>2, <1>3, <2>1, <2>2, <3>1 DEF XmppOwnership
    <3> QED
      BY <1>1, <3>2
  <2>3. CASE ~has_node_record(xmpp.node)
    BY <1>1, <1>7, <2>3 DEF XmppOwnership, RouteToDevice, IdleXmpp
  <2> QED
    BY <2>2, <2>3
<1>8. CASE RouteToUri
  <2>1. owner' = owner /\ xmpp.pc = "uri" /\ xmpp.device \in Devices
    BY <1>0, <1>8 DEF RouteToUri, LocalsSet, historyVars
  <2>2. CASE get_channel_uri(xmpp.device) # NoUri
    <3>1. /\ xmpp'.pc = "send" /\ xmpp'.uri = get_channel_uri(xmpp.device)
          /\ xmpp'.node = xmpp.node /\ xmpp'.account = xmpp.account
          /\ xmpp'.device = xmpp.device
      BY <1>3, <1>8, <2>2 DEF RouteToUri, XmppThread
    <3>2. /\ get_channel_uri(xmpp.device) \in Uris
          /\ UriOwner[get_channel_uri(xmpp.device)] = xmpp.device
      BY <1>0, <2>1, <2>2 DEF TypeOK, DeviceRecord, ChannelOwnership, get_channel_uri
    <3>3. XmppOwnership'
      BY <1>0, <2>1, <3>1, <3>2 DEF XmppOwnership
    <3> QED
      BY <1>1, <3>3
  <2>3. CASE get_channel_uri(xmpp.device) = NoUri
    BY <1>1, <1>8, <2>3 DEF XmppOwnership, RouteToUri, IdleXmpp
  <2> QED
    BY <2>2, <2>3
<1>9. CASE SendPush
  BY <1>1, <1>9 DEF XmppOwnership, SendPush, IdleXmpp
<1> QED
  BY <1>4, <1>5, <1>6, <1>7, <1>8, <1>9 DEF XmppStep

\* What expires only takes names of nodes away.
LEMMA ExpireOwnership == OwnershipInv /\ Expire => Ownership'
<1> SUFFICES ASSUME OwnershipInv, Expire PROVE Ownership'
  OBVIOUS
<1> USE DEF OwnershipInv, TypeInv, TypeOK, Ownership, historyVars
<1>1. \A n \in Nodes : node'[n] \in {node[n], <<>>}
  BY DEF Expire, ExpireAccount, ExpireNode, ExpireDevice
<1>2. \A d \in Devices, a \in AccountIds : account'[d][a] \in {account[d][a], NoNode}
  <2>1. ASSUME NEW e \in Devices, NEW b \in AccountIds, ExpireAccount(e, b),
               NEW d \in Devices, NEW a \in AccountIds
        PROVE  account'[d][a] \in {account[d][a], NoNode}
    <3>1. account' = [account EXCEPT ![e][b] = NoNode]
      BY <2>1 DEF ExpireAccount
    <3>2. account'[d][a] = IF d = e /\ a = b THEN NoNode ELSE account[d][a]
      BY <3>1
    <3> QED
      BY <3>2
  <2> QED
    BY <2>1 DEF Expire, ExpireNode, ExpireDevice
<1>3. \A d \in Devices : device'[d] \in {device[d], NoRecord}
  BY DEF Expire, ExpireAccount, ExpireNode, ExpireDevice
<1>4. NodeOwnership'
  <2>1. ASSUME NEW n \in Nodes, NEW k \in DOMAIN node'[n] PROVE node'[n][k] = owner'[n]
    <3>1. node'[n] = node[n]
      BY <1>1
    <3> QED
      BY <3>1 DEF NodeOwnership, Expire
  <2>2. ASSUME NEW d \in Devices, NEW a \in AccountIds, account'[d][a] # NoNode
        PROVE  owner'[account'[d][a]] = Owner(d, a)
    BY <1>2, <2>2 DEF NodeOwnership, Expire
  <2> QED
    BY <2>1, <2>2 DEF NodeOwnership
<1>5. ChannelOwnership'
  BY <1>3 DEF ChannelOwnership, NoRecord
<1>6. AsioOwnership' /\ XmppOwnership'
  BY DEF AsioOwnership, XmppOwnership, Expire
<1> QED
  BY <1>4, <1>5, <1>6

\* Neither the connection nor a failure gives anybody's node to somebody else.
LEMMA EnvironmentOwnership == OwnershipInv /\ Environment => Ownership'
<1> SUFFICES ASSUME OwnershipInv, Environment PROVE Ownership'
  OBVIOUS
<1> USE DEF OwnershipInv, Ownership, redisVars, historyVars
<1>1. CASE Crash \/ RedisFailsForXmpp
  BY <1>1, RestartOwnership DEF Crash, RedisFailsForXmpp
<1>2. CASE RedisFails
  <2>1. AsioOwnership'
    BY <1>2, IdleAsioOwnership DEF RedisFails
  <2> QED
    BY <1>2, <2>1 DEF NodeOwnership, ChannelOwnership, XmppOwnership, RedisFails
<1>3. CASE (\E n \in Nodes \union {NoNode} : Publish(n)) \/ Disconnect \/ Connect
  BY <1>3 DEF NodeOwnership, AsioOwnership, ChannelOwnership, XmppOwnership,
              Publish, Disconnect, Connect
<1>4. CASE Expire
  BY <1>4, ExpireOwnership
<1> QED
  BY <1>1, <1>2, <1>3, <1>4 DEF Environment

\* The strengthened invariant is inductive.
THEOREM OwnershipInvariant == Spec => []OwnershipInv
<1>1. OwnershipInv /\ [Next]_vars => OwnershipInv'
  <2> SUFFICES ASSUME OwnershipInv, [Next]_vars PROVE OwnershipInv'
    OBVIOUS
  <2>1. TypeInv
    BY DEF OwnershipInv
  <2>2. CASE AsioReceive
    BY <2>1, <2>2, AsioReceiveTypeInv, AsioReceiveOwnership DEF OwnershipInv
  <2>3. CASE AsioStep
    BY <2>1, <2>3, AsioStepTypeInv, AsioStepOwnership DEF OwnershipInv
  <2>4. CASE XmppStep
    BY <2>1, <2>4, XmppStepTypeInv, XmppStepOwnership DEF OwnershipInv
  <2>5. CASE Environment
    BY <2>1, <2>5, EnvironmentTypeInv, EnvironmentOwnership DEF OwnershipInv
  <2>6. CASE UNCHANGED vars
    BY <2>6 DEF OwnershipInv, TypeInv, TypeOK, LocalsSet, Ownership, NodeOwnership,
                AsioOwnership, ChannelOwnership, XmppOwnership,
                vars, redisVars, xmppServerVars, historyVars
  <2> QED
    BY <2>2, <2>3, <2>4, <2>5, <2>6 DEF Next
<1> QED
  BY <1>1, InitOwnershipInv, PTL DEF Spec

\* NodeOwnership for every instance: no interleaving, crash or failing command lets
\* Redis mix up whose node a token is.
THEOREM NodesKeepTheirOwner == Spec => []NodeOwnership
<1>1. OwnershipInv => NodeOwnership
  BY DEF OwnershipInv, Ownership
<1> QED
  BY <1>1, OwnershipInvariant, PTL

\* RightRecipient for every instance: whatever asio does between the five reads of
\* message_handler, a push goes to the device its node was created for.
THEOREM PushesReachTheRightDevice == Spec => []RightRecipient
<1>1. OwnershipInv => RightRecipient
  <2> SUFFICES ASSUME OwnershipInv PROVE RightRecipient
    OBVIOUS
  <2>1. ASSUME xmpp.pc = "send"
        PROVE  /\ owner[xmpp.node] = Owner(xmpp.device, xmpp.account)
               /\ UriOwner[xmpp.uri] = xmpp.device
    <3>1. xmpp.node \in Nodes /\ owner[xmpp.node] \in NodeRecord
      BY <2>1 DEF OwnershipInv, TypeInv, TypeOK, LocalsSet, Ownership, XmppOwnership
    <3>2. /\ owner[xmpp.node].account = xmpp.account
          /\ owner[xmpp.node].device = xmpp.device
          /\ UriOwner[xmpp.uri] = xmpp.device
      BY <2>1 DEF OwnershipInv, Ownership, XmppOwnership
    <3> QED
      BY <3>1, <3>2 DEF NodeRecord, Owner
  <2>2. asio.pc = "testPush" => UriOwner[asio.uri] = asio.device
    BY DEF OwnershipInv, Ownership, AsioOwnership
  <2> QED
    BY <2>1, <2>2 DEF RightRecipient
<1> QED
  BY <1>1, OwnershipInvariant, PTL

-----------------------------------------------------------------------------
(* Isolation of the devices.                                               *)

\* A step that leaves Redis, the nodes and the tokens alone touches no device.
LEMMA NothingStored ==
    ASSUME UNCHANGED redisVars, pubsub' = pubsub, owner' = owner
    PROVE  \A d \in Devices : Untouched(d)
BY DEF Untouched, redisVars

\* Each step of a handler touches the device it serves and no other.
LEMMA AsioStepIsolated ==
    ASSUME OwnershipInv, AsioStep, NEW d \in Devices, d # asio.device
    PROVE  Untouched(d)
<1>0. /\ TypeOK /\ LocalsSet /\ AsioOwnership
      /\ asio \in AsioThread
  BY DEF OwnershipInv, TypeInv, Ownership, TypeOK
<1> USE DEF Untouched, redisVars, xmppServerVars, historyVars
<1>1. CASE StoreUri \/ DropDevice \/ StoreDevice
  BY <1>0, <1>1 DEF TypeOK, StoreUri, DropDevice, StoreDevice
<1>2. CASE SendTestPush \/ BeginStore \/ Respond
  BY <1>2, NothingStored DEF SendTestPush, BeginStore, Respond
<1>3. ASSUME NEW n \in Nodes, DeletePushNode(n) \/ SetupPushNode(n) PROVE Untouched(d)
  <2>1. owner[n].device = asio.device
    BY <1>0, <1>3 DEF AsioOwnership, DeletePushNode, SetupPushNode
  <2>2. \A m \in Nodes : m # n => (m \in pubsub') = (m \in pubsub)
    BY <1>3 DEF DeletePushNode, SetupPushNode, SendIq
  <2> QED
    BY <1>3, <2>1, <2>2 DEF DeletePushNode, SetupPushNode
<1>4. CASE ClearAccount
  <2>1. asio.device \in Devices /\ asio.keys[asio.i] \in AccountIds
    <3>1. asio.keys \in Seq(AccountIds) /\ asio.i \in Nat \ {0}
      BY <1>0 DEF AsioThread
    <3>2. asio.i <= Len(asio.keys) /\ asio.device \in Devices
      BY <1>0, <1>4 DEF ClearAccount, LocalsSet
    <3> QED
      BY <3>1, <3>2
  <2>2. account' = [account EXCEPT ![asio.device][asio.keys[asio.i]] = NoNode]
    BY <1>4 DEF ClearAccount
  <2>3. account'[asio.device][asio.keys[asio.i]] = NoNode /\ account'[d] = account[d]
    BY <1>0, <2>1, <2>2 DEF TypeOK
  <2>4. node' = node
    BY <1>4, <2>3 DEF ClearAccount
  <2> QED
    BY <1>4, <2>3, <2>4 DEF ClearAccount
<1>5. CASE StoreAccount
  <2>1. account'[d] = account[d]
    BY <1>0, <1>5 DEF StoreAccount, TypeOK
  <2> QED
    BY <1>5, <2>1 DEF StoreAccount
<1>6. CASE StoreNode
  <2> DEFINE a == asio.accounts[asio.i]
  <2>1. owner[a.node] = Owner(asio.device, a.id)
    BY <1>0, <1>6 DEF AsioOwnership, LocalsSet, StoreNode
  <2>2. owner[a.node].device = asio.device
    BY <2>1 DEF Owner
  <2>3. node' = [node EXCEPT ![a.node] = Append(@, Owner(asio.device, a.id))]
    BY <1>6 DEF StoreNode
  <2>4. \A n \in Nodes : n # a.node => node'[n] = node[n]
    <3> HIDE DEF a
    <3> QED
      BY <1>0, <2>3 DEF TypeOK
  <2> QED
    BY <1>6, <2>2, <2>4 DEF StoreNode
<1> QED
  BY <1>1, <1>2, <1>3, <1>4, <1>5, <1>6 DEF AsioStep

\* Receiving a request touches the device the request is from and no other.
LEMMA AsioReceiveIsolated ==
    ASSUME OwnershipInv, AsioReceive, NEW d \in Devices, d # ServedDevice
    PROVE  Untouched(d)
<1>1. PICK e \in Devices :
        \/ \E u \in Uris : SetChannelUri(e, u)
        \/ RequestTestPush(e)
        \/ \E v \in Versions, ids \in Requests : SetPushAccounts(e, v, ids)
        \/ AbortOnMissingNode(e)
  BY DEF AsioReceive
<1>2. ASSUME NEW u \in Uris, SetChannelUri(e, u) PROVE Untouched(d)
  <2>1. e # d
    BY <1>2 DEF SetChannelUri, ServedDevice, Quiet, IdleAsio
  <2> QED
    BY <1>2, <2>1
    DEF SetChannelUri, Untouched, OwnershipInv, TypeInv, TypeOK, xmppServerVars, historyVars
<1>3. CASE RequestTestPush(e)
  BY <1>3, NothingStored DEF RequestTestPush, xmppServerVars, historyVars
<1>4. ASSUME NEW v \in Versions, NEW ids \in Requests, SetPushAccounts(e, v, ids)
      PROVE  Untouched(d)
  <2>1. \A n \in Nodes : owner[n] # NoOwner => owner'[n] = owner[n]
    BY <1>4 DEF SetPushAccounts
  <2> QED
    BY <1>4, <2>1 DEF SetPushAccounts, Untouched, redisVars, xmppServerVars
<1>5. CASE AbortOnMissingNode(e)
  BY <1>5, NothingStored DEF AbortOnMissingNode, Restart, historyVars
<1> QED
  BY <1>1, <1>2, <1>3, <1>4, <1>5

\* ForeignDataUntouched for every instance: no request, however it ends, reaches the
\* data of another device.
THEOREM DevicesAreIsolated == Spec => ForeignDataUntouched
<1>1. ASSUME OwnershipInv, [Next]_vars
      PROVE  [ <<asio, xmpp>>' # <<asio, xmpp>> =>
                 \A d \in Devices : d # ServedDevice => Untouched(d) ]_vars
  <2> SUFFICES ASSUME Next, <<asio, xmpp>>' # <<asio, xmpp>>,
                      NEW d \in Devices, d # ServedDevice
               PROVE  Untouched(d)
    BY <1>1
  <2>1. CASE AsioReceive
    BY <1>1, <2>1, AsioReceiveIsolated
  <2>2. CASE AsioStep
    <3>1. ServedDevice = asio.device
      BY <2>2 DEF AsioStep, StoreUri, SendTestPush, DeletePushNode, SetupPushNode,
                  BeginStore, ClearAccount, DropDevice, StoreAccount, StoreNode,
                  StoreDevice, Respond, ServedDevice, Quiet
    <3> QED
      BY <1>1, <2>2, <3>1, AsioStepIsolated
  <2>3. CASE XmppStep
    BY <2>3, NothingStored DEF XmppStep, TakeMessage, ReadDevice, ReadVersion,
         RouteToDevice, RouteToUri, SendPush, xmppServerVars, historyVars
  <2>4. CASE Environment
    <3>1. ~Expire
      BY DEF Expire
    <3> QED
      BY <2>4, <3>1, NothingStored DEF Environment, Publish, Disconnect, Connect, Crash,
           RedisFails, RedisFailsForXmpp, Restart, xmppServerVars, historyVars
  <2> QED
    BY <2>1, <2>2, <2>3, <2>4 DEF Next
<1> QED
  BY <1>1, OwnershipInvariant, PTL DEF Spec, ForeignDataUntouched

=============================================================================
