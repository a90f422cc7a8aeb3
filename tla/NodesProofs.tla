----------------------------- MODULE NodesProofs ----------------------------
(***************************************************************************)
(* The proof that, when nothing fails, the PubSub nodes are exactly those  *)
(* of the registered accounts, for any number of devices, accounts and     *)
(* requests.                                                               *)
(***************************************************************************)
EXTENDS RegistrationsProofs

Healthy == Faults = {}

-----------------------------------------------------------------------------
(* The inductive invariant.                                                *)

Working == asio.pc \in {"nodes", "clear", "store", "storeNode", "respond"}

\* A node of an account that is in Redis, and of one of a device that is not served.
OfAny(n) == \E d \in Devices, a \in AccountIds : account[d][a] = n
OfOthers(n) == \E d \in Devices \ {asio.device}, a \in AccountIds : account[d][a] = n
\* A node of the request that is handled.
Requested(n) == \E j \in DOMAIN asio.accounts : asio.accounts[j].node = n

\* While a request is handled, the nodes are those of the others, those it has yet to
\* delete, and those it lists and has not yet to create.
NodesInv ==
    /\ connected
    /\ \A d \in Devices : \A j \in DOMAIN told[d] : told[d][j].success
    /\ ~Working => \A n \in Nodes : n \in pubsub <=> OfAny(n)
    /\ Working =>
          /\ \A n \in Nodes :
                n \in pubsub <=> \/ OfOthers(n) \/ n \in asio.deleteNodes
                                 \/ Requested(n) /\ n \notin asio.addNodes
          /\ \A j, k \in DOMAIN asio.accounts :
                asio.accounts[j].id = asio.accounts[k].id => j = k
          /\ \A n \in asio.deleteNodes : ~Requested(n)
          /\ \A n \in asio.addNodes : Requested(n)
          /\ \A j \in DOMAIN asio.accounts :
                asio.accounts[j].node \notin asio.addNodes => asio.accounts[j].success
    /\ Working /\ asio.pc # "nodes" => asio.deleteNodes = {} /\ asio.addNodes = {}

FollowInv == ReliableInv /\ NodesInv

LEMMA InitNodesInv == Healthy /\ Init => NodesInv
<1> SUFFICES ASSUME Healthy, Init PROVE NodesInv
  OBVIOUS
<1>1. asio.pc = "idle" /\ connected /\ pubsub = {}
  BY DEF Healthy, Init, IdleAsio
<1>2. \A d \in Devices : told[d] = <<>>
  BY DEF Init
<1>3. \A d \in Devices, a \in AccountIds : account[d][a] = NoNode
  BY DEF Init
<1> QED
  BY <1>1, <1>2, <1>3, ConstantsAssumption DEF NodesInv, Working, OfAny

\* Between requests, the nodes of a device's list are the nodes of its account keys.
LEMMA ListedNodes ==
    ASSUME ReliableInv, Unwritten(asio.device) \/ asio.pc = "idle", asio.pc # "storeUri",
           NEW d \in Devices, Unwritten(d), NEW n \in Nodes
    PROVE  n \in get_push_nodes(d) <=> \E a \in AccountIds : account[d][a] = n
<1>1. Agree(device[d].accounts, account[d], told[d])
  BY DEF ReliableInv, StoreInv
<1>2. told[d] \in Seq(PushAccount) /\ DOMAIN told[d] = 1..Len(told[d])
  BY DEF ReliableInv, OwnershipInv, TypeInv, TypeOK
<1>3. listed(d) \subseteq AccountIds
  BY DEF ReliableInv, OwnershipInv, TypeInv, TypeOK, DeviceRecord, listed, Range
<1>4. \A a \in AccountIds : account[d][a] # NoNode => a \in listed(d)
  BY <1>1, <1>2 DEF Agree, KeysMatch, listed
<1>5. n # NoNode
  BY ConstantsAssumption
<1> QED
  BY <1>3, <1>4, <1>5 DEF get_push_nodes

\* A step that leaves the asio thread, Redis and the nodes alone.
LEMMA NodesUnchanged ==
    ASSUME NodesInv, UNCHANGED <<account, told, asio, pubsub, connected>>
    PROVE  NodesInv'
BY DEF NodesInv, Working, OfAny, OfOthers, Requested

\* The nodes of a request are different ones.
LEMMA RequestedOnce ==
    ASSUME FollowInv, Working,
           NEW j \in DOMAIN asio.accounts, NEW k \in DOMAIN asio.accounts,
           asio.accounts[j].node = asio.accounts[k].node
    PROVE  j = k
<1>1. asio.accounts \in Seq(PushAccount) /\ asio.device \in Devices
  BY DEF FollowInv, ReliableInv, OwnershipInv, TypeInv, TypeOK, LocalsSet, AsioThread, Working
<1>2. asio.accounts[j].id \in AccountIds /\ asio.accounts[k].id \in AccountIds
  BY <1>1, MentionsTyped
<1>3. Owner(asio.device, asio.accounts[j].id) = Owner(asio.device, asio.accounts[k].id)
  BY DEF FollowInv, ReliableInv, OwnershipInv, Ownership, AsioOwnership
<1>4. asio.accounts[j].id = asio.accounts[k].id
  BY <1>1, <1>2, <1>3, RecordsAreNotNoOwner
<1> QED
  BY <1>4 DEF FollowInv, NodesInv

\* The nodes of other devices are not those of the device that is served.
LEMMA OthersNodes ==
    ASSUME FollowInv, NEW n \in Nodes, OfOthers(n)
    PROVE  owner[n] # NoOwner /\ owner[n].device # asio.device
<1>1. PICK d \in Devices \ {asio.device}, a \in AccountIds : account[d][a] = n
  BY DEF OfOthers
<1>2. owner[n] = Owner(d, a)
  BY <1>1, ConstantsAssumption
  DEF FollowInv, ReliableInv, OwnershipInv, Ownership, NodeOwnership
<1> QED
  BY <1>1, <1>2, RecordsAreNotNoOwner

-----------------------------------------------------------------------------
(* The steps.                                                              *)

\* A request that is read finds the nodes of all devices.
LEMMA ReceiveNodesInv ==
    ASSUME FollowInv, Healthy, AsioReceive
    PROVE  NodesInv'
<1> SUFFICES ASSUME NEW d \in Devices,
                    \/ \E u \in Uris : SetChannelUri(d, u)
                    \/ RequestTestPush(d)
                    \/ \E v \in Versions, ids \in Requests : SetPushAccounts(d, v, ids)
                    \/ AbortOnMissingNode(d)
             PROVE  NodesInv'
  BY DEF AsioReceive
<1>0. ReliableInv /\ NodesInv
  BY DEF FollowInv
<1>1. CASE (\E u \in Uris : SetChannelUri(d, u)) \/ RequestTestPush(d)
  <2>1. /\ asio.pc = "idle" /\ asio'.pc \in {"storeUri", "testPush"}
        /\ UNCHANGED <<account, told, pubsub, connected>>
    BY <1>1 DEF SetChannelUri, RequestTestPush, IdleAsio, historyVars, xmppServerVars, redisVars
  <2> QED
    BY <1>0, <2>1 DEF NodesInv, Working, OfAny
<1>2. ASSUME NEW v \in Versions, NEW ids \in Requests, SetPushAccounts(d, v, ids)
      PROVE  NodesInv'
  <2>0. ids \in Seq(AccountIds) /\ \A j, k \in DOMAIN ids : ids[j] = ids[k] => j = k
    BY <1>2, RequestsTyped DEF Requests, Healthy
  <2>1. PICK nodes \in NodeChoices(d, ids) :
           asio' = [IdleAsio EXCEPT
               !.pc = "nodes", !.device = d, !.version = v, !.uri = get_channel_uri(d),
               !.accounts = [j \in DOMAIN ids |->
                   [id |-> ids[j], node |-> nodes[j], success |-> reusable(d, ids[j])]],
               !.deleteNodes = get_push_nodes(d) \ Range(nodes),
               !.addNodes = AddNodes(d, nodes)]
    BY <1>2 DEF SetPushAccounts
  <2>2. /\ asio.pc = "idle" /\ NodesFound(d)
        /\ UNCHANGED <<account, told, pubsub, connected>>
    BY <1>2 DEF SetPushAccounts, redisVars, xmppServerVars
  <2>3. /\ asio'.pc = "nodes" /\ asio'.device = d
        /\ asio'.deleteNodes = get_push_nodes(d) \ Range(nodes)
        /\ asio'.addNodes = AddNodes(d, nodes)
        /\ DOMAIN asio'.accounts = DOMAIN ids
        /\ \A j \in DOMAIN ids : /\ asio'.accounts[j].id = ids[j]
                                 /\ asio'.accounts[j].node = nodes[j]
                                 /\ asio'.accounts[j].success = reusable(d, ids[j])
    BY <2>1 DEF IdleAsio
  <2>4. nodes \in [DOMAIN ids -> Nodes] /\ DOMAIN ids = 1..Len(ids)
    BY <2>0 DEF NodeChoices
  <2>5. \A n \in Nodes : n \in Range(nodes) <=> Requested(n)'
    BY <2>3, <2>4 DEF Requested, Range
  <2>6. \A n \in Nodes : n \in get_push_nodes(d) <=> \E a \in AccountIds : account[d][a] = n
    BY <1>0, <2>2, ListedNodes DEF Unwritten
  <2>7. get_push_nodes(d) \subseteq Nodes
    BY <1>0, <2>2, PushNodesTyped DEF ReliableInv, OwnershipInv, TypeInv
  <2>8. ASSUME NEW j \in DOMAIN ids, nodes[j] \in get_push_nodes(d)
        PROVE  reusable(d, ids[j])
    <3>1. PICK a \in AccountIds : account[d][a] = nodes[j]
      BY <2>4, <2>6, <2>8
    <3>2. owner[nodes[j]] = Owner(d, a)
      BY <1>0, <2>4, <3>1, ConstantsAssumption
      DEF ReliableInv, OwnershipInv, Ownership, NodeOwnership
    <3>3. ~Fresh(nodes[j])
      BY <3>2, RecordsAreNotNoOwner DEF Fresh
    <3> QED
      BY <2>1, <3>3 DEF NodeChoices
  <2>9. ASSUME NEW j \in DOMAIN ids, NEW k \in DOMAIN ids, nodes[j] = nodes[k]
        PROVE  j = k
    <3>1. CASE reusable(d, ids[j]) /\ reusable(d, ids[k])
      <4>1. account[d][ids[j]] = account[d][ids[k]] /\ account[d][ids[j]] # NoNode
        BY <2>1, <2>9, <3>1 DEF NodeChoices, reusable
      <4>2. ids[j] \in AccountIds /\ ids[k] \in AccountIds
        BY <2>0, <2>4
      <4>3. Owner(d, ids[j]) = Owner(d, ids[k])
        BY <1>0, <4>1, <4>2 DEF ReliableInv, OwnershipInv, Ownership, NodeOwnership
      <4> QED
        BY <2>0, <4>2, <4>3, RecordsAreNotNoOwner
    <3>2. CASE ~reusable(d, ids[j]) \/ ~reusable(d, ids[k])
      BY <2>1, <2>9, <3>2 DEF NodeChoices
    <3> QED
      BY <3>1, <3>2
  <2>10. AddNodes(d, nodes) = Range(nodes) \ get_push_nodes(d)
    BY <2>4, <2>9 DEF AddNodes, Range
  <2>11. \A n \in Nodes : OfAny(n) <=> OfOthers(n)' \/ n \in get_push_nodes(d)
    BY <2>2, <2>3, <2>6 DEF OfAny, OfOthers
  <2>12. \A n \in Nodes : n \in pubsub <=> OfAny(n)
    BY <1>0, <2>2 DEF NodesInv, Working
  <2>13. \A n \in Nodes :
            n \in pubsub' <=> \/ OfOthers(n)' \/ n \in asio'.deleteNodes
                              \/ Requested(n)' /\ n \notin asio'.addNodes
    BY <2>2, <2>3, <2>5, <2>10, <2>11, <2>12
  <2>14. \A n \in asio'.deleteNodes : ~Requested(n)'
    BY <2>3, <2>5, <2>7
  <2>15. \A n \in asio'.addNodes : Requested(n)'
    <3>1. Range(nodes) \subseteq Nodes
      BY <2>4 DEF Range
    <3> QED
      BY <2>3, <2>5, <2>10, <3>1
  <2>16. \A j \in DOMAIN asio'.accounts :
            asio'.accounts[j].node \notin asio'.addNodes => asio'.accounts[j].success
    BY <2>3, <2>4, <2>8, <2>10 DEF Range
  <2>17. \A j, k \in DOMAIN asio'.accounts :
            asio'.accounts[j].id = asio'.accounts[k].id => j = k
    BY <2>0, <2>3
  <2>18. connected' /\ \A e \in Devices : \A j \in DOMAIN told'[e] : told'[e][j].success
    BY <1>0, <2>2 DEF NodesInv
  <2> HIDE DEF FollowInv
  <2> QED
    BY <2>3, <2>13, <2>14, <2>15, <2>16, <2>17, <2>18 DEF NodesInv, Working
<1>3. CASE AbortOnMissingNode(d)
  BY <1>0, <1>3, ListedNodesPresent DEF AbortOnMissingNode
<1> QED
  BY <1>1, <1>2, <1>3

\* While a request is handled its node requests, and nothing else, change the nodes.
LEMMA StanzaNodesInv ==
    ASSUME FollowInv, Healthy, NEW n \in Nodes, DeletePushNode(n) \/ SetupPushNode(n)
    PROVE  NodesInv'
<1>0. ReliableInv /\ NodesInv /\ asio.pc = "nodes" /\ connected
  BY DEF FollowInv, NodesInv, DeletePushNode, SetupPushNode
<1>a. /\ asio.accounts \in Seq(PushAccount) /\ asio \in AsioThread
      /\ DOMAIN asio.accounts = 1..Len(asio.accounts)
      /\ asio.deleteNodes \subseteq Nodes /\ asio.addNodes \subseteq Nodes
  BY <1>0 DEF ReliableInv, OwnershipInv, TypeInv, TypeOK, AsioThread
<1>b. Working
  BY <1>0 DEF Working
<1>1. CASE DeletePushNode(n)
  <2>1. /\ n \in asio.deleteNodes /\ pubsub' = pubsub \ {n}
        /\ UNCHANGED <<account, told, connected>>
    BY <1>0, <1>1 DEF DeletePushNode, SendIq, Healthy, redisVars, historyVars
  <2>2. /\ asio'.pc = "nodes" /\ asio'.device = asio.device
        /\ asio'.deleteNodes = asio.deleteNodes \ {n} /\ asio'.addNodes = asio.addNodes
        /\ asio'.accounts = asio.accounts
    BY <1>0, <1>1, <1>a DEF DeletePushNode, AsioThread
  <2>3. \A m \in Nodes : (OfOthers(m)' <=> OfOthers(m)) /\ (Requested(m)' <=> Requested(m))
    BY <2>1, <2>2 DEF OfOthers, Requested
  <2>4. owner[n] # NoOwner /\ owner[n].device = asio.device
    BY <1>0, <2>1 DEF ReliableInv, OwnershipInv, Ownership, AsioOwnership
  <2>5. ~OfOthers(n) /\ ~Requested(n)
    BY <1>0, <1>b, <2>1, <2>4, OthersNodes DEF NodesInv
  <2>6. \A m \in Nodes :
           m \in pubsub <=> \/ OfOthers(m) \/ m \in asio.deleteNodes
                            \/ Requested(m) /\ m \notin asio.addNodes
    BY <1>0, <1>b DEF NodesInv
  <2>7. \A m \in Nodes :
           m \in pubsub' <=> \/ OfOthers(m)' \/ m \in asio'.deleteNodes
                             \/ Requested(m)' /\ m \notin asio'.addNodes
    BY <2>1, <2>2, <2>3, <2>5, <2>6
  <2>8. /\ \A m \in asio'.deleteNodes : ~Requested(m)'
        /\ \A m \in asio'.addNodes : Requested(m)'
    BY <1>0, <1>a, <1>b, <2>2, <2>3 DEF NodesInv
  <2>9. /\ \A j \in DOMAIN asio'.accounts :
              asio'.accounts[j].node \notin asio'.addNodes => asio'.accounts[j].success
        /\ \A j, k \in DOMAIN asio'.accounts :
              asio'.accounts[j].id = asio'.accounts[k].id => j = k
    BY <1>0, <1>b, <2>2 DEF NodesInv
  <2>10. connected' /\ \A e \in Devices : \A j \in DOMAIN told'[e] : told'[e][j].success
    BY <1>0, <2>1 DEF NodesInv
  <2> QED
    BY <2>2, <2>7, <2>8, <2>9, <2>10 DEF NodesInv, Working
<1>2. CASE SetupPushNode(n)
  <2>1. /\ n \in asio.addNodes /\ asio.deleteNodes = {} /\ pubsub' = pubsub \union {n}
        /\ UNCHANGED <<account, told, connected>>
    BY <1>0, <1>2 DEF SetupPushNode, SendIq, Healthy, redisVars, historyVars
  <2>2. /\ asio'.pc = "nodes" /\ asio'.device = asio.device
        /\ asio'.deleteNodes = {} /\ asio'.addNodes = asio.addNodes \ {n}
        /\ asio'.accounts = [j \in DOMAIN asio.accounts |->
              IF /\ asio.accounts[j].node = n
                 /\ \A k \in DOMAIN asio.accounts : k > j => asio.accounts[k].node # n
                THEN [asio.accounts[j] EXCEPT !.success = connected]
                ELSE asio.accounts[j]]
    BY <1>0, <1>2, <1>a DEF SetupPushNode, AsioThread
  <2>3. ASSUME NEW j \in DOMAIN asio.accounts
        PROVE  /\ asio'.accounts[j].id = asio.accounts[j].id
               /\ asio'.accounts[j].node = asio.accounts[j].node
               /\ asio'.accounts[j].success
                     = IF asio.accounts[j].node = n THEN TRUE ELSE asio.accounts[j].success
    <3>1. asio.accounts[j] \in PushAccount
      BY <1>a
    <3>2. CASE asio.accounts[j].node = n
      <4>1. \A k \in DOMAIN asio.accounts : k > j => asio.accounts[k].node # n
        BY <1>a, <1>b, <3>2, RequestedOnce
      <4>2. asio'.accounts[j] = [asio.accounts[j] EXCEPT !.success = connected]
        BY <2>2, <3>2, <4>1
      <4>3. connected = TRUE
        BY <1>0 DEF ReliableInv, OwnershipInv, TypeInv, TypeOK
      <4> QED
        BY <3>1, <3>2, <4>2, <4>3 DEF PushAccount
    <3>3. CASE asio.accounts[j].node # n
      BY <2>2, <3>3
    <3> QED
      BY <3>2, <3>3
  <2>4. DOMAIN asio'.accounts = DOMAIN asio.accounts
    BY <2>2
  <2>5. \A m \in Nodes : (OfOthers(m)' <=> OfOthers(m)) /\ (Requested(m)' <=> Requested(m))
    BY <2>1, <2>2, <2>3, <2>4 DEF OfOthers, Requested
  <2>6. /\ Requested(n)
        /\ \A m \in Nodes :
              m \in pubsub <=> \/ OfOthers(m) \/ m \in asio.deleteNodes
                               \/ Requested(m) /\ m \notin asio.addNodes
    BY <1>0, <1>b, <2>1 DEF NodesInv
  <2>7. \A m \in Nodes :
           m \in pubsub' <=> \/ OfOthers(m)' \/ m \in asio'.deleteNodes
                             \/ Requested(m)' /\ m \notin asio'.addNodes
    BY <2>1, <2>2, <2>5, <2>6
  <2>8. \A m \in asio'.addNodes : Requested(m)'
    BY <1>0, <1>a, <1>b, <2>2, <2>5 DEF NodesInv
  <2>9. ASSUME NEW j \in DOMAIN asio'.accounts, asio'.accounts[j].node \notin asio'.addNodes
        PROVE  asio'.accounts[j].success
    <3>1. j \in DOMAIN asio.accounts /\ asio.accounts[j].node \notin asio.addNodes \ {n}
      BY <2>2, <2>3, <2>4, <2>9
    <3>2. CASE asio.accounts[j].node = n
      BY <2>3, <3>1, <3>2
    <3>3. CASE asio.accounts[j].node # n
      <4>1. asio.accounts[j].success
        BY <1>0, <1>b, <3>1, <3>3 DEF NodesInv
      <4>2. asio'.accounts[j].success = asio.accounts[j].success
        BY <2>3, <3>1, <3>3
      <4> QED
        BY <4>1, <4>2
    <3> QED
      BY <3>2, <3>3
  <2>10. \A j, k \in DOMAIN asio'.accounts :
            asio'.accounts[j].id = asio'.accounts[k].id => j = k
    <3>1. \A j, k \in DOMAIN asio.accounts :
             asio.accounts[j].id = asio.accounts[k].id => j = k
      BY <1>0, <1>b DEF NodesInv
    <3> QED
      BY <2>3, <2>4, <3>1
  <2>11. connected' /\ \A e \in Devices : \A j \in DOMAIN told'[e] : told'[e][j].success
    BY <1>0, <2>1 DEF NodesInv
  <2> QED
    BY <2>2, <2>7, <2>8, <2>9, <2>10, <2>11 DEF NodesInv, Working
<1> QED
  BY <1>1, <1>2

\* The steps that store a request write account keys of the device only, and change
\* neither the nodes nor the request.
LEMMA StoringNodesInv ==
    ASSUME FollowInv, Working,
           asio'.pc \in {"clear", "store", "storeNode", "respond"},
           asio'.device = asio.device, asio'.accounts = asio.accounts,
           asio.deleteNodes = {}, asio.addNodes = {},
           asio'.deleteNodes = {}, asio'.addNodes = {},
           \A e \in Devices \ {asio.device} : account'[e] = account[e],
           UNCHANGED <<told, pubsub, connected>>
    PROVE  NodesInv'
<1>1. \A n \in Nodes : (OfOthers(n)' <=> OfOthers(n)) /\ (Requested(n)' <=> Requested(n))
  BY DEF OfOthers, Requested
<1>2. /\ \A n \in Nodes : n \in pubsub <=> OfOthers(n) \/ Requested(n)
      /\ \A j, k \in DOMAIN asio.accounts :
            asio.accounts[j].id = asio.accounts[k].id => j = k
      /\ \A j \in DOMAIN asio.accounts : asio.accounts[j].success
      /\ connected /\ \A e \in Devices : \A j \in DOMAIN told[e] : told[e][j].success
  BY DEF FollowInv, NodesInv
<1> QED
  BY <1>1, <1>2 DEF NodesInv, Working

\* When the last account has been stored, the nodes of the request are those of the
\* device's account keys.
LEMMA StoredNodes ==
    ASSUME FollowInv, asio.pc = "respond", NEW n \in Nodes
    PROVE  OfAny(n) <=> OfOthers(n) \/ Requested(n)
<1>1. /\ asio.accounts \in Seq(PushAccount) /\ asio.device \in Devices
      /\ DOMAIN asio.accounts = 1..Len(asio.accounts)
      /\ n # NoNode
  BY ConstantsAssumption
  DEF FollowInv, ReliableInv, OwnershipInv, TypeInv, TypeOK, LocalsSet, AsioThread
<1>2. KeysMatch(account[asio.device], asio.accounts, Len(asio.accounts))
  BY DEF FollowInv, ReliableInv, StoreInv
<1>3. \A j, k \in DOMAIN asio.accounts : asio.accounts[j].id = asio.accounts[k].id => j = k
  BY DEF FollowInv, NodesInv, Working
<1>4. \A j \in DOMAIN asio.accounts :
         /\ asio.accounts[j].id \in AccountIds
         /\ account[asio.device][asio.accounts[j].id] = asio.accounts[j].node
  <2> TAKE j \in DOMAIN asio.accounts
  <2>1. \A k \in 1..Len(asio.accounts) : k > j => asio.accounts[k].id # asio.accounts[j].id
    BY <1>1, <1>3
  <2> QED
    BY <1>1, <1>2, <2>1, MentionsTyped DEF KeysMatch
<1>5. Requested(n) <=> \E a \in AccountIds : account[asio.device][a] = n
  BY <1>1, <1>2, <1>4 DEF Requested, KeysMatch
<1> QED
  BY <1>1, <1>5 DEF OfAny, OfOthers

LEMMA StepNodesInv ==
    ASSUME FollowInv, Healthy, AsioStep
    PROVE  NodesInv'
<1>0. /\ ReliableInv /\ NodesInv /\ asio \in AsioThread
      /\ account \in [Devices -> [AccountIds -> Nodes \union {NoNode}]]
      /\ told \in [Devices -> Seq(PushAccount)]
  BY DEF FollowInv, ReliableInv, OwnershipInv, TypeInv, TypeOK
<1>a. asio.pc # "idle" => asio.device \in Devices
  BY DEF FollowInv, ReliableInv, OwnershipInv, TypeInv, LocalsSet
<1>b. Working /\ asio.pc # "nodes" => asio.deleteNodes = {} /\ asio.addNodes = {}
  BY <1>0 DEF NodesInv
<1>1. CASE StoreUri \/ SendTestPush
  <2>1. /\ asio.pc \in {"storeUri", "testPush"} /\ asio'.pc = "idle"
        /\ UNCHANGED <<account, told, pubsub, connected>>
    BY <1>1 DEF StoreUri, SendTestPush, IdleAsio, redisVars, xmppServerVars, historyVars
  <2> QED
    BY <1>0, <2>1 DEF NodesInv, Working, OfAny
<1>2. ASSUME NEW n \in Nodes, DeletePushNode(n) \/ SetupPushNode(n) PROVE NodesInv'
  BY <1>2, StanzaNodesInv
<1>3. CASE BeginStore
  <2>1. /\ asio.pc = "nodes" /\ asio.deleteNodes = {} /\ asio.addNodes = {}
        /\ asio'.pc = "clear" /\ asio'.device = asio.device
        /\ asio'.accounts = asio.accounts
        /\ asio'.deleteNodes = {} /\ asio'.addNodes = {}
        /\ UNCHANGED <<account, told, pubsub, connected>>
    BY <1>0, <1>3 DEF BeginStore, AsioThread, redisVars, xmppServerVars, historyVars
  <2> QED
    BY <2>1, StoringNodesInv DEF Working
<1>4. CASE ClearAccount
  <2>1. /\ asio.pc = "clear" /\ asio'.pc = "clear" /\ asio'.device = asio.device
        /\ account' = [account EXCEPT ![asio.device][asio.keys[asio.i]] = NoNode]
        /\ asio'.accounts = asio.accounts
        /\ asio'.deleteNodes = asio.deleteNodes /\ asio'.addNodes = asio.addNodes
        /\ UNCHANGED <<told, pubsub, connected>>
    BY <1>0, <1>4 DEF ClearAccount, AsioThread, xmppServerVars, historyVars
  <2>2. \A e \in Devices \ {asio.device} : account'[e] = account[e]
    BY <1>0, <2>1
  <2> QED
    BY <1>b, <2>1, <2>2, StoringNodesInv DEF Working
<1>5. CASE DropDevice \/ StoreNode \/ StoreDevice
  <2>1. /\ asio.pc \in {"clear", "store", "storeNode"} /\ asio'.pc \in {"store", "respond"}
        /\ asio'.device = asio.device /\ asio'.accounts = asio.accounts
        /\ asio'.deleteNodes = asio.deleteNodes /\ asio'.addNodes = asio.addNodes
        /\ UNCHANGED <<account, told, pubsub, connected>>
    BY <1>0, <1>5
    DEF DropDevice, StoreNode, StoreDevice, AsioThread, xmppServerVars, historyVars
  <2> QED
    BY <1>b, <2>1, StoringNodesInv DEF Working
<1>6. CASE StoreAccount
  <2> DEFINE a == asio.accounts[asio.i]
  <2>1. /\ asio.pc = "store" /\ asio'.pc = "storeNode" /\ asio'.device = asio.device
        /\ account' = [account EXCEPT ![asio.device][a.id] = a.node]
        /\ asio'.accounts = asio.accounts
        /\ asio'.deleteNodes = asio.deleteNodes /\ asio'.addNodes = asio.addNodes
        /\ UNCHANGED <<told, pubsub, connected>>
    BY <1>0, <1>6 DEF StoreAccount, AsioThread, xmppServerVars, historyVars
  <2>2. \A e \in Devices \ {asio.device} : account'[e] = account[e]
    BY <1>0, <2>1
  <2> QED
    BY <1>b, <2>1, <2>2, StoringNodesInv DEF Working
<1>7. CASE Respond
  <2>1. /\ asio.pc = "respond" /\ asio'.pc = "idle"
        /\ told' = [told EXCEPT ![asio.device] = asio.accounts]
        /\ UNCHANGED <<account, pubsub, connected>>
    BY <1>7 DEF Respond, IdleAsio, redisVars, xmppServerVars
  <2>2. /\ told'[asio.device] = asio.accounts
        /\ \A e \in Devices \ {asio.device} : told'[e] = told[e]
    BY <1>0, <1>a, <2>1
  <2>3. /\ \A n \in Nodes : n \in pubsub <=> OfOthers(n) \/ Requested(n)
        /\ \A j \in DOMAIN asio.accounts : asio.accounts[j].success
        /\ connected /\ \A e \in Devices : \A j \in DOMAIN told[e] : told[e][j].success
    BY <1>0, <1>b, <2>1 DEF NodesInv, Working
  <2>4. \A e \in Devices : \A j \in DOMAIN told'[e] : told'[e][j].success
    BY <2>2, <2>3
  <2>5. \A n \in Nodes : OfAny(n)' <=> OfAny(n)
    BY <2>1 DEF OfAny
  <2>6. \A n \in Nodes : n \in pubsub' <=> OfAny(n)'
    BY <2>1, <2>3, <2>5, StoredNodes
  <2> QED
    BY <2>1, <2>3, <2>4, <2>6 DEF NodesInv, Working
<1> QED
  BY <1>1, <1>2, <1>3, <1>4, <1>5, <1>6, <1>7 DEF AsioStep

\* The xmpp thread writes nothing of this, and a healthy environment publishes.
LEMMA OthersNodesInv ==
    ASSUME FollowInv, Healthy, XmppStep \/ Environment
    PROVE  NodesInv'
<1>1. NodesInv /\ connected
  BY DEF FollowInv, NodesInv
<1>2. UNCHANGED <<account, told, asio, pubsub, connected>>
  BY <1>1
  DEF Healthy, XmppStep, TakeMessage, ReadDevice, ReadVersion, RouteToDevice, RouteToUri,
      SendPush, Environment, Publish, Disconnect, Connect, Crash, RedisFails,
      RedisFailsForXmpp, Expire, redisVars, xmppServerVars, historyVars
<1> QED
  BY <1>1, <1>2, NodesUnchanged

-----------------------------------------------------------------------------
(* The theorems.                                                           *)

\* FollowInvariant: the inductive invariant holds in every run in which nothing fails.
THEOREM FollowInvariant ==
    ASSUME Healthy
    PROVE  Spec => []FollowInv
<1>1. Reliable
  BY DEF Healthy, Reliable
<1>2. NodesInv /\ ReliableInv /\ [Next]_vars => NodesInv'
  <2> SUFFICES ASSUME FollowInv, [Next]_vars PROVE NodesInv'
    BY DEF FollowInv
  <2>1. CASE UNCHANGED vars
    BY <2>1, NodesUnchanged
    DEF FollowInv, vars, redisVars, xmppServerVars, historyVars
  <2>2. CASE AsioReceive
    BY <2>2, ReceiveNodesInv
  <2>3. CASE AsioStep
    BY <2>3, StepNodesInv
  <2>4. CASE XmppStep \/ Environment
    BY <2>4, OthersNodesInv
  <2> QED
    BY <2>1, <2>2, <2>3, <2>4 DEF Next
<1>3. Init => NodesInv
  BY InitNodesInv
<1>4. Spec => []ReliableInv
  BY <1>1, ReliableInvariant
<1> QED
  BY <1>2, <1>3, <1>4, PTL DEF Spec, FollowInv

\* NodesAreThoseOfTheAccounts: when nothing fails, between requests the PubSub nodes are
\* exactly those of the registered accounts of all devices, and every account was
\* answered with success (deleteNodes and addNodes in PushServer::set_push_accounts).
THEOREM NodesAreThoseOfTheAccounts ==
    ASSUME Healthy
    PROVE  Spec => []NodesFollowAccounts
<1>1. FollowInv => NodesFollowAccounts
  <2> SUFFICES ASSUME FollowInv, Quiet PROVE NodesFollowAccounts
    BY DEF NodesFollowAccounts
  <2>1. /\ ReliableInv /\ pubsub \subseteq Nodes
        /\ \A d \in Devices : \A j \in DOMAIN told[d] : told[d][j].success
        /\ \A n \in Nodes : n \in pubsub <=> OfAny(n)
    BY DEF FollowInv, NodesInv, Working, Quiet, ReliableInv, OwnershipInv, TypeInv, TypeOK
  <2>2. \A d \in Devices : get_push_nodes(d) \subseteq Nodes
    BY <2>1, ListedNodesPresent, PushNodesTyped DEF Quiet, ReliableInv, OwnershipInv, TypeInv
  <2>3. \A d \in Devices, n \in Nodes :
           n \in get_push_nodes(d) <=> \E a \in AccountIds : account[d][a] = n
    BY <2>1, ListedNodes DEF Quiet, Unwritten
  <2>4. pubsub = UNION {get_push_nodes(d) : d \in Devices}
    BY <2>1, <2>2, <2>3 DEF OfAny
  <2> QED
    BY <2>1, <2>4 DEF NodesFollowAccounts
<1> QED
  BY <1>1, FollowInvariant, PTL

=============================================================================
