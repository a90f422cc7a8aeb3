------------------------- MODULE RegistrationsProofs ------------------------
(***************************************************************************)
(* Proofs about PushRegistry as long as Redis answers, the process lives   *)
(* and no entry expires: what a client was told is what Redis has, and the *)
(* registry implements the abstract one of Registrations. The connection   *)
(* to the XMPP server may come and go, stanzas may be refused and requests *)
(* may list an account twice.                                              *)
(***************************************************************************)
EXTENDS PushRegistryProofs, NaturalsInduction, WellFoundedInduction

Reliable == Faults \intersect {"redis", "crash", "expire"} = {}

-----------------------------------------------------------------------------
(* The inductive invariant.                                                *)

\* The account keys of a device hold the first m of a list of push accounts, each
\* with the node of its last mention.
KeysMatch(keys, list, m) ==
    /\ \A a \in AccountIds : keys[a] # NoNode <=> \E j \in 1..m : list[j].id = a
    /\ \A j \in 1..m :
          (\A k \in 1..m : k > j => list[k].id # list[j].id) => keys[list[j].id] = list[j].node

\* A device's list of accounts, its account keys and its last response agree.
Agree(list, keys, response) ==
    /\ Range(list) = {response[j].id : j \in DOMAIN response}
    /\ KeysMatch(keys, response, Len(response))

Unwritten(d) == d # asio.device \/ asio.pc \in {"idle", "testPush", "nodes"}

StoreInv ==
    /\ \A d \in Devices : Unwritten(d) => Agree(device[d].accounts, account[d], told[d])
    /\ asio.pc = "storeUri" =>
          /\ Agree(asio.keys, account[asio.device], told[asio.device])
          /\ device[asio.device] = NoRecord
    /\ asio.pc \in {"nodes", "clear", "respond"} => asio.uri = device[asio.device].uri
    /\ asio.pc = "nodes" => asio.i = 1
    /\ asio.pc = "clear" =>
          \A a \in AccountIds : account[asio.device][a] # NoNode =>
              \E k \in DOMAIN asio.keys : k >= asio.i /\ asio.keys[k] = a
    /\ asio.pc \in {"store", "storeNode"} =>
          device[asio.device] = NoRecord /\ asio.i <= Len(asio.accounts) + 1
    /\ asio.pc = "store" => KeysMatch(account[asio.device], asio.accounts, asio.i - 1)
    /\ asio.pc = "storeNode" => KeysMatch(account[asio.device], asio.accounts, asio.i)
    /\ asio.pc = "respond" =>
          /\ KeysMatch(account[asio.device], asio.accounts, Len(asio.accounts))
          /\ device[asio.device].accounts
                = [j \in DOMAIN asio.accounts |-> asio.accounts[j].id]

ReliableInv == OwnershipInv /\ StoreInv

LEMMA MentionsTyped ==
    ASSUME NEW list \in Seq(PushAccount), NEW j \in 1..Len(list)
    PROVE  list[j].id \in AccountIds /\ list[j].node \in Nodes /\ list[j].node # NoNode
<1>1. list[j] \in PushAccount
  OBVIOUS
<1> QED
  BY <1>1, ConstantsAssumption DEF PushAccount

\* Nothing agrees with nothing.
LEMMA InitStoreInv == Init => StoreInv
<1> SUFFICES ASSUME Init PROVE StoreInv
  OBVIOUS
<1>1. asio.pc = "idle"
  BY DEF Init, IdleAsio
<1>2. ASSUME NEW d \in Devices PROVE Agree(device[d].accounts, account[d], told[d])
  <2>1. device[d].accounts = <<>> /\ told[d] = <<>>
    BY DEF Init, NoRecord
  <2>2. \A a \in AccountIds : account[d][a] = NoNode
    BY DEF Init
  <2> QED
    BY <2>1, <2>2 DEF Agree, KeysMatch, Range
<1> QED
  BY <1>1, <1>2 DEF StoreInv

\* Every account a device lists has its key, so the assertion in get_push_nodes holds.
LEMMA ListedNodesPresent ==
    ASSUME ReliableInv, asio.pc = "idle", NEW d \in Devices
    PROVE  NodesFound(d)
<1>1. Agree(device[d].accounts, account[d], told[d])
  BY DEF ReliableInv, StoreInv, Unwritten
<1>2. told[d] \in Seq(PushAccount) /\ DOMAIN told[d] = 1..Len(told[d])
  BY DEF ReliableInv, OwnershipInv, TypeInv, TypeOK
<1>3. ASSUME NEW a \in listed(d) PROVE account[d][a] # NoNode
  <2>1. PICK j \in 1..Len(told[d]) : told[d][j].id = a
    BY <1>1, <1>2, <1>3 DEF Agree, listed
  <2>2. a \in AccountIds
    BY <1>2, <2>1, MentionsTyped
  <2> QED
    BY <1>1, <2>1, <2>2 DEF Agree, KeysMatch
<1> QED
  BY <1>3 DEF NodesFound, get_push_nodes

\* A step that leaves the asio thread and what it wrote alone.
LEMMA StoreUnchanged ==
    ASSUME StoreInv, UNCHANGED <<device, account, told, asio>>
    PROVE  StoreInv'
BY DEF StoreInv, Unwritten

\* A step of the asio thread leaves the other devices as they are.
LEMMA OthersAgree ==
    ASSUME StoreInv, NEW d \in Devices,
           asio'.device = d \/ asio' = IdleAsio,
           asio.device = d \/ asio.pc = "idle",
           \A e \in Devices \ {d} :
              device'[e] = device[e] /\ account'[e] = account[e] /\ told'[e] = told[e]
    PROVE  \A e \in Devices \ {d} : Agree(device[e].accounts, account[e], told[e])'
BY DEF StoreInv, Unwritten

\* One more account is written.
LEMMA KeysMatchNext ==
    ASSUME NEW list \in Seq(PushAccount), NEW i \in 1..Len(list),
           NEW keys \in [AccountIds -> Nodes \union {NoNode}], KeysMatch(keys, list, i - 1)
    PROVE  KeysMatch([keys EXCEPT ![list[i].id] = list[i].node], list, i)
<1> DEFINE new == [keys EXCEPT ![list[i].id] = list[i].node]
<1>1. list[i].id \in AccountIds /\ list[i].node \in Nodes /\ list[i].node # NoNode
  BY MentionsTyped
<1>2. \A a \in AccountIds : new[a] = IF a = list[i].id THEN list[i].node ELSE keys[a]
  OBVIOUS
<1>3. \A j \in 1..(i - 1) : list[j].id \in AccountIds
  BY MentionsTyped
<1>4. \A j \in 1..i : j = i \/ j \in 1..(i - 1)
  OBVIOUS
<1>5. \A j \in 1..(i - 1) : j \in 1..i
  OBVIOUS
<1> HIDE DEF new
<1>6. \A a \in AccountIds : new[a] # NoNode <=> \E j \in 1..i : list[j].id = a
  BY <1>1, <1>2, <1>4, <1>5 DEF KeysMatch
<1>7. ASSUME NEW j \in 1..i, \A k \in 1..i : k > j => list[k].id # list[j].id
      PROVE  new[list[j].id] = list[j].node
  <2>1. CASE j = i
    BY <1>1, <1>2, <2>1
  <2>2. CASE j \in 1..(i - 1)
    <3>1. list[i].id # list[j].id
      BY <1>7, <2>2
    <3>2. keys[list[j].id] = list[j].node
      BY <1>5, <1>7, <2>2 DEF KeysMatch
    <3> QED
      BY <1>2, <1>3, <2>2, <3>1, <3>2
  <2> QED
    BY <1>4, <2>1, <2>2
<1> QED
  BY <1>6, <1>7 DEF new, KeysMatch

LEMMA ReceiveStoreInv ==
    ASSUME ReliableInv, AsioReceive
    PROVE  StoreInv'
<1> SUFFICES ASSUME NEW d \in Devices,
                    \/ \E u \in Uris : SetChannelUri(d, u)
                    \/ RequestTestPush(d)
                    \/ \E v \in Versions, ids \in Requests : SetPushAccounts(d, v, ids)
                    \/ AbortOnMissingNode(d)
             PROVE  StoreInv'
  BY DEF AsioReceive
<1>0. StoreInv /\ \A e \in Devices : asio.pc = "idle" => Agree(device[e].accounts, account[e], told[e])
  BY DEF ReliableInv, StoreInv, Unwritten
<1>1. ASSUME NEW u \in Uris, SetChannelUri(d, u) PROVE StoreInv'
  <2>1. /\ asio.pc = "idle" /\ asio'.pc = "storeUri" /\ asio'.device = d
        /\ asio'.keys = device[d].accounts
        /\ device' = [device EXCEPT ![d] = NoRecord]
        /\ UNCHANGED <<account, told>>
    BY <1>1 DEF SetChannelUri, IdleAsio, historyVars
  <2>2. device'[d] = NoRecord /\ \A e \in Devices \ {d} : device'[e] = device[e]
    BY <2>1 DEF ReliableInv, OwnershipInv, TypeInv, TypeOK
  <2>3. \A e \in Devices \ {d} : Agree(device[e].accounts, account[e], told[e])'
    BY <1>0, <2>1, <2>2, OthersAgree
  <2> QED
    BY <1>0, <2>1, <2>2, <2>3 DEF StoreInv, Unwritten
<1>2. CASE RequestTestPush(d)
  <2>1. /\ asio.pc = "idle" /\ asio'.pc = "testPush"
        /\ UNCHANGED <<device, account, told>>
    BY <1>2 DEF RequestTestPush, IdleAsio, historyVars, redisVars
  <2> QED
    BY <1>0, <2>1 DEF StoreInv
<1>3. ASSUME NEW v \in Versions, NEW ids \in Requests, SetPushAccounts(d, v, ids)
      PROVE  StoreInv'
  <2>1. /\ asio.pc = "idle" /\ asio'.pc = "nodes" /\ asio'.device = d
        /\ asio'.uri = device[d].uri /\ asio'.i = 1
        /\ UNCHANGED <<device, account, told>>
    BY <1>3 DEF SetPushAccounts, IdleAsio, redisVars, get_channel_uri
  <2> QED
    BY <1>0, <2>1 DEF StoreInv
<1>4. CASE AbortOnMissingNode(d)
  BY <1>4, ListedNodesPresent DEF AbortOnMissingNode
<1> QED
  BY <1>1, <1>2, <1>3, <1>4

LEMMA StepStoreInv ==
    ASSUME ReliableInv, AsioStep
    PROVE  StoreInv'
<1> DEFINE d == asio.device
<1>0. /\ StoreInv /\ asio \in AsioThread
      /\ device \in [Devices -> DeviceRecord]
      /\ account \in [Devices -> [AccountIds -> Nodes \union {NoNode}]]
      /\ told \in [Devices -> Seq(PushAccount)]
  BY DEF ReliableInv, OwnershipInv, TypeInv, TypeOK
<1>a. asio.accounts \in Seq(PushAccount) /\ asio.keys \in Seq(AccountIds) /\ asio.i \in Nat \ {0}
  BY <1>0 DEF AsioThread
<1>b. asio.pc # "idle" => d \in Devices
  BY DEF ReliableInv, OwnershipInv, TypeInv, LocalsSet
<1>1. CASE StoreUri
  <2>1. /\ asio.pc = "storeUri" /\ asio' = IdleAsio
        /\ device' = [device EXCEPT ![d] =
                         [uri |-> asio.uri, version |-> asio.version, accounts |-> asio.keys]]
        /\ UNCHANGED <<account, told>>
    BY <1>1 DEF StoreUri, historyVars
  <2>2. device'[d].accounts = asio.keys /\ \A e \in Devices \ {d} : device'[e] = device[e]
    BY <1>0, <1>b, <2>1
  <2>3. \A e \in Devices \ {d} : Agree(device[e].accounts, account[e], told[e])'
    BY <1>0, <1>b, <2>1, <2>2, OthersAgree
  <2>4. Agree(device'[d].accounts, account'[d], told'[d])
    BY <1>0, <2>1, <2>2 DEF StoreInv, IdleAsio
  <2> QED
    BY <2>1, <2>3, <2>4 DEF StoreInv, IdleAsio
<1>2. CASE SendTestPush
  <2>1. asio.pc = "testPush" /\ asio' = IdleAsio /\ UNCHANGED <<device, account, told>>
    BY <1>2 DEF SendTestPush, redisVars, historyVars
  <2> QED
    BY <1>0, <2>1 DEF StoreInv, IdleAsio, Unwritten
<1>3. ASSUME NEW n \in Nodes, DeletePushNode(n) \/ SetupPushNode(n) PROVE StoreInv'
  <2>1. /\ asio.pc = "nodes" /\ UNCHANGED <<device, account, told>>
        /\ asio'.pc = asio.pc /\ asio'.device = d /\ asio'.uri = asio.uri /\ asio'.i = asio.i
    BY <1>0, <1>3 DEF DeletePushNode, SetupPushNode, AsioThread, redisVars, historyVars
  <2> QED
    BY <1>0, <2>1 DEF StoreInv, Unwritten
<1>4. CASE BeginStore
  <2>1. /\ asio.pc = "nodes" /\ asio'.pc = "clear" /\ asio'.device = d /\ asio'.uri = asio.uri
        /\ asio'.i = asio.i /\ asio'.keys = device[d].accounts
        /\ UNCHANGED <<device, account, told>>
    BY <1>0, <1>4 DEF BeginStore, AsioThread, redisVars, historyVars
  <2>2. asio.i = 1 /\ Agree(device[d].accounts, account[d], told[d])
    BY <1>0, <1>b, <2>1 DEF StoreInv, Unwritten
  <2>3. ASSUME NEW a \in AccountIds, account[d][a] # NoNode
        PROVE  \E k \in DOMAIN device[d].accounts : k >= 1 /\ device[d].accounts[k] = a
    <3>1. DOMAIN told[d] = 1..Len(told[d])
      BY <1>0, <1>b, <2>1
    <3>2. \E j \in DOMAIN told[d] : told[d][j].id = a
      BY <2>2, <2>3, <3>1 DEF Agree, KeysMatch
    <3>3. PICK k \in DOMAIN device[d].accounts : device[d].accounts[k] = a
      BY <2>2, <3>2 DEF Agree, Range
    <3>4. k >= 1
      BY <1>0, <1>b, <2>1, <3>3 DEF DeviceRecord
    <3> QED
      BY <3>3, <3>4
  <2> QED
    BY <1>0, <2>1, <2>2, <2>3 DEF StoreInv, Unwritten
<1>5. CASE ClearAccount
  <2>1. /\ asio.pc = "clear" /\ asio.i <= Len(asio.keys)
        /\ account' = [account EXCEPT ![d][asio.keys[asio.i]] = NoNode]
        /\ asio'.pc = "clear" /\ asio'.device = d /\ asio'.uri = asio.uri
        /\ asio'.i = asio.i + 1 /\ asio'.keys = asio.keys
        /\ UNCHANGED <<device, told>>
    BY <1>0, <1>5 DEF ClearAccount, AsioThread, historyVars
  <2>2. /\ \A e \in Devices \ {d} : account'[e] = account[e]
        /\ \A a \in AccountIds :
              account'[d][a] = IF a = asio.keys[asio.i] THEN NoNode ELSE account[d][a]
    BY <1>0, <1>b, <2>1
  <2>3. \A e \in Devices \ {d} : Agree(device[e].accounts, account[e], told[e])'
    BY <1>0, <1>b, <2>1, <2>2, OthersAgree
  <2>4. ASSUME NEW a \in AccountIds, account'[d][a] # NoNode
        PROVE  \E k \in DOMAIN asio.keys : k >= asio.i + 1 /\ asio.keys[k] = a
    <3>1. account[d][a] # NoNode /\ a # asio.keys[asio.i]
      BY <2>2, <2>4
    <3>2. PICK k \in DOMAIN asio.keys : k >= asio.i /\ asio.keys[k] = a
      BY <1>0, <2>1, <3>1 DEF StoreInv
    <3>3. k >= asio.i + 1
      BY <1>a, <3>1, <3>2
    <3> QED
      BY <3>2, <3>3
  <2> QED
    BY <1>0, <2>1, <2>3, <2>4 DEF StoreInv, Unwritten
<1>6. CASE DropDevice
  <2>1. /\ asio.pc = "clear" /\ asio.i > Len(asio.keys)
        /\ device' = [device EXCEPT ![d] = NoRecord]
        /\ asio'.pc = "store" /\ asio'.device = d /\ asio'.i = 1
        /\ asio'.accounts = asio.accounts
        /\ UNCHANGED <<account, told>>
    BY <1>0, <1>6 DEF DropDevice, AsioThread, historyVars
  <2>2. device'[d] = NoRecord /\ \A e \in Devices \ {d} : device'[e] = device[e]
    BY <1>0, <1>b, <2>1
  <2>3. \A e \in Devices \ {d} : Agree(device[e].accounts, account[e], told[e])'
    BY <1>0, <1>b, <2>1, <2>2, OthersAgree
  <2>4. \A a \in AccountIds : account[d][a] = NoNode
    BY <1>0, <1>a, <2>1 DEF StoreInv
  <2>5. KeysMatch(account[d], asio.accounts, 0)
    BY <2>4 DEF KeysMatch
  <2>6. asio'.i - 1 = 0 /\ asio'.i <= Len(asio'.accounts) + 1
    BY <1>a, <2>1
  <2> QED
    BY <2>1, <2>2, <2>3, <2>5, <2>6 DEF StoreInv, Unwritten
<1>7. CASE StoreAccount
  <2> DEFINE a == asio.accounts[asio.i]
  <2>1. /\ asio.pc = "store" /\ asio.i <= Len(asio.accounts)
        /\ account' = [account EXCEPT ![d][a.id] = a.node]
        /\ asio'.pc = "storeNode" /\ asio'.device = d /\ asio'.i = asio.i
        /\ asio'.accounts = asio.accounts
        /\ UNCHANGED <<device, told>>
    BY <1>0, <1>7 DEF StoreAccount, AsioThread, historyVars
  <2>2. /\ account'[d] = [account[d] EXCEPT ![a.id] = a.node]
        /\ \A e \in Devices \ {d} : account'[e] = account[e]
    BY <1>0, <1>b, <2>1
  <2>3. \A e \in Devices \ {d} : Agree(device[e].accounts, account[e], told[e])'
    BY <1>0, <1>b, <2>1, <2>2, OthersAgree
  <2>4. /\ asio.i \in 1..Len(asio.accounts)
        /\ account[d] \in [AccountIds -> Nodes \union {NoNode}]
        /\ KeysMatch(account[d], asio.accounts, asio.i - 1)
    BY <1>0, <1>a, <1>b, <2>1 DEF StoreInv
  <2>5. KeysMatch(account'[d], asio.accounts, asio.i)
    BY <1>a, <2>2, <2>4, KeysMatchNext
  <2>6. asio.i <= Len(asio.accounts) + 1 /\ device[d] = NoRecord
    BY <1>0, <2>1 DEF StoreInv
  <2> QED
    BY <2>1, <2>3, <2>5, <2>6 DEF StoreInv, Unwritten
<1>8. CASE StoreNode
  <2>1. /\ asio.pc = "storeNode"
        /\ asio'.pc = "store" /\ asio'.device = d /\ asio'.i = asio.i + 1
        /\ asio'.accounts = asio.accounts
        /\ UNCHANGED <<device, account, told>>
    BY <1>0, <1>8 DEF StoreNode, AsioThread, historyVars
  <2>2. /\ KeysMatch(account[d], asio.accounts, asio.i) /\ device[d] = NoRecord
        /\ asio.i \in DOMAIN asio.accounts
    BY <1>0, <2>1 DEF StoreInv, ReliableInv, OwnershipInv, TypeInv, LocalsSet
  <2>3. asio'.i - 1 = asio.i /\ asio'.i <= Len(asio.accounts) + 1
    BY <1>a, <2>1, <2>2
  <2> QED
    BY <1>0, <2>1, <2>2, <2>3 DEF StoreInv, Unwritten
<1>9. CASE StoreDevice
  <2> DEFINE ids == [j \in DOMAIN asio.accounts |-> asio.accounts[j].id]
  <2>1. /\ asio.pc = "store" /\ asio.i > Len(asio.accounts)
        /\ device' = [device EXCEPT ![d] =
                         [uri |-> asio.uri, version |-> asio.version, accounts |-> ids]]
        /\ asio'.pc = "respond" /\ asio'.device = d /\ asio'.uri = asio.uri
        /\ asio'.accounts = asio.accounts
        /\ UNCHANGED <<account, told>>
    BY <1>0, <1>9 DEF StoreDevice, AsioThread, historyVars
  <2>2. /\ device'[d].accounts = ids /\ device'[d].uri = asio.uri
        /\ \A e \in Devices \ {d} : device'[e] = device[e]
    BY <1>0, <1>b, <2>1
  <2>3. \A e \in Devices \ {d} : Agree(device[e].accounts, account[e], told[e])'
    BY <1>0, <1>b, <2>1, <2>2, OthersAgree
  <2>4. asio.i - 1 = Len(asio.accounts)
    BY <1>0, <1>a, <2>1 DEF StoreInv
  <2>5. KeysMatch(account[d], asio.accounts, Len(asio.accounts))
    BY <1>0, <2>1, <2>4 DEF StoreInv
  <2> QED
    BY <2>1, <2>2, <2>3, <2>5 DEF StoreInv, Unwritten
<1>10. CASE Respond
  <2>1. /\ asio.pc = "respond" /\ asio' = IdleAsio
        /\ told' = [told EXCEPT ![d] = asio.accounts]
        /\ UNCHANGED <<device, account>>
    BY <1>10 DEF Respond, redisVars
  <2>2. told'[d] = asio.accounts /\ \A e \in Devices \ {d} : told'[e] = told[e]
    BY <1>0, <1>b, <2>1
  <2>3. \A e \in Devices \ {d} : Agree(device[e].accounts, account[e], told[e])'
    BY <1>0, <1>b, <2>1, <2>2, OthersAgree
  <2>4. /\ KeysMatch(account[d], asio.accounts, Len(asio.accounts))
        /\ device[d].accounts = [j \in DOMAIN asio.accounts |-> asio.accounts[j].id]
    BY <1>0, <2>1 DEF StoreInv
  <2>5. Range(device[d].accounts) = {asio.accounts[j].id : j \in DOMAIN asio.accounts}
    BY <2>4 DEF Range
  <2>6. Agree(device'[d].accounts, account'[d], told'[d])
    BY <2>1, <2>2, <2>4, <2>5 DEF Agree
  <2> QED
    BY <2>1, <2>3, <2>6 DEF StoreInv, IdleAsio
<1> QED
  BY <1>1, <1>2, <1>3, <1>4, <1>5, <1>6, <1>7, <1>8, <1>9, <1>10 DEF AsioStep

LEMMA EnvironmentStoreInv ==
    ASSUME Reliable, StoreInv, Environment
    PROVE  StoreInv'
BY StoreUnchanged
DEF Reliable, Environment, Publish, Disconnect, Connect, Crash, RedisFails, RedisFailsForXmpp,
    Expire, redisVars, historyVars

\* ReliableInvariant: the inductive invariant holds in every run without failures.
THEOREM ReliableInvariant ==
    ASSUME Reliable
    PROVE  Spec => []ReliableInv
<1>1. StoreInv /\ OwnershipInv /\ [Next]_vars => StoreInv'
  <2> SUFFICES ASSUME ReliableInv, [Next]_vars PROVE StoreInv'
    BY DEF ReliableInv
  <2>1. CASE UNCHANGED vars
    BY <2>1, StoreUnchanged DEF ReliableInv, vars, redisVars, historyVars
  <2>2. CASE AsioReceive
    BY <2>2, ReceiveStoreInv
  <2>3. CASE AsioStep
    BY <2>3, StepStoreInv
  <2>4. CASE XmppStep
    BY <2>4, StoreUnchanged
    DEF ReliableInv, XmppStep, TakeMessage, ReadDevice, ReadVersion, RouteToDevice, RouteToUri,
        SendPush, redisVars, historyVars
  <2>5. CASE Environment
    BY <2>5, EnvironmentStoreInv DEF ReliableInv
  <2> QED
    BY <2>1, <2>2, <2>3, <2>4, <2>5 DEF Next
<1>2. Spec => []OwnershipInv
  BY OwnershipInvariant
<1> QED
  BY <1>1, <1>2, InitStoreInv, PTL DEF Spec, ReliableInv

\* ResponsesMatchTheStore: as long as Redis answers, the process lives and no entry
\* expires, what a client was told last is what Redis has, between any two requests and
\* for any number of devices and accounts (set_push_accounts, set_channel_uri).
THEOREM ResponsesMatchTheStore ==
    ASSUME Reliable
    PROVE  Spec => []StoreMatchesResponse
<1>1. ReliableInv => StoreMatchesResponse
  <2> SUFFICES ASSUME ReliableInv, Quiet, NEW d \in Devices
               PROVE  /\ {a \in AccountIds : account[d][a] # NoNode} = listed(d)
                      /\ listed(d) = {told[d][j].id : j \in DOMAIN told[d]}
                      /\ \A j \in DOMAIN told[d] :
                           (\A k \in DOMAIN told[d] : k > j => told[d][k].id # told[d][j].id)
                              => account[d][told[d][j].id] = told[d][j].node
    BY DEF StoreMatchesResponse
  <2>1. Agree(device[d].accounts, account[d], told[d])
    BY DEF ReliableInv, StoreInv, Unwritten, Quiet
  <2>2. told[d] \in Seq(PushAccount) /\ DOMAIN told[d] = 1..Len(told[d])
    BY DEF ReliableInv, OwnershipInv, TypeInv, TypeOK
  <2>3. listed(d) = {told[d][j].id : j \in DOMAIN told[d]}
    BY <2>1 DEF Agree, listed
  <2>4. listed(d) \subseteq AccountIds
    BY <2>2, <2>3, MentionsTyped
  <2>5. {a \in AccountIds : account[d][a] # NoNode} = listed(d)
    BY <2>1, <2>2, <2>3, <2>4 DEF Agree, KeysMatch
  <2> QED
    BY <2>1, <2>2, <2>3, <2>5 DEF Agree, KeysMatch
<1> QED
  BY <1>1, ReliableInvariant, PTL

-----------------------------------------------------------------------------
(* The abstract registry.                                                  *)

\* Of the mentions of an account in a request one is the last.
LEMMA LastMention ==
    ASSUME NEW n \in Nat, NEW at \in SUBSET (1..n), at # {}
    PROVE  \E j \in at : \A k \in at : k <= j
<1> DEFINE rest == {n - j : j \in at}
<1>1. rest \subseteq Nat /\ rest # {}
  <2>1. \A j \in at : n - j \in Nat
    OBVIOUS
  <2> QED
    BY <2>1
<1>2. PICK x \in rest : \A y \in rest : <<y, x>> \notin OpToRel(<, Nat)
  BY <1>1, NatLessThanWellFounded, WFMin
<1>3. PICK j \in at : x = n - j
  BY <1>2
<1>4. ASSUME NEW k \in at PROVE k <= j
  <2>1. n - k \in rest /\ n - k \in Nat /\ x \in Nat
    BY <1>1, <1>2
  <2>2. ~(n - k < x)
    BY <1>2, <2>1 DEF OpToRel
  <2> QED
    BY <1>3, <2>1, <2>2
<1> QED
  BY <1>3, <1>4

\* requested(a) is the node of the last mention of a.
LEMMA RequestedNodes ==
    ASSUME asio.accounts \in Seq(PushAccount), NEW a \in AccountIds
    PROVE  \/ /\ requested(a) = NoNode
              /\ \A j \in 1..Len(asio.accounts) : asio.accounts[j].id # a
           \/ \E j \in 1..Len(asio.accounts) :
                /\ asio.accounts[j].id = a /\ requested(a) = asio.accounts[j].node
                /\ \A k \in 1..Len(asio.accounts) : k > j => asio.accounts[k].id # a
<1> DEFINE at == {j \in DOMAIN asio.accounts : asio.accounts[j].id = a}
<1>1. DOMAIN asio.accounts = 1..Len(asio.accounts) /\ Len(asio.accounts) \in Nat
  OBVIOUS
<1>2. CASE at = {}
  BY <1>1, <1>2 DEF requested
<1>3. CASE at # {}
  <2> DEFINE last == CHOOSE j \in at : \A k \in at : k <= j
  <2>1. \E j \in at : \A k \in at : k <= j
    BY <1>1, <1>3, LastMention
  <2>2. last \in at /\ \A k \in at : k <= last
    BY <2>1
  <2>3. requested(a) = asio.accounts[last].node
    BY <1>3 DEF requested
  <2> HIDE DEF last
  <2>4. \A k \in 1..Len(asio.accounts) : k > last => asio.accounts[k].id # a
    BY <1>1, <2>2
  <2> QED
    BY <1>1, <2>2, <2>3, <2>4
<1> QED
  BY <1>2, <1>3

\* The abstract state in words of the concrete one: where no request is in the middle
\* of its writes it can be read off Redis.
LEMMA AbstractState ==
    ASSUME ReliableInv, NEW d \in Devices
    PROVE  /\ device[d].uri # NoUri => channelOf(d) = device[d].uri
           /\ asio.pc \in {"idle", "testPush", "nodes", "respond"} \/ d # asio.device =>
                 /\ channelOf(d) = device[d].uri
                 /\ accountsOf(d) = account[d]
<1>0. device[d] \in DeviceRecord /\ account[d] \in [AccountIds -> Nodes \union {NoNode}]
  BY DEF ReliableInv, OwnershipInv, TypeInv, TypeOK
<1>1. device[d].uri # NoUri => channelOf(d) = device[d].uri
  BY DEF ReliableInv, StoreInv, channelOf, Storing, Renewing, NoRecord
<1>2. ASSUME asio.pc \in {"idle", "testPush", "nodes", "respond"} \/ d # asio.device
      PROVE  channelOf(d) = device[d].uri /\ accountsOf(d) = account[d]
  <2>1. ~Storing(d) /\ ~Renewing(d)
    BY <1>2 DEF Storing, Renewing
  <2>2. \A a \in AccountIds : a \notin listed(d) => account[d][a] = NoNode
    <3>1. CASE Unwritten(d)
      <4>1. Agree(device[d].accounts, account[d], told[d])
        BY <3>1 DEF ReliableInv, StoreInv
      <4>2. DOMAIN told[d] = 1..Len(told[d])
        BY DEF ReliableInv, OwnershipInv, TypeInv, TypeOK
      <4> QED
        BY <4>1, <4>2 DEF Agree, KeysMatch, listed
    <3>2. CASE ~Unwritten(d)
      <4>1. asio.pc = "respond" /\ d = asio.device
        BY <1>2, <3>2 DEF Unwritten
      <4>2. /\ KeysMatch(account[d], asio.accounts, Len(asio.accounts))
            /\ device[d].accounts = [j \in DOMAIN asio.accounts |-> asio.accounts[j].id]
        BY <4>1 DEF ReliableInv, StoreInv
      <4>3. DOMAIN asio.accounts = 1..Len(asio.accounts)
        BY DEF ReliableInv, OwnershipInv, TypeInv, TypeOK, AsioThread
      <4> QED
        BY <4>2, <4>3 DEF KeysMatch, listed, Range
    <3> QED
      BY <3>1, <3>2
  <2> QED
    BY <1>0, <2>1, <2>2 DEF channelOf, accountsOf
<1> QED
  BY <1>1, <1>2

\* The pushes of the two threads are not mistaken for each other.
LEMMA PushesDiffer ==
    ASSUME TypeInv
    PROVE  xmpp.pc = "send" => Push(xmpp.device, xmpp.uri, xmpp.node) # Push(asio.device, asio.uri, NoNode)
<1>1. xmpp.pc = "send" => xmpp.node # NoNode
  BY ConstantsAssumption DEF TypeInv, LocalsSet
<1> QED
  BY <1>1 DEF Push

\* Each thread's push, if it has one.
xmppPosts == IF xmpp.pc = "send" THEN {Push(xmpp.device, xmpp.uri, xmpp.node)} ELSE {}
asioPosts == IF asio.pc = "testPush" THEN {Push(asio.device, asio.uri, NoNode)} ELSE {}

\* A step that only the concrete registry sees.
LEMMA Stutter ==
    ASSUME \A d \in Devices : channelOf(d)' = channelOf(d) /\ accountsOf(d)' = accountsOf(d),
           asio.pc = "nodes" <=> asio'.pc = "nodes",
           asio.pc = "nodes" =>
              /\ asio'.device = asio.device
              /\ {p.id : p \in Range(asio'.accounts)} = {p.id : p \in Range(asio.accounts)},
           xmppPosts' = xmppPosts, asioPosts' = asioPosts, owner' = owner
    PROVE  UNCHANGED R!vars
BY DEF R!vars, xmppPosts, asioPosts

LEMMA InitImplements == Init => R!Init
<1> SUFFICES ASSUME Init PROVE R!Init
  OBVIOUS
<1>1. asio.pc = "idle" /\ xmpp.pc = "idle"
  BY DEF Init, IdleAsio, IdleXmpp
<1>2. ASSUME NEW d \in Devices
      PROVE  channelOf(d) = NoUri /\ accountsOf(d) = [a \in AccountIds |-> NoNode]
  <2>1. ~Storing(d) /\ ~Renewing(d)
    BY <1>1 DEF Storing, Renewing
  <2>2. device[d].uri = NoUri /\ \A a \in AccountIds : account[d][a] = NoNode
    BY DEF Init, NoRecord
  <2> QED
    BY <2>1, <2>2 DEF channelOf, accountsOf
<1> QED
  BY <1>1, <1>2 DEF Init, R!Init, R!NoRequest

LEMMA ReceiveImplements ==
    ASSUME ReliableInv, AsioReceive
    PROVE  R!Next
<1> SUFFICES ASSUME NEW d \in Devices,
                    \/ \E u \in Uris : SetChannelUri(d, u)
                    \/ RequestTestPush(d)
                    \/ \E v \in Versions, ids \in Requests : SetPushAccounts(d, v, ids)
                    \/ AbortOnMissingNode(d)
             PROVE  R!Next
  BY DEF AsioReceive
<1>1. /\ device \in [Devices -> DeviceRecord]
      /\ account \in [Devices -> [AccountIds -> Nodes \union {NoNode}]]
  BY DEF ReliableInv, OwnershipInv, TypeInv, TypeOK
<1>2. asio.pc = "idle" =>
        \A e \in Devices : channelOf(e) = device[e].uri /\ accountsOf(e) = account[e]
  BY AbstractState
<1>3. ASSUME NEW u \in Uris, SetChannelUri(d, u) PROVE R!Next
  <2>1. /\ asio.pc = "idle" /\ asio'.pc = "storeUri" /\ asio'.device = d /\ asio'.uri = u
        /\ asio'.keys = device[d].accounts
        /\ device' = [device EXCEPT ![d] = NoRecord]
        /\ UriOwner[u] = d
        /\ UNCHANGED <<account, xmpp, owner>>
    BY <1>3 DEF SetChannelUri, IdleAsio, historyVars
  <2>2. ASSUME NEW e \in Devices
        PROVE  /\ channelOf(e)' = IF e = d THEN u ELSE channelOf(e)
               /\ accountsOf(e)' = accountsOf(e)
    <3>1. CASE e = d
      <4>1. Renewing(e)' /\ ~Storing(e)' /\ ~Renewing(e) /\ ~Storing(e)
        BY <2>1, <3>1 DEF Renewing, Storing
      <4> QED
        BY <2>1, <3>1, <4>1 DEF channelOf, accountsOf, listed
    <3>2. CASE e # d
      <4>1. ~Renewing(e)' /\ ~Storing(e)' /\ ~Renewing(e) /\ ~Storing(e)
        BY <2>1, <3>2 DEF Renewing, Storing
      <4>2. device'[e] = device[e]
        BY <1>1, <2>1, <3>2
      <4> QED
        BY <2>1, <3>2, <4>1, <4>2 DEF channelOf, accountsOf, listed
    <3> QED
      BY <3>1, <3>2
  <2>3. R!SetChannelUri(d, u)
    BY <2>1, <2>2 DEF R!SetChannelUri
  <2> QED
    BY <2>3 DEF R!Next
<1>4. CASE RequestTestPush(d)
  <2>1. /\ asio.pc = "idle" /\ asio'.pc = "testPush" /\ asio'.device = d
        /\ asio'.uri = device[d].uri /\ device[d].uri # NoUri
        /\ UNCHANGED <<device, account, xmpp, owner>>
    BY <1>4 DEF RequestTestPush, IdleAsio, get_channel_uri, redisVars, historyVars
  <2>2. \A e \in Devices : channelOf(e)' = channelOf(e) /\ accountsOf(e)' = accountsOf(e)
    BY <2>1 DEF channelOf, accountsOf, Storing, Renewing, listed
  <2>3. R!StartPush(d, NoNode)
    BY <1>2, <2>1, <2>2 DEF R!StartPush, R!Push, Push
  <2> QED
    BY <2>3 DEF R!Next
<1>5. ASSUME NEW v \in Versions, NEW ids \in Requests, SetPushAccounts(d, v, ids)
      PROVE  R!Next
  <2>1. PICK nodes \in NodeChoices(d, ids) :
          /\ asio' = [IdleAsio EXCEPT
               !.pc = "nodes", !.device = d, !.version = v, !.uri = get_channel_uri(d),
               !.accounts = [j \in DOMAIN ids |->
                   [id |-> ids[j], node |-> nodes[j], success |-> reusable(d, ids[j])]],
               !.deleteNodes = get_push_nodes(d) \ Range(nodes),
               !.addNodes = AddNodes(d, nodes)]
          /\ owner' = [n \in Nodes |->
               IF owner[n] = NoOwner /\ n \in Range(nodes)
                 THEN Owner(d, ids[CHOOSE j \in DOMAIN ids : nodes[j] = n])
                 ELSE owner[n]]
    BY <1>5 DEF SetPushAccounts
  <2>2. /\ asio.pc = "idle" /\ device[d].uri # NoUri
        /\ UNCHANGED <<device, account, xmpp>>
    BY <1>5 DEF SetPushAccounts, get_channel_uri, redisVars
  <2>3. asio'.pc = "nodes" /\ asio'.device = d
    BY <2>1 DEF IdleAsio
  <2>4. asio'.accounts = [j \in DOMAIN ids |->
                   [id |-> ids[j], node |-> nodes[j], success |-> reusable(d, ids[j])]]
    BY <2>1 DEF IdleAsio
  <2>5. {p.id : p \in Range(asio'.accounts)} = Range(ids)
    BY <2>4 DEF Range
  <2>6. \A e \in Devices : channelOf(e)' = channelOf(e) /\ accountsOf(e)' = accountsOf(e)
    BY <2>2, <2>3 DEF channelOf, accountsOf, Storing, Renewing, listed
  <2>7. DOMAIN owner' = Nodes
    BY <2>1
  <2>8. ASSUME NEW n \in Nodes
        PROVE  \/ owner'[n] = owner[n]
               \/ owner[n] = NoOwner /\ owner'[n] \in [device : {d}, account : Range(ids)]
    <3>1. CASE owner[n] = NoOwner /\ n \in Range(nodes)
      <4> DEFINE j == CHOOSE k \in DOMAIN ids : nodes[k] = n
      <4>1. \E k \in DOMAIN ids : nodes[k] = n
        BY <2>1, <3>1 DEF NodeChoices, Range
      <4>2. j \in DOMAIN ids
        BY <4>1
      <4>3. owner'[n] = Owner(d, ids[j])
        BY <2>1, <3>1
      <4> HIDE DEF j
      <4> QED
        BY <3>1, <4>2, <4>3 DEF Owner, Range
    <3>2. CASE ~(owner[n] = NoOwner /\ n \in Range(nodes))
      BY <2>1, <3>2
    <3> QED
      BY <3>1, <3>2
  <2>9. Range(ids) \in SUBSET AccountIds
    <3>1. ids \in Seq(AccountIds)
      BY RequestsTyped
    <3> QED
      BY <3>1 DEF Range
  <2>10. R!Request(d, Range(ids))
    BY <1>2, <2>2, <2>3, <2>5, <2>6, <2>7, <2>8 DEF R!Request, R!NoRequest
  <2> QED
    BY <2>9, <2>10 DEF R!Next
<1>6. CASE AbortOnMissingNode(d)
  BY <1>6, ListedNodesPresent DEF AbortOnMissingNode
<1> QED
  BY <1>3, <1>4, <1>5, <1>6

\* While a request is written, the abstract registry already has it.
LEMMA StoringStutters ==
    ASSUME ReliableInv, asio.pc \in {"clear", "store", "storeNode"},
           asio'.pc \in {"clear", "store", "storeNode"},
           asio'.device = asio.device, asio'.uri = asio.uri, asio'.accounts = asio.accounts,
           \A e \in Devices \ {asio.device} : device'[e] = device[e] /\ account'[e] = account[e],
           UNCHANGED <<xmpp, owner>>
    PROVE  UNCHANGED R!vars
<1>1. ASSUME NEW e \in Devices
      PROVE  channelOf(e)' = channelOf(e) /\ accountsOf(e)' = accountsOf(e)
  <2>1. CASE e = asio.device
    <3>1. Storing(e) /\ Storing(e)'
      BY <2>1 DEF Storing
    <3> QED
      BY <3>1 DEF channelOf, accountsOf, requested
  <2>2. CASE e # asio.device
    <3>1. ~Storing(e) /\ ~Storing(e)' /\ ~Renewing(e) /\ ~Renewing(e)'
      BY <2>2 DEF Storing, Renewing
    <3> QED
      BY <2>2, <3>1 DEF channelOf, accountsOf, listed
  <2> QED
    BY <2>1, <2>2
<1> QED
  BY <1>1, Stutter DEF xmppPosts, asioPosts

\* With the first of its writes a request takes effect.
LEMMA BeginStoreImplements ==
    ASSUME ReliableInv, BeginStore
    PROVE  R!SetPushAccounts
<1> DEFINE d == asio.device
<1>1. /\ asio.pc = "nodes" /\ asio'.pc = "clear" /\ asio'.device = d /\ asio'.uri = asio.uri
      /\ asio'.accounts = asio.accounts
      /\ UNCHANGED <<device, account, xmpp, owner>>
  BY DEF BeginStore, ReliableInv, OwnershipInv, TypeInv, TypeOK, AsioThread, redisVars, historyVars
<1>2. d \in Devices /\ d # NoDevice /\ asio.accounts \in Seq(PushAccount)
  BY <1>1, ConstantsAssumption
  DEF ReliableInv, OwnershipInv, TypeInv, LocalsSet, TypeOK, AsioThread
<1>3. DOMAIN asio.accounts = 1..Len(asio.accounts)
  BY <1>2
<1> DEFINE ids == {p.id : p \in Range(asio.accounts)}
<1> DEFINE new == [a \in AccountIds |-> requested(a)]
<1>4. ASSUME NEW a \in AccountIds
      PROVE  /\ requested(a) \in Nodes \union {NoNode}
             /\ IF a \in ids THEN requested(a) # NoNode /\ owner[requested(a)] = Owner(d, a)
                             ELSE requested(a) = NoNode
  <2>1. CASE \A j \in 1..Len(asio.accounts) : asio.accounts[j].id # a
    <3>1. requested(a) = NoNode
      BY <1>2, <2>1, RequestedNodes
    <3> QED
      BY <1>3, <2>1, <3>1 DEF Range
  <2>2. CASE \E j \in 1..Len(asio.accounts) : asio.accounts[j].id = a
    <3>1. PICK j \in 1..Len(asio.accounts) :
            asio.accounts[j].id = a /\ requested(a) = asio.accounts[j].node
      BY <1>2, <2>2, RequestedNodes
    <3>2. owner[asio.accounts[j].node] = Owner(d, a)
      BY <1>3, <3>1 DEF ReliableInv, OwnershipInv, Ownership, AsioOwnership
    <3>3. asio.accounts[j].node \in Nodes /\ asio.accounts[j].node # NoNode
      BY <1>2, MentionsTyped
    <3>4. a \in ids
      BY <1>3, <3>1 DEF Range
    <3> QED
      BY <3>1, <3>2, <3>3, <3>4
  <2> QED
    BY <2>1, <2>2
<1>5. \A a \in AccountIds : requested(a)' = requested(a)
  BY <1>1 DEF requested
<1>6. ASSUME NEW e \in Devices
      PROVE  /\ channelOf(e)' = channelOf(e)
             /\ accountsOf(e)' = IF e = d THEN new ELSE accountsOf(e)
  <2>1. CASE e = d
    <3>1. Storing(e)' /\ ~Storing(e) /\ ~Renewing(e)
      BY <1>1, <2>1 DEF Storing, Renewing
    <3>2. asio.uri = device[e].uri
      BY <1>1, <2>1 DEF ReliableInv, StoreInv
    <3> QED
      BY <1>1, <1>5, <2>1, <3>1, <3>2 DEF channelOf, accountsOf
  <2>2. CASE e # d
    <3>1. ~Storing(e) /\ ~Storing(e)' /\ ~Renewing(e) /\ ~Renewing(e)'
      BY <1>1, <2>2 DEF Storing, Renewing
    <3> QED
      BY <1>1, <2>2, <3>1 DEF channelOf, accountsOf, listed
  <2> QED
    BY <2>1, <2>2
<1>7. new \in [AccountIds -> Nodes \union {NoNode}]
  BY <1>4
<1>8. \A a \in AccountIds :
        IF a \in ids THEN new[a] # NoNode /\ owner[new[a]] = [device |-> d, account |-> a]
                     ELSE new[a] = NoNode
  BY <1>4 DEF Owner
<1> HIDE DEF new, ids
<1>9. [e \in Devices |-> accountsOf(e)]' = [[e \in Devices |-> accountsOf(e)] EXCEPT ![d] = new]
  BY <1>2, <1>6
<1>10. [e \in Devices |-> channelOf(e)]' = [e \in Devices |-> channelOf(e)]
  BY <1>6
<1> QED
  BY <1>1, <1>2, <1>7, <1>8, <1>9, <1>10 DEF R!SetPushAccounts, R!NoRequest, ids

LEMMA StepImplements ==
    ASSUME ReliableInv, AsioStep
    PROVE  R!Next \/ UNCHANGED R!vars
<1>0. /\ asio \in AsioThread
      /\ device \in [Devices -> DeviceRecord]
      /\ account \in [Devices -> [AccountIds -> Nodes \union {NoNode}]]
      /\ asio.pc # "idle" => asio.device \in Devices
  BY DEF ReliableInv, OwnershipInv, TypeInv, TypeOK, LocalsSet
<1>1. CASE StoreUri
  <2>1. /\ asio.pc = "storeUri" /\ asio' = IdleAsio
        /\ device' = [device EXCEPT ![asio.device] =
                         [uri |-> asio.uri, version |-> asio.version, accounts |-> asio.keys]]
        /\ UNCHANGED <<account, xmpp, owner>>
    BY <1>1 DEF StoreUri, historyVars
  <2>2. ASSUME NEW e \in Devices
        PROVE  channelOf(e)' = channelOf(e) /\ accountsOf(e)' = accountsOf(e)
    <3>1. ~Storing(e)' /\ ~Renewing(e)' /\ ~Storing(e)
      BY <2>1 DEF Storing, Renewing, IdleAsio
    <3>2. CASE e = asio.device
      <4>1. Renewing(e)
        BY <2>1, <3>2 DEF Renewing
      <4>2. device'[e].uri = asio.uri /\ device'[e].accounts = asio.keys
        BY <1>0, <2>1, <3>2
      <4> QED
        BY <2>1, <3>1, <4>1, <4>2 DEF channelOf, accountsOf, listed
    <3>3. CASE e # asio.device
      <4>1. ~Renewing(e) /\ device'[e] = device[e]
        BY <1>0, <2>1, <3>3 DEF Renewing
      <4> QED
        BY <2>1, <3>1, <4>1 DEF channelOf, accountsOf, listed
    <3> QED
      BY <3>2, <3>3
  <2> QED
    BY <2>1, <2>2, Stutter DEF xmppPosts, asioPosts, IdleAsio
<1>2. CASE SendTestPush
  <2>1. /\ asio.pc = "testPush" /\ asio' = IdleAsio
        /\ UNCHANGED <<device, account, xmpp, owner>>
    BY <1>2 DEF SendTestPush, redisVars, historyVars
  <2>2. \A e \in Devices : channelOf(e)' = channelOf(e) /\ accountsOf(e)' = accountsOf(e)
    BY <2>1 DEF channelOf, accountsOf, Storing, Renewing, listed, IdleAsio
  <2> DEFINE p == Push(asio.device, asio.uri, NoNode)
  <2>3. /\ p \in asioPosts /\ asioPosts = {p} /\ asioPosts' = {} /\ xmppPosts' = xmppPosts
        /\ p \notin xmppPosts
    BY <2>1, PushesDiffer DEF asioPosts, xmppPosts, IdleAsio, ReliableInv, OwnershipInv
  <2> HIDE DEF p
  <2>4. R!EndPush(p)
    BY <2>1, <2>2, <2>3 DEF R!EndPush, asioPosts, xmppPosts, IdleAsio
  <2> QED
    BY <2>3, <2>4 DEF R!Next, asioPosts, xmppPosts
<1>3. ASSUME NEW n \in Nodes, DeletePushNode(n) \/ SetupPushNode(n)
      PROVE  UNCHANGED R!vars
  <2>1. /\ asio.pc = "nodes" /\ asio'.pc = "nodes" /\ asio'.device = asio.device
        /\ UNCHANGED <<device, account, xmpp, owner>>
    BY <1>0, <1>3 DEF DeletePushNode, SetupPushNode, AsioThread, redisVars, historyVars
  <2>2. \A e \in Devices : channelOf(e)' = channelOf(e) /\ accountsOf(e)' = accountsOf(e)
    BY <2>1 DEF channelOf, accountsOf, Storing, Renewing, listed
  <2>3. /\ DOMAIN asio'.accounts = DOMAIN asio.accounts
        /\ \A j \in DOMAIN asio.accounts : asio'.accounts[j].id = asio.accounts[j].id
    <3>1. asio.accounts \in Seq(PushAccount)
      BY <1>0 DEF AsioThread
    <3>2. \A j \in DOMAIN asio.accounts : asio.accounts[j] \in PushAccount
      BY <3>1
    <3>3. CASE DeletePushNode(n)
      BY <1>0, <3>3 DEF DeletePushNode, AsioThread
    <3>4. CASE SetupPushNode(n)
      <4>1. asio'.accounts = [j \in DOMAIN asio.accounts |->
              IF /\ asio.accounts[j].node = n
                 /\ \A k \in DOMAIN asio.accounts : k > j => asio.accounts[k].node # n
                THEN [asio.accounts[j] EXCEPT !.success = connected]
                ELSE asio.accounts[j]]
        BY <1>0, <3>4 DEF SetupPushNode, AsioThread
      <4> QED
        BY <3>2, <4>1 DEF PushAccount
    <3> QED
      BY <1>3, <3>3, <3>4
  <2>4. {p.id : p \in Range(asio'.accounts)} = {p.id : p \in Range(asio.accounts)}
    BY <2>3 DEF Range
  <2> QED
    BY <2>1, <2>2, <2>4, Stutter DEF xmppPosts, asioPosts
<1>4. CASE BeginStore
  BY <1>4, BeginStoreImplements DEF R!Next
<1>5. CASE ClearAccount \/ DropDevice \/ StoreAccount \/ StoreNode
  <2>1. /\ asio.pc \in {"clear", "store", "storeNode"} /\ asio'.pc \in {"clear", "store", "storeNode"}
        /\ asio'.device = asio.device /\ asio'.uri = asio.uri /\ asio'.accounts = asio.accounts
        /\ UNCHANGED <<xmpp, owner>>
    BY <1>0, <1>5
    DEF ClearAccount, DropDevice, StoreAccount, StoreNode, AsioThread, historyVars
  <2>2. \A e \in Devices \ {asio.device} : device'[e] = device[e] /\ account'[e] = account[e]
    BY <1>0, <1>5, <2>1 DEF ClearAccount, DropDevice, StoreAccount, StoreNode
  <2> QED
    BY <2>1, <2>2, StoringStutters
<1>6. CASE StoreDevice
  <2> DEFINE ids == [j \in DOMAIN asio.accounts |-> asio.accounts[j].id]
  <2>1. /\ asio.pc = "store" /\ asio.i > Len(asio.accounts)
        /\ device' = [device EXCEPT ![asio.device] =
                         [uri |-> asio.uri, version |-> asio.version, accounts |-> ids]]
        /\ asio'.pc = "respond" /\ asio'.device = asio.device
        /\ UNCHANGED <<account, xmpp, owner>>
    BY <1>0, <1>6 DEF StoreDevice, AsioThread, historyVars
  <2>2. asio.accounts \in Seq(PushAccount) /\ asio.i \in Nat \ {0}
    BY <1>0 DEF AsioThread
  <2>3. DOMAIN asio.accounts = 1..Len(asio.accounts)
    BY <2>2
  <2>4. KeysMatch(account[asio.device], asio.accounts, Len(asio.accounts))
    <3>1. asio.i - 1 = Len(asio.accounts)
      BY <2>1, <2>2 DEF ReliableInv, StoreInv
    <3> QED
      BY <2>1, <3>1 DEF ReliableInv, StoreInv
  <2>5. ASSUME NEW e \in Devices
        PROVE  channelOf(e)' = channelOf(e) /\ accountsOf(e)' = accountsOf(e)
    <3>1. ~Storing(e)' /\ ~Renewing(e)' /\ ~Renewing(e)
      BY <2>1 DEF Storing, Renewing
    <3>2. CASE e = asio.device
      <4>1. Storing(e)
        BY <2>1, <3>2 DEF Storing
      <4>2. device'[e].uri = asio.uri /\ Range(device'[e].accounts) = Range(ids)
        BY <1>0, <2>1, <3>2
      <4>3. ASSUME NEW a \in AccountIds
            PROVE  requested(a) = IF a \in Range(ids) THEN account[e][a] ELSE NoNode
        <5>1. a \in Range(ids) <=> \E j \in 1..Len(asio.accounts) : asio.accounts[j].id = a
          BY <2>3 DEF Range
        <5>2. CASE /\ requested(a) = NoNode
                   /\ \A j \in 1..Len(asio.accounts) : asio.accounts[j].id # a
          BY <5>1, <5>2
        <5>3. CASE \E j \in 1..Len(asio.accounts) :
                     /\ asio.accounts[j].id = a /\ requested(a) = asio.accounts[j].node
                     /\ \A k \in 1..Len(asio.accounts) : k > j => asio.accounts[k].id # a
          BY <2>4, <3>2, <5>1, <5>3 DEF KeysMatch
        <5> QED
          BY <2>2, <5>2, <5>3, RequestedNodes
      <4> HIDE DEF ids
      <4> QED
        BY <2>1, <3>1, <4>1, <4>2, <4>3 DEF channelOf, accountsOf, listed
    <3>3. CASE e # asio.device
      <4>1. ~Storing(e) /\ device'[e] = device[e]
        BY <1>0, <2>1, <3>3 DEF Storing
      <4> QED
        BY <2>1, <3>1, <4>1 DEF channelOf, accountsOf, listed
    <3> QED
      BY <3>2, <3>3
  <2> QED
    BY <2>1, <2>5, Stutter DEF xmppPosts, asioPosts
<1>7. CASE Respond
  <2>1. /\ asio.pc = "respond" /\ asio' = IdleAsio
        /\ UNCHANGED <<device, account, xmpp, owner>>
    BY <1>7 DEF Respond, redisVars
  <2>2. \A e \in Devices : channelOf(e)' = channelOf(e) /\ accountsOf(e)' = accountsOf(e)
    BY <2>1 DEF channelOf, accountsOf, Storing, Renewing, listed, IdleAsio
  <2> QED
    BY <2>1, <2>2, Stutter DEF xmppPosts, asioPosts, IdleAsio
<1> QED
  BY <1>1, <1>2, <1>3, <1>4, <1>5, <1>6, <1>7 DEF AsioStep

LEMMA XmppStepImplements ==
    ASSUME ReliableInv, XmppStep
    PROVE  R!Next \/ UNCHANGED R!vars
<1>1. UNCHANGED <<device, account, asio, owner>>
  BY DEF XmppStep, TakeMessage, ReadDevice, ReadVersion, RouteToDevice, RouteToUri, SendPush,
         redisVars, historyVars
<1>2. \A e \in Devices : channelOf(e)' = channelOf(e) /\ accountsOf(e)' = accountsOf(e)
  BY <1>1 DEF channelOf, accountsOf, Storing, Renewing, listed, requested
<1>3. xmpp \in XmppThread /\ (xmpp.pc # "idle" => xmpp.node \in Nodes)
  BY DEF ReliableInv, OwnershipInv, TypeInv, TypeOK, LocalsSet
<1>4. CASE TakeMessage \/ ReadDevice \/ ReadVersion \/ RouteToDevice
  <2>1. CASE TakeMessage
    <3>1. xmpp.pc = "idle" /\ xmpp'.pc \in {"device", "idle"}
      BY <2>1 DEF TakeMessage, IdleXmpp
    <3> QED
      BY <1>1, <1>2, <3>1, Stutter DEF xmppPosts, asioPosts
  <2>2. CASE ReadDevice
    <3>1. xmpp.pc = "device" /\ xmpp'.pc = "version"
      BY <1>3, <2>2 DEF ReadDevice, XmppThread
    <3> QED
      BY <1>1, <1>2, <3>1, Stutter DEF xmppPosts, asioPosts
  <2>3. CASE ReadVersion
    <3>1. xmpp.pc = "version" /\ xmpp'.pc = "route"
      BY <1>3, <2>3 DEF ReadVersion, XmppThread
    <3> QED
      BY <1>1, <1>2, <3>1, Stutter DEF xmppPosts, asioPosts
  <2>4. CASE RouteToDevice
    <3>1. xmpp.pc = "route" /\ xmpp'.pc \in {"uri", "idle"}
      BY <1>3, <2>4 DEF RouteToDevice, IdleXmpp, XmppThread
    <3> QED
      BY <1>1, <1>2, <3>1, Stutter DEF xmppPosts, asioPosts
  <2> QED
    BY <1>4, <2>1, <2>2, <2>3, <2>4
<1>5. CASE RouteToUri
  <2> DEFINE d == xmpp.device
  <2>1. CASE get_channel_uri(d) = NoUri
    <3>1. xmpp.pc # "send" /\ xmpp'.pc # "send"
      BY <1>5, <2>1 DEF RouteToUri, IdleXmpp
    <3> QED
      BY <1>1, <1>2, <3>1, Stutter DEF xmppPosts, asioPosts
  <2>2. CASE get_channel_uri(d) # NoUri
    <3>1. /\ xmpp.pc = "uri" /\ xmpp'.pc = "send" /\ xmpp'.device = d
          /\ xmpp'.uri = device[d].uri /\ xmpp'.node = xmpp.node
      BY <1>3, <1>5, <2>2 DEF RouteToUri, get_channel_uri, XmppThread
    <3>2. d \in Devices /\ owner[xmpp.node] # NoOwner /\ owner[xmpp.node].device = d
      BY <3>1 DEF ReliableInv, OwnershipInv, Ownership, XmppOwnership
    <3>3. channelOf(d) = device[d].uri /\ channelOf(d) # NoUri
      BY <2>2, <3>2, AbstractState DEF get_channel_uri
    <3>4. R!StartPush(d, xmpp.node)
      BY <1>1, <1>2, <3>1, <3>2, <3>3 DEF R!StartPush, R!Push, Push
    <3> QED
      BY <1>3, <3>1, <3>2, <3>4 DEF R!Next
  <2> QED
    BY <2>1, <2>2
<1>6. CASE SendPush
  <2> DEFINE p == Push(xmpp.device, xmpp.uri, xmpp.node)
  <2>1. xmpp.pc = "send" /\ xmpp' = IdleXmpp
    BY <1>6 DEF SendPush
  <2>2. /\ xmppPosts = {p} /\ xmppPosts' = {} /\ asioPosts' = asioPosts
        /\ p \notin asioPosts
    BY <1>1, <2>1, PushesDiffer DEF xmppPosts, asioPosts, IdleXmpp, ReliableInv, OwnershipInv
  <2> HIDE DEF p
  <2>3. R!EndPush(p)
    BY <1>1, <1>2, <2>2 DEF R!EndPush, asioPosts, xmppPosts
  <2> QED
    BY <2>2, <2>3 DEF R!Next, asioPosts, xmppPosts
<1> QED
  BY <1>4, <1>5, <1>6 DEF XmppStep

LEMMA EnvironmentImplements ==
    ASSUME Reliable, Environment
    PROVE  UNCHANGED R!vars
<1>1. UNCHANGED <<device, account, asio, xmpp, owner>>
  BY DEF Reliable, Environment, Publish, Disconnect, Connect, Crash, RedisFails,
         RedisFailsForXmpp, Expire, redisVars, historyVars
<1>2. \A e \in Devices : channelOf(e)' = channelOf(e) /\ accountsOf(e)' = accountsOf(e)
  BY <1>1 DEF channelOf, accountsOf, Storing, Renewing, listed, requested
<1> QED
  BY <1>1, <1>2, Stutter DEF xmppPosts, asioPosts

\* ImplementsRegistrations: as long as Redis answers, the process lives and no entry
\* expires, the commands of the two threads on the keys of any number of devices,
\* interleaved as they may be, do what the atomic requests and pushes of Registrations
\* would (set_channel_uri, set_push_accounts, send_test_push, message_handler).
THEOREM ImplementsRegistrations ==
    ASSUME Reliable
    PROVE  Spec => RefinesRegistrations
<1>1. ReliableInv /\ [Next]_vars => [R!Next]_(R!vars)
  <2> SUFFICES ASSUME ReliableInv, [Next]_vars PROVE R!Next \/ UNCHANGED R!vars
    OBVIOUS
  <2>1. CASE UNCHANGED vars
    <3>1. \A e \in Devices : channelOf(e)' = channelOf(e) /\ accountsOf(e)' = accountsOf(e)
      BY <2>1 DEF vars, redisVars, channelOf, accountsOf, Storing, Renewing, listed, requested
    <3> QED
      BY <2>1, <3>1, Stutter DEF vars, historyVars, xmppPosts, asioPosts
  <2>2. CASE Next
    BY <2>2, ReceiveImplements, StepImplements, XmppStepImplements, EnvironmentImplements
    DEF Next
  <2> QED
    BY <2>1, <2>2
<1> QED
  BY <1>1, InitImplements, ReliableInvariant, PTL DEF Spec, RefinesRegistrations, R!Spec

=============================================================================
