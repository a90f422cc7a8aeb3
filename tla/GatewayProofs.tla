---------------------------- MODULE GatewayProofs ----------------------------
(***************************************************************************)
(* Proofs about Gateway: that a client which waits gets the answers to its *)
(* requests, that nothing but the known messages and stanzas ends the      *)
(* process, and that the nodes of the XMPP server are the registered ones. *)
(*                                                                         *)
(* Documents are functions whose values have many types. What a document   *)
(* holds is therefore said once, in lemmas about what is read and what is  *)
(* written, and the steps are proved from these.                           *)
(***************************************************************************)
EXTENDS Gateway, MessagesProofs

-----------------------------------------------------------------------------
(* What clients send and what they are answered.                           *)

Documents == (UNION {Vocabulary[c] : c \in Clients}) \union {NotJson}

LEMMA EmptyDocument == DOMAIN NotJson = {}
BY DEF NotJson

LEMMA DocumentsTyped ==
    ASSUME NEW j \in Documents
    PROVE  /\ IsDocument(j)
           /\ Text(j, "device_id") => j["device_id"] \in Devices
           /\ "accounts" \in DOMAIN j /\ j["accounts"] # Wrong =>
                 \A k \in DOMAIN j["accounts"] :
                    Text(j["accounts"][k], "account_id") =>
                        j["accounts"][k]["account_id"] \in Accounts
<1>1. CASE j = NotJson
  <2>1. \A f : f \notin DOMAIN j
    BY <1>1, EmptyDocument, Zenon
  <2> QED
    BY <2>1, Zenon DEF IsDocument, Text
<1>2. CASE \E c \in Clients : j \in Vocabulary[c]
  <2>1. PICK c \in Clients : j \in Vocabulary[c]
    BY <1>2
  <2> QED
    BY <2>1, DocumentsAssumption, Zenon DEF IsDocument, IsList, Text
<1> QED
  BY <1>1, <1>2 DEF Documents

LEMMA PushAccountsTyped ==
    ASSUME NEW j \in Documents, WellFormed("set_push_accounts", j)
    PROVE  /\ IsList(j["accounts"]) /\ j["device_id"] \in Devices
           /\ \A k \in DOMAIN j["accounts"] : j["accounts"][k]["account_id"] \in Accounts
<1>1. /\ "accounts" \in DOMAIN j /\ j["accounts"] # Wrong /\ Text(j, "device_id")
      /\ \A a \in ToSet(j["accounts"]) : Text(a, "account_id")
  BY Zenon DEF WellFormed
<1>2. \A k \in DOMAIN j["accounts"] : j["accounts"][k] \in ToSet(j["accounts"])
  BY Zenon DEF ToSet
<1> QED
  BY <1>1, <1>2, DocumentsTyped, Zenon DEF IsDocument

\* A document is a request of one kind at most.
LEMMA OneRequest ==
    ASSUME NEW j, NEW action, WellFormed(action, j), NEW other, other # action
    PROVE  ~WellFormed(other, j)
BY Zenon DEF WellFormed

Answers ==
    {SuccessResponse_to_json} \union {ErrorResponse_to_json(error) : error \in Errors} \union
    {SuccessSetPushAccounts_to_json(accounts, "jid") : accounts \in Seq(ListedAccounts)}

LEMMA AnswerFields ==
    /\ SuccessResponse_to_json.status = 1
    /\ "accounts" \notin DOMAIN SuccessResponse_to_json
    /\ "error" \notin DOMAIN SuccessResponse_to_json
    /\ \A error : /\ ErrorResponse_to_json(error).status = 0
                  /\ "error" \in DOMAIN ErrorResponse_to_json(error)
                  /\ "accounts" \notin DOMAIN ErrorResponse_to_json(error)
    /\ \A accounts, jid :
          /\ SuccessSetPushAccounts_to_json(accounts, jid).status = 1
          /\ SuccessSetPushAccounts_to_json(accounts, jid).accounts = accounts
          /\ "accounts" \in DOMAIN SuccessSetPushAccounts_to_json(accounts, jid)
          /\ "error" \notin DOMAIN SuccessSetPushAccounts_to_json(accounts, jid)
BY DEF SuccessResponse_to_json, AbstractResponse_to_json, ErrorResponse_to_json,
       SuccessSetPushAccounts_to_json

LEMMA ListedAccountRight ==
    ASSUME NEW a \in ListedAccounts
    PROVE  AccountRight(a)
<1>1. /\ DOMAIN a = {"account_id", "node", "secret", "success"}
      /\ a["account_id"] \in Accounts /\ a["node"] = "node" /\ a["secret"] = "secret"
      /\ a["success"] = TRUE
  BY DEF ListedAccounts
<1>2. TRUE # Wrong
  BY WrongAssumption, Zenon
<1>3. "node" # "" /\ "secret" # ""
  OBVIOUS
<1>4. Text(a, "node") /\ Text(a, "secret")
  BY <1>1, <1>3, WrongIsNoText, Zenon DEF Text
<1>5. Text(a, "account_id")
  BY <1>1, NamesAssumption, Zenon DEF Text
<1> QED
  BY <1>1, <1>2, <1>4, <1>5, Zenon DEF AccountRight

LEMMA AnswersReadable ==
    ASSUME NEW a \in Answers
    PROVE  \/ "accounts" \in DOMAIN a /\ a.accounts = <<>>
           \/ parse(a) = AnswerType(a)
<1>1. CASE a = SuccessResponse_to_json
  BY <1>1, AnswersRead, AnswerFields, Zenon DEF AnswerType
<1>2. ASSUME NEW error \in Errors, a = ErrorResponse_to_json(error)
      PROVE  parse(a) = AnswerType(a)
  <2>1. error # Wrong
    BY <1>2, NamesAssumption, Zenon
  <2> QED
    BY <1>2, <2>1, AnswersRead, AnswerFields, Zenon DEF AnswerType
<1>3. ASSUME NEW accounts \in Seq(ListedAccounts),
             a = SuccessSetPushAccounts_to_json(accounts, "jid"), accounts # <<>>
      PROVE  parse(a) = AnswerType(a)
  <2>1. IsList(accounts)
    BY <1>3 DEF IsList
  <2>2. accounts # Wrong
    BY <1>3, NamesAssumption, Zenon
  <2>3. "jid" # Wrong /\ "jid" # ""
    BY WrongIsNoText
  <2>4. \A b \in ToSet(accounts) : AccountRight(b)
    <3>1. \A b \in ToSet(accounts) : b \in ListedAccounts
      BY <1>3 DEF ToSet
    <3> QED
      BY <3>1, ListedAccountRight, Zenon
  <2>5. parse(a) = "SUCCESS_SET_PUSH_ACCOUNT"
    BY <1>3, <2>1, <2>2, <2>3, <2>4, AnswersRead, Zenon
  <2> QED
    BY <1>3, <2>5, AnswerFields, Zenon DEF AnswerType
<1> QED
  BY <1>1, <1>2, <1>3, AnswerFields, Zenon DEF Answers

-----------------------------------------------------------------------------
(* What PushServer does with a message.                                    *)

DeviceRecords == [known : BOOLEAN, version : 0..2, accounts : Seq(Accounts)]

\* A message is answered as it deserves, and who is told that a channel URI was accepted
\* is known.
Handled(j) ==
    \E a \in Answers :
        /\ answer' = <<a>> /\ Fits(j, a)
        /\ WellFormed("set_push_accounts", j) /\ registry[j["device_id"]].known => Succeeded(a)
        /\ Accepted(j, <<a>>) \subseteq {d \in Devices : registry'[d].known}

LEMMA ErrorHandles ==
    ASSUME NEW j, NEW error \in Errors, RespondWithError(error),
           WellFormed("set_channel_uri", j) => j.channel_uri # "notify",
           WellFormed("set_push_accounts", j) => ~registry[j["device_id"]].known
    PROVE  Handled(j)
<1> DEFINE a == ErrorResponse_to_json(error)
<1>1. a \in Answers /\ answer' = <<a>>
  BY Zenon DEF Answers, RespondWithError, Respond
<1>2. a.status = 0 /\ "accounts" \notin DOMAIN a
  BY AnswerFields, Zenon
<1>3. ~Succeeded(a)
  BY <1>2 DEF Succeeded
<1>4. Accepted(j, <<a>>) = {}
  BY <1>2 DEF Accepted
<1> HIDE DEF a
<1>5. Fits(j, a)
  BY <1>2, <1>3, Zenon DEF Fits
<1> QED
  BY <1>1, <1>3, <1>4, <1>5, Zenon DEF Handled

LEMMA SuccessHandles ==
    ASSUME NEW j, NEW action \in Actions, WellFormed(action, j), action # "set_push_accounts",
           Respond(SuccessResponse_to_json),
           j["device_id"] \in Devices, registry'[j["device_id"]].known,
           action = "set_channel_uri" => j.channel_uri = "notify"
    PROVE  Handled(j)
<1> DEFINE a == SuccessResponse_to_json
<1>1. a \in Answers /\ answer' = <<a>>
  BY Zenon DEF Answers, Respond
<1>2. a.status = 1 /\ "accounts" \notin DOMAIN a
  BY AnswerFields, Zenon
<1>3. Succeeded(a)
  BY <1>2 DEF Succeeded
<1>4. Accepted(j, <<a>>) \subseteq {d \in Devices : registry'[d].known}
  BY Zenon DEF Accepted
<1>5. ~WellFormed("set_push_accounts", j)
  BY OneRequest, Zenon
<1>6. WellFormed("set_channel_uri", j) => j.channel_uri = "notify"
  BY OneRequest, Zenon
<1> HIDE DEF a
<1>7. Fits(j, a)
  BY <1>2, <1>3, <1>5, <1>6, Zenon DEF Fits
<1> QED
  BY <1>1, <1>3, <1>4, <1>7, Zenon DEF Handled

LEMMA SetChannelUri ==
    ASSUME NEW j \in Documents, WellFormed("set_channel_uri", j), set_channel_uri(j),
           registry \in [Devices -> DeviceRecords]
    PROVE  /\ Handled(j)
           /\ registry' \in [Devices -> DeviceRecords]
           /\ \A d \in Devices : /\ registry[d].known => registry'[d].known
                                 /\ registry'[d].accounts = registry[d].accounts
           /\ UNCHANGED <<iqs, post>>
<1> DEFINE d == j["device_id"]
<1>1. d \in Devices
  BY DocumentsTyped, Zenon DEF WellFormed
<1>2. ~WellFormed("set_push_accounts", j)
  BY OneRequest, Zenon
<1>3. CASE is_valid_channel_uri(j.channel_uri)
  <2>1. registry' = [registry EXCEPT ![d].known = TRUE] /\ Respond(SuccessResponse_to_json)
    BY <1>3, Zenon DEF set_channel_uri
  <2>2. UNCHANGED <<iqs, post>>
    BY <1>3, Zenon DEF set_channel_uri
  <2> HIDE DEF d
  <2>3. /\ registry' \in [Devices -> DeviceRecords]
        /\ registry'[d].known
        /\ \A e \in Devices : /\ registry[e].known => registry'[e].known
                              /\ registry'[e].accounts = registry[e].accounts
    BY <1>1, <2>1 DEF DeviceRecords
  <2>4. Handled(j)
    BY <1>1, <1>3, <2>1, <2>3, SuccessHandles, Zenon DEF d, is_valid_channel_uri, Actions
  <2> QED
    BY <2>2, <2>3, <2>4
<1>4. CASE ~is_valid_channel_uri(j.channel_uri)
  <2>1. /\ RespondWithError("Invalid channel URI.")
        /\ UNCHANGED <<registry, iqs, post>>
    BY <1>4, Zenon DEF set_channel_uri
  <2>2. Handled(j)
    BY <1>2, <1>4, <2>1, ErrorHandles, Zenon DEF is_valid_channel_uri, Errors
  <2> QED
    BY <2>1, <2>2
<1> QED
  BY <1>3, <1>4

LEMMA ListedTyped ==
    ASSUME NEW ids \in Seq(Accounts)
    PROVE  LET listed == [k \in DOMAIN ids |-> [account_id |-> ids[k], node |-> "node",
                                                secret |-> "secret", success |-> TRUE]]
           IN /\ listed \in Seq(ListedAccounts) /\ Len(listed) = Len(ids)
              /\ \A k \in DOMAIN ids : listed[k]["account_id"] = ids[k]
<1> DEFINE Of(id) == [account_id |-> id, node |-> "node", secret |-> "secret", success |-> TRUE]
           listed == [k \in DOMAIN ids |-> Of(ids[k])]
<1>1. \A id \in Accounts : Of(id) \in ListedAccounts /\ Of(id)["account_id"] = id
  BY DEF ListedAccounts
<1> HIDE DEF Of
<1>2. /\ listed \in Seq(ListedAccounts) /\ Len(listed) = Len(ids)
      /\ \A k \in DOMAIN ids : listed[k]["account_id"] = ids[k]
  BY <1>1
<1> QED
  BY <1>2, Zenon DEF Of

LEMMA SetPushAccounts ==
    ASSUME NEW j \in Documents, WellFormed("set_push_accounts", j), set_push_accounts(j),
           registry \in [Devices -> DeviceRecords]
    PROVE  /\ Handled(j)
           /\ registry' \in [Devices -> DeviceRecords]
           /\ \A d \in Devices : registry[d].known => registry'[d].known
           /\ UNCHANGED post
<1> DEFINE d == j["device_id"]
           ids == [k \in DOMAIN j["accounts"] |-> j["accounts"][k]["account_id"]]
           listed == [k \in DOMAIN ids |-> [account_id |-> ids[k], node |-> "node",
                                            secret |-> "secret", success |-> TRUE]]
           a == SuccessSetPushAccounts_to_json(listed, "jid")
<1>1. d \in Devices /\ IsList(j["accounts"])
  BY PushAccountsTyped, Zenon
<1>2. ids \in Seq(Accounts) /\ Len(ids) = Len(j["accounts"]) /\ DOMAIN ids = DOMAIN j["accounts"]
  <2> DEFINE l == j["accounts"]
  <2>1. IsList(l) /\ \A k \in DOMAIN l : l[k]["account_id"] \in Accounts
    BY PushAccountsTyped, Zenon
  <2> HIDE DEF l
  <2>2. LET is == [k \in DOMAIN l |-> l[k]["account_id"]]
        IN is \in Seq(Accounts) /\ Len(is) = Len(l) /\ DOMAIN is = DOMAIN l
    BY <2>1 DEF IsList
  <2> QED
    BY <2>2, Zenon DEF l
<1>3. CASE registry[d].known
  <2>1. /\ registry' = [registry EXCEPT ![d] = Stored(j, ids)] /\ Respond(a)
        /\ UNCHANGED post
    BY <1>3, Zenon DEF set_push_accounts
  <2>2. registry' \in [Devices -> DeviceRecords] /\ \A e \in Devices : registry[e].known => registry'[e].known
    <3>1. j["version"] \in 1..2
      BY Zenon DEF WellFormed, Request
    <3> HIDE DEF d, ids
    <3>2. Stored(j, ids) \in DeviceRecords /\ Stored(j, ids).known
      BY <1>2, <3>1 DEF Stored, DeviceRecords
    <3> HIDE DEF Stored
    <3> QED
      BY <1>1, <2>1, <3>2
  <2>3. /\ listed \in Seq(ListedAccounts) /\ Len(listed) = Len(j["accounts"])
        /\ \A k \in DOMAIN j["accounts"] : listed[k]["account_id"] = ids[k]
    <3> HIDE DEF ids
    <3>1. /\ listed \in Seq(ListedAccounts) /\ Len(listed) = Len(ids)
          /\ \A k \in DOMAIN ids : listed[k]["account_id"] = ids[k]
      BY <1>2, ListedTyped, Zenon
    <3> QED
      BY <1>2, <3>1, Zenon
  <2>4. a \in Answers /\ answer' = <<a>>
    BY <2>1, <2>3, Zenon DEF Answers, Respond
  <2>5. a.status = 1 /\ a.accounts = listed
    BY AnswerFields, Zenon
  <2>6. Succeeded(a)
    BY <2>5, Zenon DEF Succeeded
  <2>7. Accepted(j, <<a>>) \subseteq {e \in Devices : registry'[e].known}
    <3>1. registry'[d].known
      <4> HIDE DEF d, ids
      <4> QED
        BY <1>1, <2>1 DEF Stored
    <3> QED
      BY <1>1, <3>1, Zenon DEF Accepted
  <2>8. Fits(j, a)
    <3>1. ~WellFormed("set_channel_uri", j)
      BY OneRequest, Zenon
    <3>2. \E action \in Actions : WellFormed(action, j)
      BY Zenon DEF Actions
    <3>3. /\ Len(a.accounts) = Len(j.accounts)
          /\ \A k \in DOMAIN j.accounts : a.accounts[k].account_id = j.accounts[k].account_id
      <4> HIDE DEF a, listed
      <4>1. \A k \in DOMAIN j["accounts"] : ids[k] = j["accounts"][k]["account_id"]
        BY Zenon
      <4> QED
        BY <2>3, <2>5, <4>1, Zenon
    <3> QED
      BY <3>1, <3>2, <3>3, Zenon DEF Fits
  <2>9. Handled(j)
    BY <2>4, <2>6, <2>7, <2>8, Zenon DEF Handled
  <2> QED
    BY <2>1, <2>2, <2>9, Zenon
<1>4. CASE ~registry[d].known
  <2>1. /\ RespondWithError("Device id unknown.")
        /\ UNCHANGED <<registry, iqs, post>>
    BY <1>4, Zenon DEF set_push_accounts
  <2>2. ~WellFormed("set_channel_uri", j)
    BY OneRequest, Zenon
  <2>3. Handled(j)
    BY <1>4, <2>1, <2>2, ErrorHandles, Zenon DEF Errors
  <2> QED
    BY <2>1, <2>3, Zenon
<1> QED
  BY <1>3, <1>4, Zenon

\* What is posted to WNS.
TestPayloads == {TestPush_to_json, [text |-> "test"]}
PushPayloads ==
    {Push_to_json(account, messages, subscriptions) :
        account \in Accounts, messages \in Nat, subscriptions \in Nat}
V1Payloads == {[kind |-> "v1", text |-> text] : text \in {"small", "generic"}}
Payloads == TestPayloads \union PushPayloads \union V1Payloads

PostInv == post = None \/ \E d \in Devices, p \in Payloads : post = [device |-> d, payload |-> p]

LEMMA SendTestPush ==
    ASSUME NEW j \in Documents, WellFormed("request_test_push", j), send_test_push(j), PostInv
    PROVE  /\ Handled(j) /\ PostInv'
           /\ UNCHANGED <<registry, iqs>>
<1> DEFINE d == j["device_id"]
<1>1. d \in Devices
  BY DocumentsTyped, Zenon DEF WellFormed
<1>2. ~WellFormed("set_push_accounts", j) /\ ~WellFormed("set_channel_uri", j)
  BY OneRequest, Zenon
<1>3. CASE registry[d].known
  <2>1. /\ Respond(SuccessResponse_to_json) \/ RespondWithError("Failed to send test push.")
        /\ UNCHANGED <<registry, iqs>>
        /\ post' = [device |-> d, payload |-> IF registry[d].version = 2
                                                THEN TestPush_to_json ELSE [text |-> "test"]]
    BY <1>3, Zenon DEF send_test_push
  <2>2. PostInv'
    <3>1. (IF registry[d].version = 2 THEN TestPush_to_json ELSE [text |-> "test"]) \in Payloads
      <4>1. TestPush_to_json \in TestPayloads /\ [text |-> "test"] \in TestPayloads
        BY Zenon DEF TestPayloads
      <4> QED
        BY <4>1, Zenon DEF Payloads
    <3> QED
      BY <1>1, <2>1, <3>1, Zenon DEF PostInv
  <2>3. CASE Respond(SuccessResponse_to_json)
    <3>1. registry'[d].known
      BY <1>3, <2>1, Zenon
    <3>2. Handled(j)
      BY <1>1, <2>3, <3>1, SuccessHandles, Zenon DEF Actions
    <3> QED
      BY <2>1, <2>2, <3>2, Zenon
  <2>4. CASE RespondWithError("Failed to send test push.")
    <3>1. Handled(j)
      BY <1>2, <2>4, ErrorHandles, Zenon DEF Errors
    <3> QED
      BY <2>1, <2>2, <3>1, Zenon
  <2> QED
    BY <2>1, <2>3, <2>4
<1>4. CASE ~registry[d].known
  <2>1. /\ RespondWithError("Device id unknown.")
        /\ UNCHANGED <<registry, iqs, post>>
    BY <1>4, Zenon DEF send_test_push
  <2>2. Handled(j)
    BY <1>2, <2>1, ErrorHandles, Zenon DEF Errors
  <2>3. PostInv'
    BY <2>1, Zenon DEF PostInv
  <2> QED
    BY <2>1, <2>2, <2>3, Zenon
<1> QED
  BY <1>3, <1>4, Zenon

-----------------------------------------------------------------------------
(* The nodes of the XMPP server.                                           *)

\* The requests for a node follow each other in this order.
Follows(type) ==
    CASE type = "publish" -> "subscribe"
      [] type = "subscribe" -> "unsubscribe"
      [] type = "unsubscribe" -> "delete"
      [] type = "delete" -> "publish"

\* What a node is when a request of this type comes.
NodeBefore(type) ==
    [exists |-> type # "publish", options |-> xmpp_pep_publish_options_new,
     subscribed |-> type = "unsubscribe"]

IqsFor(n) == {xmpp_pep_publish_empty_new(n), xmpp_pep_subscribe_new(n),
              xmpp_pep_unsubscribe_new(n), xmpp_pep_delete_new(n)}

\* The type of the k-th request on the way for a node, or of the one that would be next.
NextType(n, k) ==
    IF k <= Len(iqs[n]) THEN iqs[n][k].type
    ELSE IF Registered(n) THEN "unsubscribe" ELSE "publish"

NodeInv(n) ==
    /\ iqs[n] \in Seq(IqsFor(n))
    /\ pubsub[n] = NodeBefore(NextType(n, 1))
    /\ \A k \in 1..Len(iqs[n]) : NextType(n, k + 1) = Follows(NextType(n, k))

NodesInv ==
    /\ DOMAIN iqs = Nodes /\ DOMAIN pubsub = Nodes
    /\ \A n \in Nodes : NodeInv(n)

\* Neither the requests for a node nor whether it is registered change.
LEMMA NodeUnchanged ==
    ASSUME NEW n \in Nodes, NodeInv(n), iqs'[n] = iqs[n], pubsub'[n] = pubsub[n],
           Registered(n)' <=> Registered(n)
    PROVE  NodeInv(n)'
BY DEF NodeInv, NextType

\* The XMPP server does what is asked.
LEMMA IqHandled ==
    ASSUME NEW n, NEW iq \in IqsFor(n)
    PROVE  Answer(iq, NodeBefore(iq.type)) = NodeBefore(Follows(iq.type))
<1>1. CASE iq = xmpp_pep_publish_empty_new(n)
  BY <1>1 DEF xmpp_pep_publish_empty_new, Answer, NodeBefore, Follows
<1>2. CASE iq = xmpp_pep_subscribe_new(n)
  BY <1>2 DEF xmpp_pep_subscribe_new, Answer, NodeBefore, Follows, xmpp_pep_publish_options_new
<1>3. CASE iq = xmpp_pep_unsubscribe_new(n)
  BY <1>3 DEF xmpp_pep_unsubscribe_new, Answer, NodeBefore, Follows
<1>4. CASE iq = xmpp_pep_delete_new(n)
  BY <1>4 DEF xmpp_pep_delete_new, Answer, NodeBefore, Follows, NoPubSubNode
<1> QED
  BY <1>1, <1>2, <1>3, <1>4 DEF IqsFor

LEMMA NodeAnswered ==
    ASSUME NodesInv, NEW n \in Nodes, HandleIq(n)
    PROVE  NodesInv'
<1>1. /\ iqs[n] \in Seq(IqsFor(n)) /\ iqs[n] # <<>>
      /\ iqs' = [iqs EXCEPT ![n] = Tail(@)]
      /\ pubsub' = [pubsub EXCEPT ![n] = Answer(Head(iqs[n]), @)]
      /\ registry' = registry
      /\ DOMAIN iqs = Nodes /\ DOMAIN pubsub = Nodes
      /\ pubsub[n] = NodeBefore(NextType(n, 1))
      /\ \A k \in 1..Len(iqs[n]) : NextType(n, k + 1) = Follows(NextType(n, k))
  BY DEF HandleIq, NodesInv, NodeInv
<1>2. iqs'[n] = Tail(iqs[n]) /\ pubsub'[n] = Answer(Head(iqs[n]), pubsub[n])
  BY <1>1
<1>3. /\ Len(iqs'[n]) = Len(iqs[n]) - 1 /\ Len(iqs[n]) \in Nat \ {0}
      /\ iqs'[n] \in Seq(IqsFor(n)) /\ Head(iqs[n]) = iqs[n][1] /\ iqs[n][1] \in IqsFor(n)
      /\ \A k \in 1..(Len(iqs[n]) - 1) : iqs'[n][k] = iqs[n][k + 1]
  <2> DEFINE q == iqs[n]
             S == IqsFor(n)
  <2>1. q \in Seq(S) /\ q # <<>>
    BY <1>1
  <2> HIDE DEF q, S
  <2>2. /\ Len(Tail(q)) = Len(q) - 1 /\ Len(q) \in Nat \ {0} /\ Tail(q) \in Seq(S)
        /\ Head(q) = q[1] /\ q[1] \in S
        /\ \A k \in 1..(Len(q) - 1) : Tail(q)[k] = q[k + 1]
    BY <2>1
  <2> QED
    BY <1>2, <2>2 DEF q, S
<1>4. Registered(n)' <=> Registered(n)
  BY <1>1 DEF Registered
<1>5. \A k \in 1..Len(iqs[n]) : NextType(n, k)' = NextType(n, k + 1)
  BY <1>3, <1>4 DEF NextType
<1>6. NextType(n, 1) = iqs[n][1].type
  BY <1>3 DEF NextType
<1>7. NodeInv(n)'
  <2>1. pubsub'[n] = NodeBefore(Follows(NextType(n, 1)))
    BY <1>1, <1>2, <1>3, <1>6, IqHandled
  <2>2. pubsub'[n] = NodeBefore(NextType(n, 1)')
    <3>1. 1 \in 1..Len(iqs[n])
      BY <1>3
    <3>2. NextType(n, 1)' = NextType(n, 1 + 1) /\ NextType(n, 1 + 1) = Follows(NextType(n, 1))
      BY <1>1, <1>5, <3>1
    <3> QED
      BY <2>1, <3>2
  <2>3. ASSUME NEW k \in 1..Len(iqs'[n])
        PROVE  NextType(n, k + 1)' = Follows(NextType(n, k)')
    <3>1. k \in 1..Len(iqs[n]) /\ k + 1 \in 1..Len(iqs[n])
      BY <1>3
    <3> QED
      BY <1>1, <1>5, <3>1
  <2> QED
    BY <1>3, <2>2, <2>3 DEF NodeInv
<1>8. ASSUME NEW m \in Nodes, m # n
      PROVE  NodeInv(m)'
  <2>1. iqs'[m] = iqs[m] /\ pubsub'[m] = pubsub[m]
    BY <1>1, <1>8
  <2>2. Registered(m)' <=> Registered(m)
    BY <1>1 DEF Registered
  <2> QED
    BY <2>1, <2>2, NodeUnchanged DEF NodesInv
<1> QED
  BY <1>1, <1>7, <1>8 DEF NodesInv

LEMMA TwoMore ==
    ASSUME NEW T, NEW p \in Seq(T), NEW r \in Seq(T), Len(r) = 2
    PROVE  /\ p \o r \in Seq(T) /\ Len(p \o r) = Len(p) + 2
           /\ \A k \in 1..Len(p) : (p \o r)[k] = p[k]
           /\ (p \o r)[Len(p) + 1] = r[1] /\ (p \o r)[Len(p) + 2] = r[2]
<1>1. /\ p \o r \in Seq(T) /\ Len(p \o r) = Len(p) + Len(r)
      /\ \A i \in 1..(Len(p) + Len(r)) :
            (p \o r)[i] = IF i <= Len(p) THEN p[i] ELSE r[i - Len(p)]
  BY ConcatProperties
<1>2. Len(p) \in Nat
  OBVIOUS
<1> QED
  BY <1>1, <1>2

\* Two requests more, as the account is listed now or no longer.
LEMMA RequestsAppended ==
    ASSUME NEW n \in Nodes, NodeInv(n), pubsub'[n] = pubsub[n],
           NEW more,
           \/ more = delete_push_node(n) /\ Registered(n) /\ ~Registered(n)'
           \/ more = setup_push_node(n) /\ ~Registered(n) /\ Registered(n)',
           iqs'[n] = iqs[n] \o more
    PROVE  NodeInv(n)'
<1> DEFINE q == iqs[n]
           S == IqsFor(n)
<1> PICK l \in Nat : l = Len(q)
  BY DEF NodeInv
<1>1. q \in Seq(S) /\ l \in Nat /\ l = Len(iqs[n])
  BY DEF NodeInv
<1>2. /\ more \in Seq(S) /\ Len(more) = 2
      /\ more[1].type = IF Registered(n) THEN "unsubscribe" ELSE "publish"
      /\ more[2].type = Follows(more[1].type)
      /\ Follows(more[2].type) = IF Registered(n)' THEN "unsubscribe" ELSE "publish"
  <2>1. CASE more = delete_push_node(n) /\ Registered(n) /\ ~Registered(n)'
    BY <2>1 DEF delete_push_node, xmpp_pep_unsubscribe_new, xmpp_pep_delete_new, Follows, IqsFor
  <2>2. CASE more = setup_push_node(n) /\ ~Registered(n) /\ Registered(n)'
    BY <2>2 DEF setup_push_node, xmpp_pep_publish_empty_new, xmpp_pep_subscribe_new, Follows, IqsFor
  <2> QED
    BY <2>1, <2>2
<1>3. /\ iqs'[n] \in Seq(S) /\ Len(iqs'[n]) = l + 2
      /\ \A k \in 1..l : iqs'[n][k] = q[k]
      /\ iqs'[n][l + 1] = more[1] /\ iqs'[n][l + 2] = more[2]
  <2>1. iqs'[n] = q \o more /\ more \in Seq(S) /\ Len(more) = 2
    BY <1>2
  <2> QED
    BY <1>1, <2>1, TwoMore
<1>4. \A k \in 1..(l + 1) : NextType(n, k)' = NextType(n, k)
  <2>1. ASSUME NEW k \in 1..l PROVE NextType(n, k)' = NextType(n, k)
    BY <1>1, <1>3, <2>1 DEF NextType
  <2>2. NextType(n, l + 1)' = NextType(n, l + 1)
    BY <1>1, <1>2, <1>3 DEF NextType
  <2> QED
    BY <1>1, <2>1, <2>2
<1>5. NextType(n, l + 1)' = more[1].type /\ NextType(n, l + 2)' = more[2].type
  BY <1>1, <1>3 DEF NextType
<1>6. NextType(n, l + 3)' = IF Registered(n)' THEN "unsubscribe" ELSE "publish"
  BY <1>1, <1>3 DEF NextType
<1>7. pubsub'[n] = NodeBefore(NextType(n, 1)')
  BY <1>1, <1>4 DEF NodeInv
<1>8. ASSUME NEW k \in 1..(l + 2)
      PROVE  NextType(n, k + 1)' = Follows(NextType(n, k)')
  <2>1. CASE k \in 1..l
    BY <1>1, <1>4, <2>1 DEF NodeInv
  <2>2. CASE k = l + 1
    <3>1. k + 1 = l + 2
      BY <1>1, <2>2
    <3> QED
      BY <1>2, <1>5, <2>2, <3>1
  <2>3. CASE k = l + 2
    <3>1. k + 1 = l + 3
      BY <1>1, <2>3
    <3> QED
      BY <1>2, <1>5, <1>6, <2>3, <3>1
  <2> QED
    BY <1>1, <2>1, <2>2, <2>3
<1> QED
  BY <1>3, <1>7, <1>8 DEF NodeInv

LEMMA NodesRequested ==
    ASSUME NodesInv, UNCHANGED pubsub, registry \in [Devices -> DeviceRecords],
           NEW j \in Documents, WellFormed("set_push_accounts", j), set_push_accounts(j)
    PROVE  NodesInv'
<1> DEFINE d == j["device_id"]
           ids == [k \in DOMAIN j["accounts"] |-> j["accounts"][k]["account_id"]]
<1>1. d \in Devices
  BY PushAccountsTyped, Zenon
<1>2. CASE registry[d].known
  <2>1. /\ registry' = [registry EXCEPT ![d] = Stored(j, ids)]
        /\ iqs' = [n \in Nodes |-> IF n[1] = d THEN iqs[n] \o NodeRequests(n, ids) ELSE iqs[n]]
    BY <1>2, Zenon DEF set_push_accounts
  <2>2. registry'[d].accounts = ids /\ \A e \in Devices \ {d} : registry'[e] = registry[e]
    <3> HIDE DEF d, ids
    <3> QED
      BY <1>1, <2>1 DEF Stored
  <2> HIDE DEF d, ids
  <2>3. ASSUME NEW n \in Nodes
        PROVE  NodeInv(n)'
    <3>1. NodeInv(n) /\ iqs[n] \in Seq(IqsFor(n)) /\ n[1] \in Devices
      BY DEF NodesInv, NodeInv, Nodes
    <3>2. CASE n[1] # d
      <4>1. Registered(n)' <=> Registered(n)
        BY <2>2, <3>1, <3>2 DEF Registered
      <4>2. iqs'[n] = iqs[n]
        BY <2>1, <3>2
      <4> QED
        BY <3>1, <4>1, <4>2, NodeUnchanged
    <3>3. CASE n[1] = d
      <4>1. Registered(n)' <=> n[2] \in ToSet(ids)
        BY <1>1, <2>2, <3>3 DEF Registered
      <4>2. iqs'[n] = iqs[n] \o NodeRequests(n, ids)
        BY <2>1, <3>3
      <4>3. CASE Registered(n) <=> Registered(n)'
        <5>1. NodeRequests(n, ids) = <<>>
          BY <4>1, <4>3 DEF NodeRequests
        <5>2. iqs'[n] = iqs[n]
          BY <3>1, <4>2, <5>1
        <5> QED
          BY <3>1, <4>3, <5>2, NodeUnchanged
      <4>4. CASE Registered(n) /\ ~Registered(n)'
        <5>1. NodeRequests(n, ids) = delete_push_node(n)
          BY <4>1, <4>4 DEF NodeRequests
        <5> QED
          BY <3>1, <4>2, <4>4, <5>1, RequestsAppended
      <4>5. CASE ~Registered(n) /\ Registered(n)'
        <5>1. NodeRequests(n, ids) = setup_push_node(n)
          BY <4>1, <4>5 DEF NodeRequests
        <5> QED
          BY <3>1, <4>2, <4>5, <5>1, RequestsAppended
      <4> QED
        BY <4>3, <4>4, <4>5
    <3> QED
      BY <3>2, <3>3
  <2>4. DOMAIN iqs' = Nodes
    BY <2>1
  <2> QED
    BY <2>3, <2>4 DEF NodesInv
<1>3. CASE ~registry[d].known
  <2>1. UNCHANGED <<registry, iqs>>
    BY <1>3, Zenon DEF set_push_accounts
  <2>2. \A n \in Nodes : Registered(n)' <=> Registered(n)
    BY <2>1 DEF Registered
  <2> QED
    BY <2>1, <2>2, NodeUnchanged DEF NodesInv
<1> QED
  BY <1>2, <1>3

-----------------------------------------------------------------------------
(* The inductive invariant.                                                *)

Arriving == Strays \union {PublishedTo(n, content) : n \in Nodes, content \in Contents}

TypeInv ==
    /\ up \in BOOLEAN /\ odd \in BOOLEAN /\ spent \in 0..Budget /\ rough \subseteq Clients
    /\ registry \in [Devices -> DeviceRecords]
    /\ DOMAIN wire = Clients /\ DOMAIN asked = Clients
    /\ \A c \in Clients : wire[c] \in Seq(Vocabulary[c] \union {Rest})
    /\ inbox \in Seq(Arriving)
    /\ PostInv

\* A client that waits for each answer has sent one message, which was not read yet, or
\* it has all its answers.
Waits(c) ==
    \/ wire[c] = <<>> /\ asked[c] = <<>>
    \/ \E m \in Vocabulary[c] : wire[c] = <<m, Rest>> /\ asked[c] = <<m>>

SessionInv ==
    /\ up => \A c \in Clients \ rough : Waits(c)
    /\ told \subseteq {d \in Devices : registry[d].known}
    /\ answer = <<>> \/ \E a \in Answers : answer = <<a>>
    /\ AnswersMatchRequests

\* Nothing on its way could end the process without odd knowing of it.
StanzaInv ==
    /\ \A k \in 1..Len(inbox) : OddStanza(inbox[k]) => odd
    /\ DeathExplained

GatewayInv == TypeInv /\ SessionInv /\ StanzaInv /\ NodesInv

-----------------------------------------------------------------------------
(* The steps.                                                              *)

LEMMA InitGatewayInv == Init => GatewayInv
<1> SUFFICES ASSUME Init PROVE GatewayInv
  OBVIOUS
<1>1. TypeInv
  <2>1. Unknown \in DeviceRecords
    BY DEF Unknown, DeviceRecords
  <2>2. registry \in [Devices -> DeviceRecords]
    BY <2>1 DEF Init
  <2>3. \A c \in Clients : wire[c] \in Seq(Vocabulary[c] \union {Rest})
    BY DEF Init
  <2>4. PostInv
    BY DEF Init, PostInv
  <2>5. spent \in 0..Budget /\ inbox \in Seq(Arriving)
    BY BoundsAssumption DEF Init
  <2>6. DOMAIN wire = Clients /\ DOMAIN asked = Clients
    BY DEF Init
  <2>7. up \in BOOLEAN /\ odd \in BOOLEAN /\ rough \subseteq Clients
    BY DEF Init
  <2> QED
    BY <2>2, <2>3, <2>4, <2>5, <2>6, <2>7, Zenon DEF TypeInv
<1>2. SessionInv
  BY DEF Init, SessionInv, Waits, AnswersMatchRequests
<1>3. StanzaInv
  BY DEF Init, StanzaInv, DeathExplained
<1>4. ASSUME NEW n \in Nodes PROVE NodeInv(n)
  <2>1. iqs[n] = <<>> /\ pubsub[n] = NoPubSubNode /\ n[1] \in Devices
    BY DEF Init, Nodes
  <2>2. ~Registered(n)
    BY <2>1 DEF Init, Registered, Unknown, ToSet
  <2> QED
    <3>1. NextType(n, 1) = "publish"
      BY <2>1, <2>2 DEF NextType
    <3>2. NodeBefore("publish") = NoPubSubNode
      BY DEF NodeBefore, NoPubSubNode
    <3>3. iqs[n] \in Seq(IqsFor(n)) /\ Len(iqs[n]) = 0
      BY <2>1
    <3> QED
      BY <2>1, <3>1, <3>2, <3>3 DEF NodeInv
<1> QED
  BY <1>1, <1>2, <1>3, <1>4 DEF GatewayInv, NodesInv, Init

\* What a read hands to the parser was sent by the client, or is no document.
LEMMA ReadDocument ==
    ASSUME TypeInv, NEW c \in Clients, NEW k \in 1..Len(wire[c]),
           NEW j \in Readings(SubSeq(wire[c], 1, k))
    PROVE  j \in Documents
<1> DEFINE chunk == SubSeq(wire[c], 1, k)
<1>1. chunk[1] \in Vocabulary[c] \union {Rest}
  <2> DEFINE T == Vocabulary[c] \union {Rest}
             w == wire[c]
  <2>1. w \in Seq(T) /\ k \in 1..Len(w)
    BY DEF TypeInv
  <2> HIDE DEF T, w
  <2>2. SubSeq(w, 1, k)[1] = w[1] /\ w[1] \in T
    BY <2>1
  <2> QED
    BY <2>2 DEF T, w
<1> HIDE DEF chunk
<1>2. j = NotJson \/ (j = chunk[1] /\ chunk[1] # Rest)
  BY Zenon DEF Readings, chunk
<1> QED
  BY <1>1, <1>2, Zenon DEF Documents

LEMMA NodesUnchanged ==
    ASSUME NodesInv, UNCHANGED <<iqs, pubsub>>,
           \A d \in Devices : registry'[d].accounts = registry[d].accounts
    PROVE  NodesInv'
<1>1. \A n \in Nodes : Registered(n)' <=> Registered(n)
  BY DEF Registered
<1> QED
  BY <1>1, NodeUnchanged DEF NodesInv

\* on_message_received.
LEMMA MessageHandled ==
    ASSUME TypeInv, NodesInv, NEW j \in Documents, on_message_received(j), UNCHANGED pubsub
    PROVE  /\ \/ parse(j) = "abort" /\ up' = FALSE /\ answer' = <<>>
              \/ up' = up /\ Handled(j)
           /\ registry' \in [Devices -> DeviceRecords]
           /\ \A d \in Devices : registry[d].known => registry'[d].known
           /\ PostInv' /\ NodesInv'
<1>1. registry \in [Devices -> DeviceRecords] /\ PostInv /\ IsDocument(j)
  BY DocumentsTyped DEF TypeInv
<1>2. CASE parse(j) = "abort"
  <2>1. up' = FALSE /\ answer' = <<>> /\ UNCHANGED <<registry, iqs, post>>
    BY <1>2, Zenon DEF on_message_received
  <2> QED
    BY <1>1, <1>2, <2>1, NodesUnchanged DEF PostInv
<1>3. CASE parse(j) = "SET_CHANNEL_URI"
  <2>1. WellFormed("set_channel_uri", j)
    BY <1>1, <1>3, RequestsRecognised, Zenon
  <2>2. set_channel_uri(j) /\ up' = up
    BY <1>3 DEF on_message_received
  <2>3. /\ Handled(j)
        /\ registry' \in [Devices -> DeviceRecords]
        /\ \A d \in Devices : /\ registry[d].known => registry'[d].known
                              /\ registry'[d].accounts = registry[d].accounts
        /\ UNCHANGED <<iqs, post>>
    BY <1>1, <2>1, <2>2, SetChannelUri, Zenon
  <2> QED
    BY <1>1, <2>2, <2>3, NodesUnchanged DEF PostInv
<1>4. CASE parse(j) = "SET_PUSH_ACCOUNT"
  <2>1. WellFormed("set_push_accounts", j)
    BY <1>1, <1>4, RequestsRecognised, Zenon
  <2>2. set_push_accounts(j) /\ up' = up
    BY <1>4 DEF on_message_received
  <2>3. /\ Handled(j)
        /\ registry' \in [Devices -> DeviceRecords]
        /\ \A d \in Devices : registry[d].known => registry'[d].known
        /\ UNCHANGED post
    BY <1>1, <2>1, <2>2, SetPushAccounts, Zenon
  <2>4. NodesInv'
    BY <1>1, <2>1, <2>2, NodesRequested, Zenon
  <2> QED
    BY <1>1, <2>2, <2>3, <2>4 DEF PostInv
<1>5. CASE parse(j) = "REQUEST_TEST_PUSH"
  <2>1. WellFormed("request_test_push", j)
    BY <1>1, <1>5, RequestsRecognised, Zenon
  <2>2. send_test_push(j) /\ up' = up
    BY <1>5 DEF on_message_received
  <2>3. Handled(j) /\ PostInv' /\ UNCHANGED <<registry, iqs>>
    BY <1>1, <2>1, <2>2, SendTestPush, Zenon
  <2> QED
    BY <1>1, <2>2, <2>3, NodesUnchanged
<1>6. CASE parse(j) \notin {"abort", "SET_CHANNEL_URI", "SET_PUSH_ACCOUNT", "REQUEST_TEST_PUSH"}
  <2>1. /\ RespondWithError(IF parse(j) = "null" THEN "Malformed JSON."
                                               ELSE "Unsupported message type.")
        /\ up' = up /\ UNCHANGED <<registry, iqs, post>>
    BY <1>6 DEF on_message_received
  <2>2. ~WellFormed("set_channel_uri", j) /\ ~WellFormed("set_push_accounts", j)
    BY <1>1, <1>6, RequestsRecognised, Zenon
  <2>3. Handled(j)
    <3>1. PICK error \in Errors : RespondWithError(error)
      BY <2>1, Zenon DEF Errors
    <3> QED
      BY <2>2, <3>1, ErrorHandles, Zenon
  <2> QED
    BY <1>1, <2>1, <2>3, NodesUnchanged DEF PostInv
<1> QED
  BY <1>2, <1>3, <1>4, <1>5, <1>6

LEMMA WriteStep ==
    ASSUME GatewayInv, NEW c \in Clients, NEW m \in Vocabulary[c], Write(c, m)
    PROVE  GatewayInv'
<1>1. TypeInv'
  <2>1. wire[c] \in Seq(Vocabulary[c] \union {Rest}) /\ DOMAIN wire = Clients
    BY DEF GatewayInv, TypeInv
  <2>2. wire' = [wire EXCEPT ![c] = @ \o <<m, Rest>>]
    BY DEF Write
  <2>3. wire[c] \o <<m, Rest>> \in Seq(Vocabulary[c] \union {Rest})
    <3> DEFINE T == Vocabulary[c] \union {Rest}
    <3>1. <<m, Rest>> \in Seq(T) /\ wire[c] \in Seq(T)
      BY <2>1
    <3> HIDE DEF T
    <3>2. wire[c] \o <<m, Rest>> \in Seq(T)
      BY <3>1, ConcatProperties
    <3> QED
      BY <3>2 DEF T
  <2>4. \A e \in Clients : wire'[e] \in Seq(Vocabulary[e] \union {Rest})
    BY <2>1, <2>2, <2>3 DEF GatewayInv, TypeInv
  <2>5. DOMAIN wire' = Clients /\ DOMAIN asked' = Clients
    BY DEF Write, GatewayInv, TypeInv
  <2>6. spent' \in 0..Budget
    BY BoundsAssumption DEF Write, GatewayInv, TypeInv
  <2>7. rough' \subseteq Clients
    BY DEF Write, GatewayInv, TypeInv
  <2>8. UNCHANGED <<up, odd, registry, inbox, post>>
    BY DEF Write
  <2> QED
    BY <2>4, <2>5, <2>6, <2>7, <2>8 DEF GatewayInv, TypeInv, PostInv
<1>2. SessionInv'
  <2>1. /\ up' = up /\ rough \subseteq rough' /\ (asked[c] = <<>> \/ c \in rough')
        /\ DOMAIN wire = Clients /\ DOMAIN asked = Clients
        /\ wire' = [wire EXCEPT ![c] = @ \o <<m, Rest>>]
        /\ asked' = [asked EXCEPT ![c] = Append(@, m)]
        /\ up => \A e \in Clients \ rough : Waits(e)
    BY DEF Write, GatewayInv, TypeInv, SessionInv
  <2>2. ASSUME up, NEW e \in Clients \ rough' PROVE Waits(e)'
    <3>1. CASE e # c
      BY <2>1, <2>2, <3>1 DEF Waits
    <3>2. CASE e = c
      <4>1. asked[c] = <<>> /\ Waits(c)
        BY <2>1, <2>2, <3>2
      <4>2. wire[c] = <<>>
        BY <4>1 DEF Waits
      <4>3. wire'[c] = <<m, Rest>> /\ asked'[c] = <<m>>
        BY <2>1, <4>1, <4>2
      <4> QED
        BY <3>2, <4>3 DEF Waits
    <3> QED
      BY <3>1, <3>2
  <2>3. UNCHANGED <<told, registry, answer, exchange>> /\ rough \subseteq rough'
    BY DEF Write
  <2>4. AnswersMatchRequests'
    BY <2>3 DEF AnswersMatchRequests, GatewayInv, SessionInv
  <2> QED
    BY <2>1, <2>2, <2>3, <2>4 DEF GatewayInv, SessionInv
<1>3. StanzaInv'
  BY DEF Write, GatewayInv, StanzaInv, DeathExplained
<1>4. NodesInv'
  BY NodesUnchanged DEF Write, GatewayInv
<1> QED
  BY <1>1, <1>2, <1>3, <1>4 DEF GatewayInv

\* Nothing a session or an answer depends on changes.
LEMMA SessionsUnchanged ==
    ASSUME SessionInv, up' => up,
           UNCHANGED <<wire, asked, rough, told, registry, answer, exchange>>
    PROVE  SessionInv'
BY DEF SessionInv, Waits, AnswersMatchRequests

\* A stanza is sent to the push server.
LEMMA StanzaSent ==
    ASSUME GatewayInv, NEW s \in Arriving, spent < Budget, spent' = spent + 1,
           inbox' = Append(inbox, s), odd' = (odd \/ OddStanza(s)),
           UNCHANGED <<up, wire, registry, iqs, pubsub, post, answer, asked, exchange, told,
                       rough>>
    PROVE  GatewayInv'
<1>1. inbox \in Seq(Arriving)
  BY DEF GatewayInv, TypeInv
<1>2. /\ inbox' \in Seq(Arriving) /\ Len(inbox') = Len(inbox) + 1
      /\ \A k \in 1..Len(inbox) : inbox'[k] = inbox[k]
      /\ inbox'[Len(inbox) + 1] = s
  BY <1>1, AppendProperties
<1>3. spent' \in 0..Budget
  BY BoundsAssumption DEF GatewayInv, TypeInv
<1>4. odd' \in BOOLEAN
  BY DEF GatewayInv, TypeInv
<1>5. TypeInv'
  BY <1>2, <1>3, <1>4 DEF GatewayInv, TypeInv, PostInv
<1>6. StanzaInv'
  <2>1. ASSUME NEW k \in 1..Len(inbox'), OddStanza(inbox'[k]) PROVE odd'
    <3>1. CASE k \in 1..Len(inbox)
      BY <1>2, <2>1, <3>1 DEF GatewayInv, StanzaInv
    <3>2. CASE k = Len(inbox) + 1
      BY <1>2, <2>1, <3>2
    <3> QED
      BY <1>1, <1>2, <3>1, <3>2
  <2>2. DeathExplained'
    BY DEF GatewayInv, StanzaInv, DeathExplained
  <2> QED
    BY <2>1, <2>2 DEF StanzaInv
<1>7. SessionInv'
  BY SessionsUnchanged DEF GatewayInv
<1>8. NodesInv'
  BY NodesUnchanged DEF GatewayInv
<1> QED
  BY <1>5, <1>6, <1>7, <1>8 DEF GatewayInv

LEMMA PublishStep ==
    ASSUME GatewayInv, NEW n \in Nodes, NEW content \in Contents, Publish(n, content)
    PROVE  GatewayInv'
<1>1. PublishedTo(n, content) \in Arriving
  BY DEF Arriving
<1> QED
  BY <1>1, StanzaSent DEF Publish

LEMMA StrayStep ==
    ASSUME GatewayInv, NEW s \in Strays, Stray(s)
    PROVE  GatewayInv'
<1>1. s \in Arriving
  BY DEF Arriving
<1> QED
  BY <1>1, StanzaSent DEF Stray

LEMMA HandleIqStep ==
    ASSUME GatewayInv, NEW n \in Nodes, HandleIq(n)
    PROVE  GatewayInv'
<1>1. NodesInv'
  BY NodeAnswered DEF GatewayInv
<1>2. SessionInv'
  BY SessionsUnchanged DEF GatewayInv, HandleIq, history
<1>3. TypeInv'
  BY DEF GatewayInv, TypeInv, PostInv, HandleIq, history
<1>4. StanzaInv'
  BY DEF GatewayInv, StanzaInv, DeathExplained, HandleIq, history
<1> QED
  BY <1>1, <1>2, <1>3, <1>4 DEF GatewayInv

-----------------------------------------------------------------------------
(* message_handler.                                                        *)

LEMMA ArrivingTyped == \A s \in Arriving : StanzaFields(s)
BY StanzasAssumption DEF Arriving, Nodes

\* What is read of a stanza before Redis is asked.
LEMMA Classified ==
    ASSUME NEW s, StanzaFields(s)
    PROVE  /\ classify(s) \in {"ignored", "dies", "event"}
           /\ classify(s) = "dies" => OddStanza(s)
           /\ classify(s) = "event" => /\ s.from = "jid" /\ s.event = "pubsub#event" /\ s.items
                                       /\ s.notification = "push:0"
<1>1. get_items_node(s) \in {"null", "dies", "found"}
  BY Zenon DEF get_items_node
<1>2. get_items_node(s) = "dies" => s.event = "none"
  BY StanzasAssumption DEF get_items_node, StanzaFields
<1>3. get_items_node(s) = "found" => s.event = "pubsub#event" /\ s.items
  BY StanzasAssumption DEF get_items_node, StanzaFields
<1>4. get_notification_node(s) = "dies" => s.notification = "none"
  BY StanzasAssumption DEF get_notification_node, StanzaFields
<1>5. get_notification_node(s) \notin {"dies", "null"} => s.notification = "push:0"
  BY StanzasAssumption DEF get_notification_node, StanzaFields
<1>6. CASE s.from = Missing
  BY <1>6, StanzasAssumption DEF classify, OddStanza
<1>7. CASE s.from = "other"
  BY <1>7, StanzasAssumption DEF classify
<1>8. CASE s.from = "jid"
  BY <1>1, <1>2, <1>3, <1>4, <1>5, <1>8, StanzasAssumption DEF classify, OddStanza
<1> QED
  BY <1>6, <1>7, <1>8 DEF StanzaFields

LEMMA Counted ==
    ASSUME NEW v \in Nat \union {Missing, NoNumber, Huge}
    PROVE  /\ v # Huge => count_of(v) \in Nat
           /\ v # Huge => count_of(v) = NumberOrZero(v)
BY StanzasAssumption DEF count_of, NumberOrZero

LEMMA V2Payload ==
    ASSUME NEW account \in Accounts, NEW messages \in Nat, NEW subscriptions \in Nat,
           NEW p, p = Push_to_json(account, messages, subscriptions)
    PROVE  /\ p \in Payloads
           /\ "action" \in DOMAIN p /\ "text" \notin DOMAIN p
           /\ p.action = "push" /\ p.account_id = account
           /\ p.message_count = messages /\ p.pending_subscription_count = subscriptions
<1>1. p \in PushPayloads
  BY DEF PushPayloads
<1>2. p \in Payloads
  BY <1>1, Zenon DEF Payloads
<1> QED
  BY <1>2 DEF Push_to_json

LEMMA V1Payload ==
    ASSUME NEW s, StanzaFields(s), NEW p, p = send_v1_push(s)
    PROVE  /\ p \in Payloads
           /\ "action" \notin DOMAIN p /\ p.text \in {"small", "generic"}
<1> DEFINE text == IF s.size = "large" THEN "generic" ELSE s.size
<1>1. text \in {"small", "generic"}
  BY DEF StanzaFields
<1>2. p = [kind |-> "v1", text |-> text]
  BY DEF send_v1_push
<1> HIDE DEF text
<1>3. p \in Payloads
  BY <1>1, <1>2, Zenon DEF V1Payloads, Payloads
<1> QED
  BY <1>1, <1>2, <1>3

\* The push is one for the event.
Justified(s) ==
    /\ post'.device = s.node[1] /\ s.node[2] \in ToSet(registry[post'.device].accounts)
    /\ (registry[post'.device].version = 2) <=> ("action" \in DOMAIN post'.payload)
    /\ "action" \in DOMAIN post'.payload =>
         /\ post'.payload.action = "push" /\ post'.payload.account_id = s.node[2]
         /\ s.form = "fields" =>
              /\ post'.payload.message_count = NumberOrZero(s.messages)
              /\ post'.payload.pending_subscription_count = NumberOrZero(s.subscriptions)
         /\ s.form = "none" => /\ post'.payload.message_count = 0
                               /\ post'.payload.pending_subscription_count = 0
    /\ "text" \in DOMAIN post'.payload => post'.payload.text \in {"small", "generic"}

LEMMA EventHandled ==
    ASSUME TypeInv, NEW s, StanzaFields(s), Registered(s.node), HandleEvent(s)
    PROVE  \/ up' = FALSE /\ post' = post /\ OddStanza(s)
           \/ up' = up /\ PostInv' /\ Justified(s)
<1> DEFINE d == s.node[1]
           account == s.node[2]
           p == post'.payload
<1>1. d \in Devices /\ account \in ToSet(registry[d].accounts) /\ account \in Accounts
  <2>1. d \in Devices /\ account \in ToSet(registry[d].accounts)
    BY DEF Registered
  <2>2. registry[d].accounts \in Seq(Accounts)
    BY <2>1 DEF TypeInv, DeviceRecords
  <2> HIDE DEF d, account
  <2> QED
    BY <2>1, <2>2 DEF ToSet
<1>2. CASE registry[d].version = 2 /\ send_v2_push_dies(s)
  BY <1>2 DEF HandleEvent, Dies, send_v2_push_dies, OddStanza
<1>3. CASE registry[d].version = 2 /\ ~send_v2_push_dies(s)
  <2>1. PICK messages, subscriptions :
           /\ messages = send_v2_push(account, s).messages
           /\ subscriptions = send_v2_push(account, s).subscriptions
    OBVIOUS
  <2>2. /\ messages = IF s.form = "fields" THEN count_of(s.messages) ELSE 0
        /\ subscriptions = IF s.form = "fields" THEN count_of(s.subscriptions) ELSE 0
        /\ send_v2_push(account, s).account = account
    BY <2>1 DEF send_v2_push
  <2>3. /\ messages \in Nat /\ subscriptions \in Nat
        /\ s.form = "fields" => /\ messages = NumberOrZero(s.messages)
                                /\ subscriptions = NumberOrZero(s.subscriptions)
        /\ s.form = "none" => messages = 0 /\ subscriptions = 0
    <3>1. CASE s.form = "fields"
      <4>1. s.messages # Huge /\ s.subscriptions # Huge
        BY <1>3, <3>1 DEF send_v2_push_dies
      <4>2. /\ count_of(s.messages) \in Nat /\ count_of(s.messages) = NumberOrZero(s.messages)
            /\ count_of(s.subscriptions) \in Nat
            /\ count_of(s.subscriptions) = NumberOrZero(s.subscriptions)
        BY <4>1, Counted, Zenon DEF StanzaFields
      <4> QED
        BY <2>2, <3>1, <4>2
    <3>2. CASE s.form # "fields"
      BY <2>2, <3>2
    <3> QED
      BY <3>1, <3>2
  <2>4. /\ post' = [device |-> d, payload |-> Push_to_json(account, messages, subscriptions)]
        /\ up' = up
    BY <1>3, <2>1, <2>2, Zenon DEF HandleEvent
  <2>5. post'.device = d /\ p = Push_to_json(account, messages, subscriptions)
    BY <2>4
  <2>6. /\ p \in Payloads
        /\ "action" \in DOMAIN p /\ "text" \notin DOMAIN p
        /\ p.action = "push" /\ p.account_id = account
        /\ p.message_count = messages /\ p.pending_subscription_count = subscriptions
    BY <1>1, <2>3, <2>5, V2Payload
  <2>7. PostInv'
    BY <1>1, <2>4, <2>5, <2>6, Zenon DEF PostInv
  <2>8. Justified(s)
    BY <1>1, <1>3, <2>3, <2>5, <2>6, Zenon DEF Justified
  <2> QED
    BY <2>4, <2>7, <2>8
<1>4. CASE registry[d].version # 2
  <2>1. post' = [device |-> d, payload |-> send_v1_push(s)] /\ up' = up
    BY <1>4, Zenon DEF HandleEvent
  <2>2. post'.device = d /\ p = send_v1_push(s)
    BY <2>1
  <2>3. p \in Payloads /\ "action" \notin DOMAIN p /\ p.text \in {"small", "generic"}
    BY <2>2, V1Payload, Zenon
  <2>4. PostInv'
    BY <1>1, <2>1, <2>2, <2>3, Zenon DEF PostInv
  <2>5. Justified(s)
    <3>1. post'.device = d /\ registry[post'.device].version # 2
      BY <1>4, <2>2
    <3> QED
      BY <1>1, <2>3, <3>1, Zenon DEF Justified
  <2> QED
    BY <2>1, <2>4, <2>5
<1> QED
  BY <1>2, <1>3, <1>4

LEMMA StanzaHandled ==
    ASSUME GatewayInv, message_handler
    PROVE  LET s == Head(inbox)
           IN /\ \/ up' = FALSE /\ post' = post /\ OddStanza(s)
                 \/ up' = up /\ post' = post
                 \/ /\ up' = up /\ PostInv' /\ Justified(s)
                    /\ s.from = "jid" /\ s.event = "pubsub#event" /\ s.items
                    /\ s.notification = "push:0"
              /\ inbox # <<>> /\ inbox' = Tail(inbox) /\ s \in Arriving
<1> DEFINE s == Head(inbox)
<1>1. inbox # <<>> /\ inbox' = Tail(inbox) /\ inbox \in Seq(Arriving)
  BY DEF message_handler, GatewayInv, TypeInv
<1>2. s \in Arriving
  BY <1>1
<1>3. StanzaFields(s) /\ TypeInv
  BY <1>2, ArrivingTyped DEF GatewayInv
<1>4. CASE classify(s) = "ignored"
  BY <1>1, <1>2, <1>4 DEF message_handler, Drop
<1>5. CASE classify(s) = "dies"
  BY <1>1, <1>2, <1>3, <1>5, Classified DEF message_handler, Dies
<1>6. CASE classify(s) = "event" /\ ~Registered(s.node)
  BY <1>1, <1>2, <1>6 DEF message_handler, Drop
<1>7. CASE classify(s) = "event" /\ Registered(s.node)
  <2>1. HandleEvent(s)
    BY <1>7 DEF message_handler
  <2> HIDE DEF s
  <2>2. \/ up' = FALSE /\ post' = post /\ OddStanza(s)
        \/ up' = up /\ PostInv' /\ Justified(s)
    BY <1>3, <1>7, <2>1, EventHandled
  <2> QED
    BY <1>1, <1>2, <1>3, <1>7, <2>2, Classified, Zenon DEF s
<1> QED
  BY <1>3, <1>4, <1>5, <1>6, <1>7, Classified

LEMMA HandlerStep ==
    ASSUME GatewayInv, message_handler
    PROVE  GatewayInv'
<1> DEFINE s == Head(inbox)
<1>1. /\ UNCHANGED <<wire, registry, iqs, pubsub, answer, spent, asked, exchange, told, rough, odd>>
      /\ up
  BY DEF message_handler, history
<1>2. /\ inbox # <<>> /\ inbox' = Tail(inbox) /\ inbox \in Seq(Arriving)
      /\ \/ up' = FALSE /\ post' = post /\ OddStanza(s)
         \/ up' = up /\ PostInv'
  BY StanzaHandled DEF GatewayInv, TypeInv, PostInv
<1>3. /\ inbox' \in Seq(Arriving) /\ s = inbox[1] /\ 1 \in 1..Len(inbox)
      /\ \A k \in 1..Len(inbox') : k + 1 \in 1..Len(inbox) /\ inbox'[k] = inbox[k + 1]
  BY <1>2
<1>4. TypeInv'
  <2>1. PostInv' /\ up' \in BOOLEAN
    BY <1>1, <1>2 DEF GatewayInv, TypeInv, PostInv
  <2> QED
    BY <1>1, <1>3, <2>1 DEF GatewayInv, TypeInv
<1>5. SessionInv'
  BY <1>1, SessionsUnchanged DEF GatewayInv
<1>6. StanzaInv'
  <2>1. \A k \in 1..Len(inbox') : OddStanza(inbox'[k]) => odd'
    BY <1>1, <1>3 DEF GatewayInv, StanzaInv
  <2>2. OddStanza(s) => odd
    BY <1>3 DEF GatewayInv, StanzaInv
  <2>3. ~up' => odd'
    BY <1>1, <1>2, <2>2
  <2> QED
    BY <2>1, <2>3 DEF StanzaInv, DeathExplained
<1>7. NodesInv'
  BY <1>1, NodesUnchanged DEF GatewayInv
<1> QED
  BY <1>4, <1>5, <1>6, <1>7 DEF GatewayInv

-----------------------------------------------------------------------------
(* onReceived.                                                             *)

\* The message of a client that waits is read as it was sent.
LEMMA WaitingRead ==
    ASSUME NEW c \in Clients, Waits(c), NEW k \in 1..Len(wire[c]),
           NEW j \in Readings(SubSeq(wire[c], 1, k)), k = 2
    PROVE  /\ wire[c] = <<j, Rest>> /\ asked[c] = <<j>>
           /\ SubSeq(wire[c], k + 1, Len(wire[c])) = <<>>
<1>1. PICK m \in Vocabulary[c] : wire[c] = <<m, Rest>> /\ asked[c] = <<m>>
  BY DEF Waits
<1> DEFINE chunk == SubSeq(wire[c], 1, k)
<1>2. Len(chunk) = 2 /\ chunk[1] = m
  <2> DEFINE w == <<m, Rest>>
  <2>1. Len(w) = 2 /\ w[1] = m /\ w \in Seq({m, Rest})
    OBVIOUS
  <2> HIDE DEF w
  <2>2. Len(SubSeq(w, 1, 2)) = 2 /\ SubSeq(w, 1, 2)[1] = w[1]
    BY <2>1
  <2> QED
    BY <1>1, <2>1, <2>2 DEF w
<1>3. m # Rest
  BY DocumentsAssumption, Zenon
<1>4. j = m
  <2> HIDE DEF chunk
  <2>1. Readings(chunk) = {m}
    BY <1>2, <1>3 DEF Readings
  <2> QED
    BY <2>1, Zenon DEF chunk
<1>5. SubSeq(wire[c], k + 1, Len(wire[c])) = <<>>
  BY <1>1
<1> QED
  BY <1>1, <1>4, <1>5

LEMMA ReceiveStep ==
    ASSUME GatewayInv, NEW c \in Clients, onReceived(c)
    PROVE  GatewayInv'
<1> DEFINE chunk(k) == SubSeq(wire[c], 1, k)
<1> DEFINE Read(k, j) ==
        /\ on_message_received(j)
        /\ wire' = [wire EXCEPT ![c] = SubSeq(@, k + 1, Len(@))]
        /\ rough' = IF k = 2 /\ chunk(k)[1] # Rest THEN rough ELSE rough \union {c}
        /\ exchange' = [client |-> c, read |-> j,
                        request |-> IF asked[c] = <<>> THEN NotJson ELSE Head(asked[c])]
        /\ asked' = [asked EXCEPT ![c] = IF answer' = <<>> \/ @ = <<>> THEN @ ELSE Tail(@)]
        /\ told' = told \union Accepted(j, answer')
<1> PICK k \in 1..Len(wire[c]) : \E j \in Readings(chunk(k)) : Read(k, j)
  BY Zenon DEF onReceived
<1> PICK j \in Readings(chunk(k)) : Read(k, j)
  OBVIOUS
<1>1. Read(k, j)
  OBVIOUS
<1>2. up /\ UNCHANGED <<pubsub, inbox, spent, odd>>
  BY DEF onReceived
<1>3. j \in Documents
  BY <1>1, ReadDocument DEF GatewayInv
<1>4. /\ \/ parse(j) = "abort" /\ up' = FALSE /\ answer' = <<>>
         \/ up' = up /\ Handled(j)
      /\ registry' \in [Devices -> DeviceRecords]
      /\ \A d \in Devices : registry[d].known => registry'[d].known
      /\ PostInv' /\ NodesInv'
  BY <1>1, <1>2, <1>3, MessageHandled DEF GatewayInv
<1>5. TypeInv'
  <2>1. ASSUME NEW e \in Clients PROVE wire'[e] \in Seq(Vocabulary[e] \union {Rest})
    <3> DEFINE T == Vocabulary[c] \union {Rest}
               w == wire[c]
    <3>1. w \in Seq(T) /\ DOMAIN wire = Clients /\ k \in 1..Len(w)
      BY <1>1 DEF GatewayInv, TypeInv
    <3>2. SubSeq(w, k + 1, Len(w)) \in Seq(T)
      <4> HIDE DEF T, w
      <4> QED
        BY <3>1
    <3>3. CASE e = c
      BY <1>1, <3>1, <3>2, <3>3
    <3>4. CASE e # c
      BY <1>1, <3>1, <3>4 DEF GatewayInv, TypeInv
    <3> QED
      BY <3>3, <3>4
  <2>2. DOMAIN wire' = Clients /\ DOMAIN asked' = Clients
    BY <1>1 DEF GatewayInv, TypeInv
  <2>3. rough' \subseteq Clients
    BY <1>1 DEF GatewayInv, TypeInv
  <2>4. up' \in BOOLEAN
    BY <1>2, <1>4
  <2> QED
    BY <1>2, <1>4, <2>1, <2>2, <2>3, <2>4 DEF GatewayInv, TypeInv
<1>6. /\ rough \subseteq rough' /\ c \notin rough' => k = 2 /\ c \notin rough
      /\ exchange'.client = c /\ exchange'.read = j
  BY <1>1
<1>7. c \notin rough' => /\ wire[c] = <<j, Rest>> /\ asked[c] = <<j>> /\ wire'[c] = <<>>
                         /\ exchange'.request = j
  <2> SUFFICES ASSUME c \notin rough'
               PROVE  /\ wire[c] = <<j, Rest>> /\ asked[c] = <<j>> /\ wire'[c] = <<>>
                      /\ exchange'.request = j
    OBVIOUS
  <2>1. Waits(c) /\ DOMAIN wire = Clients
    BY <1>2, <1>6 DEF GatewayInv, TypeInv, SessionInv
  <2>2. /\ wire[c] = <<j, Rest>> /\ asked[c] = <<j>>
        /\ SubSeq(wire[c], k + 1, Len(wire[c])) = <<>>
    BY <1>6, <2>1, WaitingRead
  <2>3. wire'[c] = SubSeq(wire[c], k + 1, Len(wire[c]))
    BY <1>1, <2>1, Zenon
  <2>4. exchange'.request = j
    BY <1>1, <2>2
  <2> QED
    BY <2>2, <2>3, <2>4, Zenon
<1>8. SessionInv'
  <2>1. CASE parse(j) = "abort" /\ up' = FALSE /\ answer' = <<>>
    <3>1. Accepted(j, answer') = {}
      BY <2>1 DEF Accepted
    <3>2. told' \subseteq {d \in Devices : registry'[d].known}
      BY <1>1, <1>4, <3>1 DEF GatewayInv, SessionInv
    <3> QED
      BY <2>1, <3>2 DEF SessionInv, AnswersMatchRequests
  <2>2. CASE up' = up /\ Handled(j)
    <3>1. PICK a \in Answers :
            /\ answer' = <<a>> /\ Fits(j, a)
            /\ WellFormed("set_push_accounts", j) /\ registry[j["device_id"]].known => Succeeded(a)
            /\ Accepted(j, <<a>>) \subseteq {d \in Devices : registry'[d].known}
      BY <2>2 DEF Handled
    <3>2. told' \subseteq {d \in Devices : registry'[d].known}
      BY <1>1, <1>4, <3>1 DEF GatewayInv, SessionInv
    <3>3. answer' # <<>> /\ answer'[1] = a
      BY <3>1
    <3>4. ASSUME NEW e \in Clients \ rough' PROVE Waits(e)'
      <4>1. DOMAIN wire = Clients /\ DOMAIN asked = Clients /\ Waits(e)
        BY <1>2, <1>6, <3>4 DEF GatewayInv, TypeInv, SessionInv
      <4>2. CASE e # c
        <5>1. wire'[e] = wire[e] /\ asked'[e] = asked[e]
          BY <1>1, <4>1, <4>2
        <5> QED
          BY <4>1, <5>1 DEF Waits
      <4>3. CASE e = c
        <5>1. wire'[c] = <<>> /\ asked[c] = <<j>>
          BY <1>7, <3>4, <4>3
        <5>2. asked'[c] = Tail(asked[c])
          BY <1>1, <3>3, <4>1, <5>1
        <5>3. asked'[c] = <<>>
          BY <5>1, <5>2
        <5> QED
          BY <4>3, <5>1, <5>3 DEF Waits
      <4> QED
        BY <4>2, <4>3
    <3>5. AnswersMatchRequests'
      <4> SUFFICES ASSUME c \notin rough'
                   PROVE  /\ Fits(j, a)
                          /\ WellFormed("set_push_accounts", j) /\ j["device_id"] \in told'
                                => Succeeded(a)
        BY <1>6, <1>7, <3>3 DEF AnswersMatchRequests
      <4>1. ASSUME WellFormed("set_push_accounts", j), j["device_id"] \in told'
            PROVE  Succeeded(a)
        <5>1. CASE j["device_id"] \in told
          <6>1. registry[j["device_id"]].known
            BY <5>1 DEF GatewayInv, SessionInv
          <6> QED
            BY <3>1, <4>1, <6>1
        <5>2. CASE j["device_id"] \in Accepted(j, <<a>>)
          <6>1. a.status = 1
            BY <5>2 DEF Accepted
          <6> QED
            BY <6>1, Zenon DEF Succeeded
        <5> QED
          BY <1>1, <3>1, <4>1, <5>1, <5>2
      <4> QED
        BY <3>1, <4>1
    <3> QED
      BY <3>1, <3>2, <3>4, <3>5 DEF SessionInv
  <2> QED
    BY <1>4, <2>1, <2>2
<1>9. StanzaInv'
  <2>1. ~up' => Text(exchange'.read, "action") /\ Incomplete(exchange'.read)
    <3> SUFFICES ASSUME ~up' PROVE Text(j, "action") /\ Incomplete(j)
      BY <1>6
    <3>1. parse(j) = "abort" /\ IsDocument(j)
      BY <1>2, <1>3, <1>4, DocumentsTyped
    <3> QED
      BY <3>1, AssertionsExplained
  <2> QED
    BY <1>2, <2>1 DEF GatewayInv, StanzaInv, DeathExplained
<1> QED
  BY <1>4, <1>5, <1>8, <1>9 DEF GatewayInv

-----------------------------------------------------------------------------
(* What holds of every behaviour.                                          *)

LEMMA StepGatewayInv == GatewayInv /\ [Next]_vars => GatewayInv'
<1> SUFFICES ASSUME GatewayInv, [Next]_vars PROVE GatewayInv'
  OBVIOUS
<1>1. ASSUME NEW c \in Clients, onReceived(c) PROVE GatewayInv'
  BY <1>1, ReceiveStep
<1>2. CASE message_handler
  BY <1>2, HandlerStep
<1>3. ASSUME NEW c \in Clients, NEW m \in Vocabulary[c], Write(c, m) PROVE GatewayInv'
  BY <1>3, WriteStep
<1>4. ASSUME NEW n \in Nodes, NEW content \in Contents, Publish(n, content) PROVE GatewayInv'
  BY <1>4, PublishStep
<1>5. ASSUME NEW s \in Strays, Stray(s) PROVE GatewayInv'
  BY <1>5, StrayStep
<1>6. ASSUME NEW n \in Nodes, HandleIq(n) PROVE GatewayInv'
  BY <1>6, HandleIqStep
<1>7. CASE UNCHANGED vars
  <2>1. TypeInv'
    BY <1>7 DEF GatewayInv, TypeInv, PostInv, vars, history
  <2>2. SessionInv'
    BY <1>7, SessionsUnchanged DEF GatewayInv, vars, history
  <2>3. StanzaInv'
    BY <1>7 DEF GatewayInv, StanzaInv, DeathExplained, vars, history
  <2>4. NodesInv'
    BY <1>7, NodesUnchanged DEF GatewayInv, vars, history
  <2> QED
    BY <2>1, <2>2, <2>3, <2>4 DEF GatewayInv
<1> QED
  BY <1>1, <1>2, <1>3, <1>4, <1>5, <1>6, <1>7 DEF Next, Asio, Environment

\* GatewayInvariant: a client that waits has nothing unanswered but the one message on the
\* wire, which nothing else gets into (onReceived); a device that was told its channel is
\* accepted is known; the requests for a node come in the order in which it needs them
\* (set_push_accounts); nothing that could end the process arrives unnoticed.
THEOREM GatewayInvariant == Spec => []GatewayInv
<1>1. Init => GatewayInv
  BY InitGatewayInv
<1>2. GatewayInv /\ [Next]_vars => GatewayInv'
  BY StepGatewayInv
<1> QED
  BY <1>1, <1>2, PTL DEF Spec

\* What was posted, told by its fields.
LEMMA PostedPayload ==
    ASSUME PostInv, post # None
    PROVE  /\ post.device \in Devices
           /\ \/ post.payload = TestPush_to_json
              \/ DOMAIN post.payload \in {{"text"}, {"kind", "text"}}
              \/ \E account \in Accounts, messages \in Nat, subscriptions \in Nat :
                    post.payload = Push_to_json(account, messages, subscriptions)
<1>1. PICK d \in Devices, p \in Payloads : post = [device |-> d, payload |-> p]
  BY DEF PostInv
<1>2. post.device = d /\ post.payload = p
  BY <1>1
<1>3. CASE p \in TestPayloads
  BY <1>2, <1>3 DEF TestPayloads
<1>4. CASE p \in PushPayloads
  BY <1>2, <1>4 DEF PushPayloads
<1>5. CASE p \in V1Payloads
  BY <1>2, <1>5 DEF V1Payloads
<1> QED
  BY <1>1, <1>3, <1>4, <1>5 DEF Payloads

\* TypeCorrect: the counts a device is sent are numbers, whatever stood in the form, and
\* everything else is what it should be (send_v2_push, set_push_accounts).
THEOREM TypeCorrect == Spec => []TypeOK
<1>1. ASSUME GatewayInv PROVE TypeOK
  <2>1. /\ up \in BOOLEAN /\ odd \in BOOLEAN /\ spent \in 0..Budget /\ rough \subseteq Clients
        /\ registry \in [Devices -> [known : BOOLEAN, version : 0..2, accounts : Seq(Accounts)]]
    BY <1>1 DEF GatewayInv, TypeInv, DeviceRecords
  <2>2. told \subseteq Devices
    BY <1>1 DEF GatewayInv, SessionInv
  <2>3. ASSUME NEW n \in Nodes PROVE pubsub[n].exists \in BOOLEAN /\ pubsub[n].subscribed \in BOOLEAN
    <3>1. pubsub[n] = NodeBefore(NextType(n, 1))
      BY <1>1 DEF GatewayInv, NodesInv, NodeInv
    <3>2. \A type : NodeBefore(type).exists \in BOOLEAN /\ NodeBefore(type).subscribed \in BOOLEAN
      BY DEF NodeBefore
    <3> QED
      BY <3>1, <3>2, Zenon
  <2>4. ASSUME post # None
        PROVE  /\ post.device \in Devices
               /\ "message_count" \in DOMAIN post.payload =>
                     /\ post.payload.message_count \in Nat
                     /\ post.payload.pending_subscription_count \in Nat
    <3>1. PostInv
      BY <1>1 DEF GatewayInv, TypeInv
    <3>2. CASE post.payload = TestPush_to_json
      BY <2>4, <3>1, <3>2, PostedPayload DEF TestPush_to_json, AbstractMessage_to_json
    <3>3. CASE DOMAIN post.payload \in {{"text"}, {"kind", "text"}}
      BY <2>4, <3>1, <3>3, PostedPayload
    <3>4. ASSUME NEW account \in Accounts, NEW messages \in Nat, NEW subscriptions \in Nat,
                 post.payload = Push_to_json(account, messages, subscriptions)
          PROVE  /\ post.payload.message_count \in Nat
                 /\ post.payload.pending_subscription_count \in Nat
      BY <3>4, V2Payload
    <3> QED
      BY <2>4, <3>1, <3>2, <3>3, <3>4, PostedPayload
  <2> QED
    BY <2>1, <2>2, <2>3, <2>4 DEF TypeOK
<1> QED
  BY <1>1, GatewayInvariant, PTL

\* AnswersCorrect: a client that waits for each answer, and whose messages arrive whole,
\* gets the answers to its requests, whatever the other clients send and however that is
\* read (parse, on_message_received).
THEOREM AnswersCorrect == Spec => []AnswersMatchRequests
<1>1. GatewayInv => AnswersMatchRequests
  BY DEF GatewayInv, SessionInv
<1> QED
  BY <1>1, GatewayInvariant, PTL

\* DeathsExplained: the process ends of a message that lacks something or of a stanza
\* that does, and of nothing else (parse_json, message_handler).
THEOREM DeathsExplained == Spec => []DeathExplained
<1>1. GatewayInv => DeathExplained
  BY DEF GatewayInv, StanzaInv
<1> QED
  BY <1>1, GatewayInvariant, PTL

\* WrittenIsRead: the message classes read back every answer and every payload that is
\* ever sent, but for the answer with an empty list of accounts (to_json, from_json).
THEOREM WrittenIsRead == Spec => []Readable
<1>1. ASSUME GatewayInv PROVE Readable
  <2>1. answer # <<>> => \/ "accounts" \in DOMAIN answer[1] /\ answer[1].accounts = <<>>
                         \/ parse(answer[1]) = AnswerType(answer[1])
    <3> SUFFICES ASSUME answer # <<>>
                 PROVE  \/ "accounts" \in DOMAIN answer[1] /\ answer[1].accounts = <<>>
                        \/ parse(answer[1]) = AnswerType(answer[1])
      OBVIOUS
    <3>1. PICK a \in Answers : answer = <<a>>
      BY <1>1 DEF GatewayInv, SessionInv
    <3>2. answer[1] = a
      BY <3>1
    <3> QED
      BY <3>2, AnswersReadable
  <2>2. ASSUME post # None, "action" \in DOMAIN post.payload
        PROVE  from_json(IF post.payload.action = "push" THEN "PUSH" ELSE "TEST_PUSH",
                         post.payload) = "ok"
    <3>1. PostInv
      BY <1>1 DEF GatewayInv, TypeInv
    <3>2. CASE post.payload = TestPush_to_json
      <4>1. post.payload.action # "push"
        BY <3>2 DEF TestPush_to_json, AbstractMessage_to_json
      <4> QED
        BY <3>2, <4>1, PayloadsRead, Zenon
    <3>3. CASE DOMAIN post.payload \in {{"text"}, {"kind", "text"}}
      BY <2>2, <3>3
    <3>4. ASSUME NEW account \in Accounts, NEW messages \in Nat, NEW subscriptions \in Nat,
                 post.payload = Push_to_json(account, messages, subscriptions)
          PROVE  from_json(IF post.payload.action = "push" THEN "PUSH" ELSE "TEST_PUSH",
                           post.payload) = "ok"
      <4>1. post.payload.action = "push"
        BY <3>4, V2Payload
      <4>2. account \notin {Wrong, ""}
        BY <3>4, NamesAssumption, Zenon
      <4>3. messages \in Int /\ subscriptions \in Int
        OBVIOUS
      <4>4. messages # Wrong /\ subscriptions # Wrong
        BY <4>3, WrongAssumption, Zenon
      <4> QED
        BY <3>4, <4>1, <4>2, <4>4, PayloadsRead, Zenon
    <3> QED
      BY <2>2, <3>1, <3>2, <3>3, <3>4, PostedPayload
  <2> QED
    BY <2>1, <2>2, Zenon DEF Readable
<1> QED
  BY <1>1, GatewayInvariant, PTL

\* NodesCorrect: once the XMPP server has handled the requests for a node, it takes what
\* is published and sends it to the push server if its account is registered, and is
\* not there otherwise (setup_push_node, delete_push_node, set_push_accounts).
THEOREM NodesCorrect == Spec => []NodesUsable
<1>1. ASSUME GatewayInv PROVE NodesUsable
  <2> SUFFICES ASSUME NEW n \in Nodes, iqs[n] = <<>>
               PROVE  /\ delivers(pubsub[n]) <=> Registered(n)
                      /\ pubsub[n].exists => Registered(n)
    BY DEF NodesUsable
  <2>1. pubsub[n] = NodeBefore(NextType(n, 1))
    BY <1>1 DEF GatewayInv, NodesInv, NodeInv
  <2>2. NextType(n, 1) = IF Registered(n) THEN "unsubscribe" ELSE "publish"
    BY DEF NextType
  <2>3. delivers(NodeBefore("unsubscribe"))
    BY DEF NodeBefore, delivers, xmpp_pep_publish_options_new
  <2>4. ~NodeBefore("publish").exists /\ ~delivers(NodeBefore("publish"))
    BY DEF NodeBefore, delivers
  <2> QED
    BY <2>1, <2>2, <2>3, <2>4
<1> QED
  BY <1>1, GatewayInvariant, PTL

\* PushesFromEvents: what is posted for a stanza is for the device of a node it
\* registered, of the kind it speaks, and says what the event said (message_handler).
THEOREM PushesFromEvents == Spec => PushesJustified
<1> DEFINE Pushed == Len(inbox') < Len(inbox) /\ post' # post
           s == Head(inbox)
<1>1. ASSUME GatewayInv, [Next]_vars, Pushed
      PROVE  /\ s.from = "jid" /\ s.event = "pubsub#event" /\ s.items /\ s.notification = "push:0"
             /\ Justified(s)
  <2>1. inbox \in Seq(Arriving)
    BY <1>1 DEF GatewayInv, TypeInv
  <2>2. CASE message_handler
    <3>1. up
      BY <2>2 DEF message_handler
    <3> QED
      BY <1>1, <2>2, <3>1, StanzaHandled
  <2>3. CASE UNCHANGED inbox
    BY <1>1, <2>3, <2>1
  <2>4. CASE \E x : inbox' = Append(inbox, x)
    BY <1>1, <2>4, <2>1
  <2>5. message_handler \/ UNCHANGED inbox \/ \E x : inbox' = Append(inbox, x)
    BY <1>1 DEF Next, Asio, Environment, onReceived, Write, Publish, Stray, HandleIq, vars
  <2> QED
    BY <2>2, <2>3, <2>4, <2>5
<1>2. GatewayInv /\ [Next]_vars =>
        [ Pushed =>
           LET p == post'.payload
           IN /\ s.from = "jid" /\ s.event = "pubsub#event" /\ s.items /\ s.notification = "push:0"
              /\ post'.device = s.node[1] /\ s.node[2] \in ToSet(registry[post'.device].accounts)
              /\ (registry[post'.device].version = 2) <=> ("action" \in DOMAIN p)
              /\ "action" \in DOMAIN p =>
                   /\ p.action = "push" /\ p.account_id = s.node[2]
                   /\ s.form = "fields" =>
                        /\ p.message_count = NumberOrZero(s.messages)
                        /\ p.pending_subscription_count = NumberOrZero(s.subscriptions)
                   /\ s.form = "none" => p.message_count = 0 /\ p.pending_subscription_count = 0
              /\ "text" \in DOMAIN p => p.text \in {"small", "generic"} ]_vars
  BY <1>1, Zenon DEF Justified
<1> QED
  BY <1>2, GatewayInvariant, PTL DEF Spec, PushesJustified

=============================================================================
