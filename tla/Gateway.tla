------------------------------ MODULE Gateway -------------------------------
(***************************************************************************)
(* The way of a request and of an event through the server: TLS sessions   *)
(* whose reads need not end where a message ends, the parser, the dispatch *)
(* in PushServer, the answers, the stanzas for the PubSub nodes, and from  *)
(* what is published to a node to what is posted to WNS.                   *)
(*                                                                         *)
(* A handler is one step here, Redis answers, the XMPP connection is up,   *)
(* and the node of an account is named by its device and account: what     *)
(* happens when handlers overlap or fail, and which tokens nodes get, is   *)
(* the subject of PushRegistry.                                            *)
(*                                                                         *)
(* Definitions whose comment starts with "Mutant" are wrong on purpose, to *)
(* see that the properties notice. No action uses them.                    *)
(***************************************************************************)
EXTENDS Messages, Stanzas

CONSTANTS
    Clients, Devices, Accounts,
    Vocabulary, \* the documents each client sends
    Cost,       \* what a message of a client counts for; a stanza counts for one
    Budget,     \* bound: what all messages and stanzas together count for
    MaxUnread,  \* bound: the halves that wait when a client writes the next message
    Strays,     \* message stanzas that are not what the server sends for a node
    Contents,   \* what is published: records of size, form, messages, subscriptions
    Rest,       \* the second half of a message
    None        \* nobody, or nothing

\* What a client sends as text is one of the names there are, or empty, and it lists an
\* account once; what becomes of one listed twice is told by PushRegistry.
ASSUME DocumentsAssumption ==
    \A c \in Clients : \A j \in Vocabulary[c] :
        /\ j # Rest
        /\ "device_id" \in DOMAIN j => j["device_id"] \in Devices \union {Wrong, ""}
        /\ "accounts" \in DOMAIN j /\ j["accounts"] # Wrong =>
              /\ Len(j["accounts"]) \in Nat /\ DOMAIN j["accounts"] = 1..Len(j["accounts"])
              /\ \A k \in DOMAIN j["accounts"] :
                    /\ "account_id" \in DOMAIN j["accounts"][k] =>
                          j["accounts"][k]["account_id"] \in Accounts \union {Wrong, ""}
                    /\ \A i \in 1..(k - 1) : j["accounts"][i] # j["accounts"][k]

\* What is listed in an answer.
ListedAccounts ==
    [account_id : Accounts, node : {"node"}, secret : {"secret"}, success : {TRUE}]

\* The texts of the errors.
Errors == {"Invalid channel URI.", "Device id unknown.", "Failed to send test push.",
           "Malformed JSON.", "Unsupported message type."}

\* A name is a text that is not empty, and neither a text nor a list is a value of the
\* wrong type.
ASSUME NamesAssumption ==
    /\ "" \notin Accounts /\ Wrong \notin Accounts
    /\ Wrong \notin Errors /\ Wrong \notin Seq(ListedAccounts)

\* The stanza the push server gets for what is published to one of its nodes.
PublishedTo(n, content) ==
    [from |-> "jid", event |-> "pubsub#event", items |-> TRUE, notification |-> "push:0",
     node |-> n, size |-> content.size, form |-> content.form, messages |-> content.messages,
     subscriptions |-> content.subscriptions]

\* What an element or an attribute may hold.
StanzaFields(s) ==
    /\ s.from \in {"jid", "other", Missing}
    /\ s.event \in {"pubsub#event", "other", "none", Missing} /\ s.items \in BOOLEAN
    /\ s.notification \in {"push:0", "other", "none", Missing}
    /\ s.size \in {"small", "large"} /\ s.form \in {"none", "fields", "text"}
    /\ s.messages \in Nat \union {Missing, NoNumber, Huge}
    /\ s.subscriptions \in Nat \union {Missing, NoNumber, Huge}

ASSUME StanzasAssumption ==
    /\ {Missing, NoNumber, Huge} \intersect Nat = {}
    /\ Missing \notin {"jid", "other", "pubsub#event", "push:0", "none"}
    /\ Huge \notin {Missing, NoNumber}
    /\ \A s \in Strays : StanzaFields(s)
    /\ \A n \in Devices \X Accounts, content \in Contents : StanzaFields(PublishedTo(n, content))

ASSUME BoundsAssumption == Budget \in Nat /\ \A c \in Clients : Cost[c] \in Nat

VARIABLES
    up,         \* the process runs
    wire,       \* per client, the halves of its messages that were not read yet
    registry,   \* per device, what Redis has of it
    iqs,        \* per node, the requests on their way to the XMPP server
    pubsub,     \* per device and account, its node
    inbox,      \* message stanzas on their way to the push server
    post,       \* what was posted to WNS last
    answer,     \* what the last message was answered: nothing, or one document
    \* History.
    spent,      \* what was used of the budget
    asked,      \* per client, the messages it has no answer to
    exchange,   \* whose message was read last, what was read, and what it answers
    told,       \* the devices whose channel URI was accepted
    rough,      \* the clients that did not wait for an answer, or whose messages were
                \* not read one at a time
    odd         \* a stanza came with something missing, unnamed or too large

history == <<spent, asked, exchange, told, rough, odd>>
vars == <<up, wire, registry, iqs, pubsub, inbox, post, answer, history>>

NoExchange == [client |-> None, read |-> NotJson, request |-> NotJson]
Nodes == Devices \X Accounts
Unknown == [known |-> FALSE, version |-> 0, accounts |-> <<>>]
Registered(n) == n[1] \in Devices /\ n[2] \in ToSet(registry[n[1]].accounts)

Init ==
    /\ up = TRUE
    /\ wire = [c \in Clients |-> <<>>]
    /\ registry = [d \in Devices |-> Unknown]
    /\ iqs = [n \in Nodes |-> <<>>]
    /\ pubsub = [n \in Nodes |-> NoPubSubNode]
    /\ inbox = <<>>
    /\ post = None /\ answer = <<>>
    /\ spent = 0 /\ odd = FALSE
    /\ asked = [c \in Clients |-> <<>>]
    /\ exchange = NoExchange
    /\ told = {} /\ rough = {}

-----------------------------------------------------------------------------
(* Sessions                                                                *)

\* A client writes a message, which travels in two pieces; the first one stands for what
\* is in it.
Write(c, m) ==
    /\ up /\ spent + Cost[c] <= Budget /\ Len(wire[c]) <= MaxUnread
    /\ wire' = [wire EXCEPT ![c] = @ \o <<m, Rest>>]
    /\ spent' = spent + Cost[c]
    /\ asked' = [asked EXCEPT ![c] = Append(@, m)]
    /\ rough' = IF asked[c] = <<>> THEN rough ELSE rough \union {c}
    /\ UNCHANGED <<up, registry, iqs, pubsub, inbox, post, answer, exchange, told, odd>>

\* What one read can be: the parser stops at the '\0' after a message, if the client
\* sends one, and takes more than one message for malformed if it does not.
Readings(chunk) ==
    IF chunk[1] # Rest /\ Len(chunk) >= 2
      THEN {chunk[1]} \union (IF Len(chunk) > 2 THEN {NotJson} ELSE {})
      ELSE {NotJson}

\* respond_with_success, respond_with_error, send.
Respond(json) == answer' = <<json>>
RespondWithError(error) == Respond(ErrorResponse_to_json(error))

-----------------------------------------------------------------------------
(* PushServer                                                              *)

\* A valid URI is one of notify.windows.com.
is_valid_channel_uri(uri) == uri = "notify"

set_channel_uri(j) ==
    IF is_valid_channel_uri(j.channel_uri)
      THEN /\ registry' = [registry EXCEPT ![j.device_id].known = TRUE]
           /\ Respond(SuccessResponse_to_json)
           /\ UNCHANGED <<iqs, post>>
      ELSE /\ RespondWithError("Invalid channel URI.")
           /\ UNCHANGED <<registry, iqs, post>>

\* Mutant: a device without accounts is forgotten.
StoredUnlessEmpty(j, ids) ==
    IF ids = <<>> THEN Unknown ELSE [known |-> TRUE, version |-> j.version, accounts |-> ids]

\* What Redis has of a device after set_push_accounts.
Stored(j, ids) == [known |-> TRUE, version |-> j.version, accounts |-> ids]

\* The stanzas for a node of the device that is no longer listed, or that is new. The order
\* of the nodes is that of a hash table; requests for different nodes do not meet.
NodeRequests(n, ids) ==
    CASE Registered(n) /\ n[2] \notin ToSet(ids) -> delete_push_node(n)
      [] ~Registered(n) /\ n[2] \in ToSet(ids) -> setup_push_node(n)
      [] OTHER -> <<>>

\* The accounts keep the order they were listed in.
set_push_accounts(j) ==
    IF registry[j.device_id].known
      THEN LET ids == [k \in DOMAIN j.accounts |-> j.accounts[k].account_id]
           IN /\ registry' = [registry EXCEPT ![j.device_id] = Stored(j, ids)]
              /\ iqs' = [n \in Nodes |-> IF n[1] = j.device_id THEN iqs[n] \o NodeRequests(n, ids)
                                                                ELSE iqs[n]]
              /\ Respond(SuccessSetPushAccounts_to_json(
                    [k \in DOMAIN ids |-> [account_id |-> ids[k], node |-> "node",
                                           secret |-> "secret", success |-> TRUE]], "jid"))
              /\ UNCHANGED post
      ELSE /\ RespondWithError("Device id unknown.")
           /\ UNCHANGED <<registry, iqs, post>>

\* Only a device that speaks version 2 gets JSON.
send_test_push(j) ==
    IF registry[j.device_id].known
      THEN /\ post' = [device |-> j.device_id,
                       payload |-> IF registry[j.device_id].version = 2
                                     THEN TestPush_to_json ELSE [text |-> "test"]]
           /\ \/ Respond(SuccessResponse_to_json)
              \/ RespondWithError("Failed to send test push.")
           /\ UNCHANGED <<registry, iqs>>
      ELSE /\ RespondWithError("Device id unknown.")
           /\ UNCHANGED <<registry, iqs, post>>

\* Mutant: a message that is no request is not answered.
on_message_received_quiet(j) ==
    /\ parse(j) # "abort" /\ up' = up
    /\ CASE parse(j) = "null" -> RespondWithError("Malformed JSON.") /\ UNCHANGED <<registry, iqs, post>>
         [] parse(j) = "SET_CHANNEL_URI" -> set_channel_uri(j)
         [] parse(j) = "SET_PUSH_ACCOUNT" -> set_push_accounts(j)
         [] parse(j) = "REQUEST_TEST_PUSH" -> send_test_push(j)
         [] OTHER -> answer' = <<>> /\ UNCHANGED <<registry, iqs, post>>

\* A failed assertion ends the process before the message can be called invalid.
on_message_received(j) ==
    IF parse(j) = "abort"
      THEN up' = FALSE /\ answer' = <<>> /\ UNCHANGED <<registry, iqs, post>>
      ELSE /\ up' = up
           /\ CASE parse(j) = "SET_CHANNEL_URI" -> set_channel_uri(j)
                [] parse(j) = "SET_PUSH_ACCOUNT" -> set_push_accounts(j)
                [] parse(j) = "REQUEST_TEST_PUSH" -> send_test_push(j)
                [] OTHER ->
                     /\ RespondWithError(IF parse(j) = "null" THEN "Malformed JSON."
                                                             ELSE "Unsupported message type.")
                     /\ UNCHANGED <<registry, iqs, post>>

\* History: the device whose channel URI was accepted with this answer.
Accepted(j, a) ==
    IF a # <<>> /\ "channel_uri" \in DOMAIN j /\ a[1].status = 1 THEN {j["device_id"]} ELSE {}

\* ClientSslSession::onReceived, with as much as has arrived.
onReceived(c) ==
    /\ up
    /\ \E k \in 1..Len(wire[c]) :
         LET chunk == SubSeq(wire[c], 1, k)
         IN \E j \in Readings(chunk) :
              /\ on_message_received(j)
              /\ wire' = [wire EXCEPT ![c] = SubSeq(@, k + 1, Len(@))]
              /\ rough' = IF k = 2 /\ chunk[1] # Rest THEN rough ELSE rough \union {c}
              /\ exchange' = [client |-> c, read |-> j,
                              request |-> IF asked[c] = <<>> THEN NotJson ELSE Head(asked[c])]
              /\ asked' = [asked EXCEPT ![c] = IF answer' = <<>> \/ @ = <<>> THEN @ ELSE Tail(@)]
              /\ told' = told \union Accepted(j, answer')
    /\ UNCHANGED <<pubsub, inbox, spent, odd>>

-----------------------------------------------------------------------------
(* The XMPP server (external)                                              *)

HandleIq(n) ==
    /\ iqs[n] # <<>>
    /\ pubsub' = [pubsub EXCEPT ![n] = Answer(Head(iqs[n]), @)]
    /\ iqs' = [iqs EXCEPT ![n] = Tail(@)]
    /\ UNCHANGED <<up, wire, registry, inbox, post, answer, history>>

\* History: what message_handler may not survive.
OddStanza(s) ==
    \/ Missing \in {s.from, s.node} \/ "none" \in {s.event, s.notification}
    \/ s.form = "text" \/ Huge \in {s.messages, s.subscriptions}

\* The server of a user publishes to a node.
Publish(n, content) ==
    /\ up /\ delivers(pubsub[n]) /\ spent < Budget
    /\ inbox' = Append(inbox, PublishedTo(n, content))
    /\ spent' = spent + 1
    /\ odd' = (odd \/ OddStanza(PublishedTo(n, content)))
    /\ UNCHANGED <<up, wire, registry, iqs, pubsub, post, answer, asked, exchange, told,
                   rough>>

\* Any other message stanza.
Stray(s) ==
    /\ up /\ spent < Budget
    /\ inbox' = Append(inbox, s)
    /\ spent' = spent + 1
    /\ odd' = (odd \/ OddStanza(s))
    /\ UNCHANGED <<up, wire, registry, iqs, pubsub, post, answer, asked, exchange, told,
                   rough>>

-----------------------------------------------------------------------------
(* message_handler, and the handlers in PushServer it ends in              *)

Drop == UNCHANGED <<up, post>>
Dies == up' = FALSE /\ post' = post

HandleEvent(s) ==
    LET d == s.node[1]
    IN IF registry[d].version = 2
         THEN IF send_v2_push_dies(s) THEN Dies
              ELSE LET push == send_v2_push(s.node[2], s)
                   IN /\ post' = [device |-> d, payload |->
                                    Push_to_json(push.account, push.messages, push.subscriptions)]
                      /\ UNCHANGED up
         ELSE post' = [device |-> d, payload |-> send_v1_push(s)] /\ UNCHANGED up

message_handler ==
    /\ up /\ inbox # <<>>
    /\ LET s == Head(inbox)
       IN CASE classify(s) = "ignored" -> Drop
            [] classify(s) = "dies" -> Dies
            [] classify(s) = "event" /\ ~Registered(s.node) -> Drop
            [] classify(s) = "event" /\ Registered(s.node) -> HandleEvent(s)
    /\ inbox' = Tail(inbox)
    /\ UNCHANGED <<wire, registry, iqs, pubsub, answer, history>>

-----------------------------------------------------------------------------

Asio == \E c \in Clients : onReceived(c)

Environment ==
    \/ \E c \in Clients : \E m \in Vocabulary[c] : Write(c, m)
    \/ \E n \in Nodes, content \in Contents : Publish(n, content)
    \/ \E s \in Strays : Stray(s)
    \/ \E n \in Nodes : HandleIq(n)

Next == Asio \/ message_handler \/ Environment

Spec == Init /\ [][Next]_vars

\* The thread of the asio service serves what has arrived, every client in turn.
FairSpec == Spec /\ \A c \in Clients : WF_vars(onReceived(c))

-----------------------------------------------------------------------------
(* Properties                                                              *)

Succeeded(a) == a.status = 1

\* Whether an answer is one to this request.
Fits(j, a) ==
    /\ WellFormed("set_channel_uri", j) =>
          (Succeeded(a) <=> j.channel_uri = "notify") /\ "accounts" \notin DOMAIN a
    /\ WellFormed("set_push_accounts", j) /\ Succeeded(a) =>
          /\ Len(a.accounts) = Len(j.accounts)
          /\ \A k \in DOMAIN j.accounts : a.accounts[k].account_id = j.accounts[k].account_id
    /\ (\A action \in Actions : ~WellFormed(action, j)) => ~Succeeded(a)

\* TypeOK: what the variables range over; in particular the counts a device is sent are
\* numbers, whatever the form said (send_v2_push).
TypeOK ==
    /\ up \in BOOLEAN /\ odd \in BOOLEAN
    /\ spent \in 0..Budget /\ told \subseteq Devices /\ rough \subseteq Clients
    /\ registry \in [Devices -> [known : BOOLEAN, version : 0..2, accounts : Seq(Accounts)]]
    /\ \A n \in Nodes : pubsub[n].exists \in BOOLEAN /\ pubsub[n].subscribed \in BOOLEAN
    /\ post # None =>
          /\ post.device \in Devices
          /\ "message_count" \in DOMAIN post.payload =>
                post.payload.message_count \in Nat /\ post.payload.pending_subscription_count \in Nat

\* A client that waits for each answer, and whose messages arrive whole, gets the
\* answers to its requests in their order: success for what is right, with the
\* accounts as they were listed, an error for what is not, and never the word that a
\* device is unknown after its channel was accepted (parse, on_message_received).
AnswersMatchRequests ==
    answer # <<>> /\ exchange.client \notin rough =>
        LET j == exchange.request
        IN /\ Fits(j, answer[1])
           /\ WellFormed("set_push_accounts", j) /\ j["device_id"] \in told => Succeeded(answer[1])

\* The only ends of the process are the known ones: the assertion in parse_json on a
\* message that lacks a field, or has it empty or out of range, and stanzas with
\* something missing, unnamed or too large. What is of the wrong type, what is cut in
\* the middle and what has no action never ends it (Parser.cpp, ClientSslSession).
DeathExplained ==
    ~up /\ ~odd => Text(exchange.read, "action") /\ Incomplete(exchange.read)

\* The message classes read back what they write, as the type it was written as: the
\* answers and the payloads a device gets. The one exception is the answer to an empty
\* list of accounts, which SuccessSetPushAccountsMessage::from_json refuses.
Readable ==
    /\ answer # <<>> => \/ "accounts" \in DOMAIN answer[1] /\ answer[1].accounts = <<>>
                        \/ parse(answer[1]) = AnswerType(answer[1])
    /\ post # None /\ "action" \in DOMAIN post.payload =>
          from_json(IF post.payload.action = "push" THEN "PUSH" ELSE "TEST_PUSH", post.payload) = "ok"

NumberOrZero(v) == IF v \in Nat THEN v ELSE 0

\* A push made of a stanza is for the device of a node it registered, from a complete
\* event of the server's own account, of the kind the device speaks, with the numbers of
\* the form under their own names, or with a text that WNS takes (message_handler).
PushesJustified ==
    [][ (Len(inbox') < Len(inbox) /\ post' # post) =>
          LET s == Head(inbox)
              p == post'.payload
          IN /\ s.from = "jid" /\ s.event = "pubsub#event" /\ s.items /\ s.notification = "push:0"
             /\ post'.device = s.node[1] /\ s.node[2] \in ToSet(registry[post'.device].accounts)
             /\ (registry[post'.device].version = 2) <=> ("action" \in DOMAIN p)
             /\ "action" \in DOMAIN p =>
                  /\ p.action = "push" /\ p.account_id = s.node[2]
                  /\ s.form = "fields" =>
                       /\ p.message_count = NumberOrZero(s.messages)
                       /\ p.pending_subscription_count = NumberOrZero(s.subscriptions)
                  /\ s.form = "none" => p.message_count = 0 /\ p.pending_subscription_count = 0
             /\ "text" \in DOMAIN p => p.text \in {"small", "generic"} ]_vars

\* Once the XMPP server has handled every request, exactly the nodes of the accounts
\* the devices listed last exist, anyone may publish to them, and the push server gets
\* what is published (setup_push_node, delete_push_node, their publish options).
NodesUsable ==
    \A n \in Nodes : iqs[n] = <<>> => /\ delivers(pubsub[n]) <=> Registered(n)
                                      /\ pubsub[n].exists => Registered(n)

\* A client that waits for its answers gets one to everything it sends whole, unless
\* the process ends (on_message_received answers on every path).
RequestsAnswered ==
    \A c \in Clients : asked[c] # <<>> ~> (asked[c] = <<>> \/ c \in rough \/ ~up)

=============================================================================
