----------------------------- MODULE MCGateway ------------------------------
(* One device with two accounts that sends what is right, and a prober that  *)
(* sends one document with a fault in any one or two of its fields.          *)
EXTENDS Gateway

MCClients == {"device", "prober"}
MCDevices == {"d1"}
MCAccounts == {"a1", "a2"}

ChannelUri(uri) ==
    [version |-> 2, action |-> "set_channel_uri", channel_uri |-> uri, device_id |-> "d1"]
PushAccounts(version, ids) ==
    [version |-> version, action |-> "set_push_accounts", device_id |-> "d1",
     accounts |-> [k \in DOMAIN ids |-> [account_id |-> ids[k]]]]
TestPush == [version |-> 1, action |-> "request_test_push", device_id |-> "d1"]

WellBehaved ==
    {ChannelUri("notify"), PushAccounts(1, <<"a1">>), PushAccounts(2, <<"a2", "a1">>),
     PushAccounts(2, <<>>), TestPush}

\* A document with its fields in fs taken away, and those in the domain of g replaced.
Without(j, fs) == [f \in DOMAIN j \ fs |-> j[f]]
With(j, g) == [f \in DOMAIN j |-> IF f \in DOMAIN g THEN g[f] ELSE j[f]]

Bad(f) ==
    CASE f = "version" -> {Wrong, 0, 3}
      [] f = "action" -> {Wrong, "", "set_accounts"}
      [] f \in {"device_id", "account_id", "node", "secret", "push_bare_jid"} -> {Wrong, ""}
      [] f = "success" -> {Wrong}
      [] f = "channel_uri" -> {Wrong, "", "other"}
      [] f = "accounts" -> {Wrong, <<[account_id |-> ""]>>, <<[id |-> "a1"]>>, <<[account_id |-> Wrong]>>}
      [] f = "status" -> {Wrong, -1, 2}
      [] f = "error" -> {Wrong}

OneFault(j) ==
    {Without(j, {f}) : f \in DOMAIN j} \union
    UNION {{With(j, [x \in {f} |-> v]) : v \in Bad(f)} : f \in DOMAIN j}
\* A field missing and one of the wrong type: the order of the checks decides.
TwoFaults(j) ==
    {With(Without(j, {f}), [x \in {g} |-> Wrong]) : f, g \in DOMAIN j}

Faulty == UNION {OneFault(j) \union TwoFaults(j) :
                   j \in {ChannelUri("notify"), PushAccounts(2, <<"a1">>), TestPush}}

\* The server's own messages, sent back to it.
Listed == [account_id |-> "a1", node |-> "node", secret |-> "secret", success |-> TRUE]
ListResponse == SuccessSetPushAccounts_to_json(<<Listed>>, "jid")
Responses == {ErrorResponse_to_json("text"), SuccessResponse_to_json, ListResponse,
              SuccessSetPushAccounts_to_json(<<>>, "jid")}
FaultyResponses ==
    OneFault(ErrorResponse_to_json("text")) \union OneFault(ListResponse) \union
    {SuccessSetPushAccounts_to_json(<<a>>, "jid") : a \in OneFault(Listed)}

MCVocabulary ==
    [device |-> WellBehaved,
     prober |-> Faulty \union Responses \union FaultyResponses \union {NotJson}]
MCCost == [device |-> 1, prober |-> 2]

Event == [from |-> "jid", event |-> "pubsub#event", items |-> TRUE, notification |-> "push:0",
          node |-> <<"d1", "a1">>, size |-> "small", form |-> "none", messages |-> Missing,
          subscriptions |-> Missing]
MCStrays ==
    {[Event EXCEPT !.from = v] : v \in {"other", Missing}} \union
    {[Event EXCEPT !.event = v] : v \in {"other", "none", Missing}} \union
    {[Event EXCEPT !.notification = v] : v \in {"other", "none", Missing}} \union
    {[Event EXCEPT !.items = FALSE], [Event EXCEPT !.node = Missing],
     [Event EXCEPT !.node = <<"d2", "a1">>], Event}

Form(m, s) == [size |-> "small", form |-> "fields", messages |-> m, subscriptions |-> s]
MCContents ==
    {Form(1, 2), Form(Missing, 2), Form(NoNumber, 1), Form(3, Huge),
     [Form(Missing, Missing) EXCEPT !.form = "none", !.size = "large"],
     [Form(Missing, Missing) EXCEPT !.form = "text"]}

=============================================================================
