------------------------------ MODULE Stanzas -------------------------------
(***************************************************************************)
(* The stanzas XmppClient reads and writes. A message stanza is a record   *)
(* of what message_handler looks at; Missing stands for an element or an   *)
(* attribute that is not there. libstrophe returns a null pointer for it,  *)
(* which the code tests in some places and passes to strcmp or std::string *)
(* in others: there the process dies.                                      *)
(***************************************************************************)
EXTENDS Naturals, Sequences

CONSTANTS Missing, NoNumber, Huge  \* what a field of the form may hold besides a number

-----------------------------------------------------------------------------
(* message_handler                                                         *)

\* get_items_node and get_notification_node; "items" and "item" are the elements on
\* the way, "event" and "notification" the namespaces of theirs.
get_items_node(s) ==
    CASE s.event = Missing -> "null"
      [] s.event = "none" -> "dies"
      [] s.event = "pubsub#event" /\ s.items -> "found"
      [] OTHER -> "null"

get_notification_node(s) ==
    CASE s.notification = Missing -> "null"
      [] s.notification = "none" -> "dies"
      [] s.notification = "push:0" -> "found"
      [] OTHER -> "null"

\* How far a stanza gets before Redis is asked for its node.
classify(s) ==
    CASE s.from = Missing -> "dies"
      [] s.from = "other" -> "ignored"
      [] s.from = "jid" /\ get_items_node(s) = "dies" -> "dies"
      [] s.from = "jid" /\ get_items_node(s) = "null" -> "ignored"
      [] s.from = "jid" /\ get_items_node(s) = "found" ->
           CASE get_notification_node(s) = "dies" -> "dies"
             [] get_notification_node(s) = "null" -> "ignored"
             [] OTHER -> IF s.node = Missing THEN "dies" ELSE "event"

\* send_v1_push: the notification with the account added, unless it is too long.
send_v1_push(s) == [kind |-> "v1", text |-> IF s.size = "large" THEN "generic" ELSE s.size]

\* Mutant: what std::stoi throws is taken for a number.
count_of_unchecked(v) == IF v = Missing THEN 0 ELSE v

\* std::stoi; only invalid_argument is caught.
count_of(v) == IF v \in {Missing, NoNumber} THEN 0 ELSE v

\* Mutant: the fields are told apart by their position.
send_v2_push_by_position(account, s) ==
    [kind |-> "v2", account |-> account,
     messages |-> IF s.messages # Missing THEN count_of(s.messages) ELSE count_of(s.subscriptions),
     subscriptions |-> IF s.messages # Missing THEN count_of(s.subscriptions) ELSE 0]

\* send_v2_push: an element without a name among the fields, or a number that does
\* not fit an int, ends the process.
send_v2_push_dies(s) ==
    s.form = "text" \/ (s.form = "fields" /\ Huge \in {s.messages, s.subscriptions})
send_v2_push(account, s) ==
    [kind |-> "v2", account |-> account,
     messages |-> IF s.form = "fields" THEN count_of(s.messages) ELSE 0,
     subscriptions |-> IF s.form = "fields" THEN count_of(s.subscriptions) ELSE 0]

-----------------------------------------------------------------------------
(* The requests for a node, and what the server makes of them (XEP-0060,   *)
(* external): publishing creates the node with the options given.          *)

xmpp_pep_publish_options_new ==
    [access_model |-> "open", publish_model |-> "open", deliver_notifications |-> TRUE,
     deliver_payloads |-> TRUE, persist_items |-> TRUE, subscribe |-> TRUE,
     presence_based_delivery |-> FALSE]

xmpp_pep_publish_empty_new(n) ==
    [type |-> "publish", node |-> n, options |-> xmpp_pep_publish_options_new]
xmpp_pep_subscribe_new(n) == [type |-> "subscribe", node |-> n]
xmpp_pep_unsubscribe_new(n) == [type |-> "unsubscribe", node |-> n]
xmpp_pep_delete_new(n) == [type |-> "delete", node |-> n]

\* Mutant: the subscription is asked for before there is a node.
setup_push_node_subscribe_first(n) ==
    <<xmpp_pep_subscribe_new(n), xmpp_pep_publish_empty_new(n)>>

setup_push_node(n) == <<xmpp_pep_publish_empty_new(n), xmpp_pep_subscribe_new(n)>>
delete_push_node(n) == <<xmpp_pep_unsubscribe_new(n), xmpp_pep_delete_new(n)>>

\* A node of the server: its options, and whether the push server subscribes it.
NoPubSubNode == [exists |-> FALSE, options |-> xmpp_pep_publish_options_new, subscribed |-> FALSE]

\* What one request makes of its node.
Answer(iq, n) ==
    CASE iq.type = "publish" -> IF n.exists THEN n ELSE [n EXCEPT !.exists = TRUE, !.options = iq.options]
      [] iq.type = "subscribe" -> [n EXCEPT !.subscribed = n.exists /\ n.options.subscribe]
      [] iq.type = "unsubscribe" -> [n EXCEPT !.subscribed = FALSE]
      [] iq.type = "delete" -> NoPubSubNode

\* Somebody else, the XMPP server of a user, may publish to the node, and the push
\* server is sent what is published with its payload.
delivers(n) ==
    /\ n.exists /\ n.subscribed
    /\ n.options.publish_model = "open"
    /\ n.options.deliver_notifications /\ n.options.deliver_payloads
    /\ ~n.options.presence_based_delivery

=============================================================================
