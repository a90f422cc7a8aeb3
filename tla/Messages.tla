------------------------------ MODULE Messages ------------------------------
(***************************************************************************)
(* What tcp::messages makes of a JSON document. A document is a function   *)
(* from the fields it has to their values; what is no JSON has none. A     *)
(* value is a string ("" is an empty one), a number, a sequence, or Wrong  *)
(* for one of another type; an account in a list is a document itself.     *)
(*                                                                         *)
(* from_json looks at one field after the other and stops at the first one *)
(* that is not as it should be: a missing, empty or out of range one makes *)
(* the message "invalid", one of the wrong type "throws". The constructor  *)
(* keeps an invalid message, which an assertion in parse_json then finds;  *)
(* what is thrown is caught in parse.                                      *)
(***************************************************************************)
EXTENDS Integers, Sequences, SequencesExt

CONSTANT Wrong

\* The texts the code looks for or writes itself.
Texts == {"", "set_channel_uri", "set_push_accounts", "request_test_push", "response", "push",
          "test_push", "node", "secret", "jid"}

\* A value of the wrong type is none of the right one.
ASSUME WrongAssumption == Wrong \notin Texts /\ Wrong \notin Int /\ Wrong \notin BOOLEAN

VERSION == 2

\* parse logs the exception and returns what it returns for a document without fields.
NotJson == <<>>

-----------------------------------------------------------------------------
(* The checks of one field each.                                           *)

StringField(j, f) ==
    CASE f \notin DOMAIN j -> "invalid"
      [] f \in DOMAIN j /\ j[f] = Wrong -> "throws"
      [] f \in DOMAIN j /\ j[f] = "" -> "invalid"
      [] OTHER -> "ok"

\* Any value of the right type will do.
TypedField(j, f) ==
    CASE f \notin DOMAIN j -> "invalid"
      [] f \in DOMAIN j /\ j[f] = Wrong -> "throws"
      [] OTHER -> "ok"

NumberField(j, f, allowed) ==
    CASE f \notin DOMAIN j -> "invalid"
      [] f \in DOMAIN j /\ j[f] = Wrong -> "throws"
      [] f \in DOMAIN j /\ j[f] \notin allowed \union {Wrong} -> "invalid"
      [] OTHER -> "ok"

\* A value that is no list is looked at as if it were its own only element, which has
\* no fields; so is one that is missing. null is an empty list.
ListField(j, f) == IF f \in DOMAIN j /\ j[f] # Wrong THEN j[f] ELSE << <<>> >>

\* The first check that does not succeed decides.
FirstFault(checks) ==
    LET fault == SelectInSeq(checks, LAMBDA c : c # "ok")
    IN IF fault = 0 THEN "ok" ELSE checks[fault]

-----------------------------------------------------------------------------
(* from_json of the message classes: their checks, in order.               *)

AbstractMessage(j) ==
    <<NumberField(j, "version", 1..VERSION), StringField(j, "action")>>

SetChannelUriMessage(j) ==
    AbstractMessage(j) \o <<StringField(j, "channel_uri"), StringField(j, "device_id")>>

SetPushAccountsMessage(j) ==
    LET accounts == ListField(j, "accounts")
    IN AbstractMessage(j)
          \o [k \in DOMAIN accounts |-> StringField(accounts[k], "account_id")]
          \o <<StringField(j, "device_id")>>

RequestTestPushMessage(j) == AbstractMessage(j) \o <<StringField(j, "device_id")>>

AbstractResponseMessage(j) ==
    AbstractMessage(j) \o <<NumberField(j, "status", Int \ {-1})>>

ErrorResponseMessage(j) == AbstractResponseMessage(j) \o <<TypedField(j, "error")>>

SuccessResponseMessage(j) == AbstractResponseMessage(j)

PushAccount(a) ==
    <<StringField(a, "account_id"), StringField(a, "node"), StringField(a, "secret"),
      TypedField(a, "success")>>

SuccessSetPushAccountsMessage(j) ==
    LET accounts == ListField(j, "accounts")
    IN SuccessResponseMessage(j)
          \o [k \in DOMAIN accounts |-> FirstFault(PushAccount(accounts[k]))]
          \o <<IF "accounts" \in DOMAIN j /\ j["accounts"] = <<>> THEN "invalid" ELSE "ok",
               StringField(j, "push_bare_jid")>>

PushMessage(j) ==
    AbstractMessage(j) \o <<StringField(j, "account_id"), TypedField(j, "message_count"),
                            TypedField(j, "pending_subscription_count")>>

TestPushMessage(j) == AbstractMessage(j)

-----------------------------------------------------------------------------
(* Parser.                                                                 *)

\* The class of a document's message; "null" when parse_json returns early.
MessageType(j) ==
    IF "action" \notin DOMAIN j THEN "null"
    ELSE CASE j["action"] = "set_channel_uri" -> "SET_CHANNEL_URI"
           [] j["action"] = "set_push_accounts" -> "SET_PUSH_ACCOUNT"
           [] j["action"] = "request_test_push" -> "REQUEST_TEST_PUSH"
           [] j["action"] = "response" /\ "status" \in DOMAIN j ->
                 CASE j["status"] = 1 /\ "accounts" \in DOMAIN j -> "SUCCESS_SET_PUSH_ACCOUNT"
                   [] j["status"] = 1 /\ "accounts" \notin DOMAIN j -> "SUCCESS_RESPONSE"
                   [] j["status"] = 0 -> "ERROR_RESPONSE"
                   [] OTHER -> "null"
           [] OTHER -> "null"

from_json(type, j) ==
    CASE type = "SET_CHANNEL_URI" -> FirstFault(SetChannelUriMessage(j))
      [] type = "SET_PUSH_ACCOUNT" -> FirstFault(SetPushAccountsMessage(j))
      [] type = "REQUEST_TEST_PUSH" -> FirstFault(RequestTestPushMessage(j))
      [] type = "SUCCESS_RESPONSE" -> FirstFault(SuccessResponseMessage(j))
      [] type = "ERROR_RESPONSE" -> FirstFault(ErrorResponseMessage(j))
      [] type = "SUCCESS_SET_PUSH_ACCOUNT" -> FirstFault(SuccessSetPushAccountsMessage(j))
      [] type = "PUSH" -> FirstFault(PushMessage(j))
      [] type = "TEST_PUSH" -> FirstFault(TestPushMessage(j))

\* Mutant: parse only catches parse_error.
parse_catching_parse_error(j) ==
    LET type == MessageType(j)
    IN IF type = "null" THEN "null"
       ELSE IF from_json(type, j) = "ok" THEN type ELSE "abort"

\* parse: a null pointer ("null"), the failed assertion of parse_json ("abort"), or
\* the type of the message.
parse(j) ==
    LET type == MessageType(j)
    IN CASE type = "null" -> "null"
         [] type # "null" /\ from_json(type, j) = "throws" -> "null"
         [] type # "null" /\ from_json(type, j) = "invalid" -> "abort"
         [] OTHER -> type

-----------------------------------------------------------------------------
(* to_json of the messages the server sends.                               *)

AbstractMessage_to_json(action) == [version |-> VERSION, action |-> action]
AbstractResponse_to_json(status) ==
    [version |-> VERSION, action |-> "response", status |-> status]

SuccessResponse_to_json == AbstractResponse_to_json(1)
ErrorResponse_to_json(error) ==
    [version |-> VERSION, action |-> "response", status |-> 0, error |-> error]
SuccessSetPushAccounts_to_json(accounts, jid) ==
    [version |-> VERSION, action |-> "response", status |-> 1, push_bare_jid |-> jid,
     accounts |-> accounts]
\* Mutant: the field has another name than the one that is read.
Push_to_json_bare_jid(account, messages, subscriptions) ==
    [version |-> VERSION, action |-> "push", bare_jid |-> account,
     message_count |-> messages, pending_subscription_count |-> subscriptions]

Push_to_json(account, messages, subscriptions) ==
    [version |-> VERSION, action |-> "push", account_id |-> account,
     message_count |-> messages, pending_subscription_count |-> subscriptions]
TestPush_to_json == AbstractMessage_to_json("test_push")

-----------------------------------------------------------------------------
(* What the parser is judged by.                                           *)

\* What README and the tests say a request is, written without the parser: which
\* fields it has and what is in them.
Text(j, f) == f \in DOMAIN j /\ j[f] \notin {Wrong, ""}
Request(j) == "version" \in DOMAIN j /\ j["version"] \in 1..2 /\ Text(j, "action")
WellFormed(action, j) ==
    /\ Request(j) /\ j["action"] = action /\ Text(j, "device_id")
    /\ action = "set_channel_uri" => Text(j, "channel_uri")
    /\ action = "set_push_accounts" =>
          /\ "accounts" \in DOMAIN j /\ j["accounts"] # Wrong
          /\ \A a \in ToSet(j["accounts"]) : Text(a, "account_id")

Actions == {"set_channel_uri", "set_push_accounts", "request_test_push"}

\* A message of a known class that lacks a field of its class, or has it empty or out of
\* range. No account can be read from a list that is none, nor from an empty one.
Incomplete(j) ==
    LET empty(f) == f \notin DOMAIN j \/ j[f] = ""
        unlisted(fs) ==
            \/ "accounts" \notin DOMAIN j \/ j["accounts"] = Wrong
            \/ \E a \in ToSet(j["accounts"]) : \E f \in fs : f \notin DOMAIN a \/ a[f] = ""
    IN \/ "version" \notin DOMAIN j \/ j["version"] \notin 1..2 \union {Wrong}
       \/ j["action"] \in Actions /\ empty("device_id")
       \/ j["action"] = "set_channel_uri" /\ empty("channel_uri")
       \/ j["action"] = "set_push_accounts" /\ unlisted({"account_id"})
       \/ j["action"] = "response" /\ j["status"] = 0 /\ "error" \notin DOMAIN j
       \/ /\ j["action"] = "response" /\ j["status"] = 1 /\ "accounts" \in DOMAIN j
          /\ \/ j["accounts"] = <<>> \/ unlisted({"account_id", "node", "secret"})
             \/ \E a \in ToSet(j["accounts"]) : "success" \notin DOMAIN a
             \/ empty("push_bare_jid")

\* The class a message was written as.
AnswerType(a) ==
    CASE "error" \in DOMAIN a -> "ERROR_RESPONSE"
      [] "accounts" \in DOMAIN a -> "SUCCESS_SET_PUSH_ACCOUNT"
      [] OTHER -> "SUCCESS_RESPONSE"

=============================================================================
