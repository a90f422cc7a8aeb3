------------------------------ MODULE WnsToken ------------------------------
(***************************************************************************)
(* WnsClient: one access token for the Windows push service, kept in a     *)
(* shared_ptr that three threads read and replace without a lock, and in a *)
(* Redis key that outlives the process.                                    *)
(*                                                                         *)
(*   push   loads the token at start and then looks once a second whether  *)
(*          it is still valid (PushServer::check_setup_wns)                *)
(*   asio   sends the test pushes; it catches what a handler throws        *)
(*   xmpp   sends the pushes for PubSub events; it catches nothing         *)
(*                                                                         *)
(* A token is what the code can tell of it: "none" is a null pointer,      *)
(* "valid" and "expired" go by the clock, and "garbage" is unexpired but   *)
(* read from freed memory. The Redis key is "none", a "string", a list of  *)
(* three elements ("token", "garbage"), or a list of more ("long").        *)
(*                                                                         *)
(* Two threads in an unsynchronised access are undefined behaviour: the    *)
(* model chooses between the old value, freed memory and the process dying.*)
(*                                                                         *)
(* Definitions whose comment starts with "Mutant" are wrong on purpose, to *)
(* see that the properties notice. No action uses them.                    *)
(***************************************************************************)
EXTENDS Naturals

CONSTANT Senders  \* the threads that send: a subset of {"asio", "xmpp"}

ASSUME SendersAssumption == Senders \subseteq {"asio", "xmpp"}

VARIABLES
    up,         \* the process runs
    token,      \* WnsClient::token
    store, ttl, \* the Redis key "WNS" and whether it has an expiry date
    pc,         \* where each thread is
    caller,     \* what request_new_token returns to
    answer,     \* the token in the answer to request_new_token's post
    object,     \* whether the token a thread holds references into still lives
    header,     \* the Authorization header of a notification: "genuine", "garbage"
    retry,      \* retryCount
    \* History.
    response,   \* what the latest retry of the notification is due to
    crowded,    \* a thread replaced the token while another one used it
    failed      \* a crash, a Redis error or an answer of the wrong type happened

sendVars == <<header, retry, response>>
vars == <<up, token, store, ttl, pc, caller, answer, object, sendVars, crowded, failed>>

Threads == Senders \union {"push"}
MaxRetries == 3
Lists == {"token", "garbage", "long"}

\* Where request_new_token reads or writes the pointer or what it points to ...
Renewing == {"assign", "test", "set", "del", "rpush", "expireat"}
\* ... and where the others do.
Using == Renewing \union {"check", "valid", "header"}

Crowd == \E s, t \in Threads : s # t /\ pc[s] \in Renewing /\ pc[t] \in Using

Init ==
    /\ up = TRUE /\ token = "none" /\ store = "none" /\ ttl = FALSE
    /\ pc = [t \in Threads |-> IF t = "push" THEN "load" ELSE "off"]
    /\ caller = [t \in Threads |-> "none"]
    /\ answer = [t \in Threads |-> "none"]
    /\ object = [t \in Threads |-> "none"]
    /\ header = [t \in Senders |-> "none"]
    /\ retry = [t \in Senders |-> 0]
    /\ response = [t \in Senders |-> "none"]
    /\ crowded = FALSE /\ failed = FALSE

Goto(t, to) == pc' = [pc EXCEPT ![t] = to]
Step(t, from, to) == pc[t] = from /\ Goto(t, to)

\* The process is gone, with everything in its memory.
Die ==
    /\ up' = FALSE /\ token' = "none"
    /\ pc' = [t \in Threads |-> "off"]
    /\ caller' = [t \in Threads |-> "none"]
    /\ answer' = [t \in Threads |-> "none"]
    /\ object' = [t \in Threads |-> "none"]
    /\ header' = [t \in Senders |-> "none"]
    /\ retry' = [t \in Senders |-> 0]
    /\ response' = [t \in Senders |-> "none"]
    /\ UNCHANGED <<store, ttl>>

\* send_raw_notification returns.
Done(t) ==
    /\ Goto(t, "idle")
    /\ header' = [header EXCEPT ![t] = "none"]
    /\ retry' = [retry EXCEPT ![t] = 0]
    /\ response' = [response EXCEPT ![t] = "none"]

\* request_new_token is over, one way or the other.
Forget(t) ==
    /\ caller' = [caller EXCEPT ![t] = "none"]
    /\ answer' = [answer EXCEPT ![t] = "none"]
    /\ object' = [object EXCEPT ![t] = "none"]

\* An exception ends the request on asio and the process on the other threads.
Throw(t) ==
    IF t = "asio" THEN Done(t) /\ Forget(t) /\ UNCHANGED <<up, token, store, ttl>> ELSE Die

\* Another thread is just about to free the token this one looks at.
Racing(t) == \E s \in Threads \ {t} : pc[s] = "assign"

\* Mutant: the pointer is not looked at.
is_token_valid_unchecked == token # "expired"
is_token_valid == token \in {"valid", "garbage"}

-----------------------------------------------------------------------------
(* request_new_token                                                       *)

Request(t, from, returnTo) ==
    /\ Step(t, from, "request")
    /\ caller' = [caller EXCEPT ![t] = returnTo]
    /\ UNCHANGED <<up, token, store, ttl, answer, object, sendVars, failed>>

\* Mutant: a retry does not count.
AgainUncounted(t, r) ==
    /\ Goto(t, "post")
    /\ response' = [response EXCEPT ![t] = r]
    /\ UNCHANGED <<header, retry>>

\* Mutant: one retry more.
AgainOnceMore(t, r) ==
    IF retry[t] = MaxRetries THEN Done(t)
      ELSE /\ Goto(t, "post")
           /\ retry' = [retry EXCEPT ![t] = @ + 1]
           /\ response' = [response EXCEPT ![t] = r]
           /\ UNCHANGED header

\* The loop of send_raw_notification goes on with response r, or is over.
Again(t, r) ==
    IF retry[t] + 1 = MaxRetries THEN Done(t)
      ELSE /\ Goto(t, "post")
           /\ retry' = [retry EXCEPT ![t] = @ + 1]
           /\ response' = [response EXCEPT ![t] = r]
           /\ UNCHANGED header

\* What the caller does with the result of request_new_token.
Return(t, result) ==
    /\ Forget(t)
    /\ CASE caller[t] = "first" -> Goto(t, IF result THEN "pause" ELSE "sleep") /\ UNCHANGED sendVars
         [] caller[t] = "second" -> Goto(t, "pause") /\ UNCHANGED sendVars
         [] caller[t] \in {"send", "refused"} /\ ~result -> Done(t)
         [] caller[t] = "send" /\ result -> Goto(t, "header") /\ UNCHANGED sendVars
         [] caller[t] = "refused" /\ result -> Again(t, "renewed")

\* 200 with a token, or with something that is not JSON or lacks a field.
Granted(t, a) ==
    /\ Step(t, "request", "assign")
    /\ answer' = [answer EXCEPT ![t] = a]
    /\ UNCHANGED <<up, token, store, ttl, caller, object, sendVars, failed>>

\* Any other status code, or no answer at all.
Denied(t) ==
    /\ pc[t] = "request"
    /\ Return(t, FALSE)
    /\ UNCHANGED <<up, token, store, ttl, failed>>

\* 200 with a field of the wrong type: from_response only catches parse_error.
WrongType(t) == pc[t] = "request" /\ Throw(t) /\ failed' = TRUE

\* token = ...: the old object is freed under whoever holds references to it.
Assign(t) ==
    /\ Step(t, "assign", "test")
    /\ token' = answer[t]
    /\ object' = [s \in Threads |-> IF object[s] = "live" THEN "freed" ELSE object[s]]
    /\ UNCHANGED <<up, store, ttl, caller, answer, sendVars, failed>>

TestToken(t) ==
    /\ pc[t] = "test"
    /\ IF token = "none" THEN Return(t, FALSE)
                         ELSE Goto(t, "set") /\ UNCHANGED <<caller, answer, object, sendVars>>
    /\ UNCHANGED <<up, token, store, ttl, failed>>

\* store_token_in_db takes references to the token's fields; SET.
SetKey(t) ==
    \/ /\ token # "none"
       /\ Step(t, "set", "del")
       /\ object' = [object EXCEPT ![t] = "live"]
       /\ store' = "string" /\ ttl' = FALSE
       /\ UNCHANGED <<up, token, caller, answer, sendVars, failed>>
    \/ pc[t] = "set" /\ token = "none" /\ Die /\ UNCHANGED failed

\* Mutant: the key that was set is kept.
KeepKey(t) ==
    /\ Step(t, "del", "rpush")
    /\ UNCHANGED <<up, token, store, ttl, caller, answer, object, sendVars, failed>>

\* DEL
DeleteKey(t) ==
    /\ Step(t, "del", "rpush")
    /\ store' = "none" /\ ttl' = FALSE
    /\ UNCHANGED <<up, token, caller, answer, object, sendVars, failed>>

\* Mutant: the token and its type are written in the wrong order.
PushKeySwapped(t) ==
    /\ Step(t, "rpush", "expireat")
    /\ store' = IF store # "none" THEN "long" ELSE "garbage"
    /\ UNCHANGED <<up, token, ttl, caller, answer, object, sendVars, failed>>

\* RPUSH of three elements, through references that may dangle by now.
PushKey(t) ==
    \/ /\ store # "string"
       /\ Step(t, "rpush", "expireat")
       /\ store' \in IF store # "none" THEN {"long"}
                     ELSE {"token"} \union (IF object[t] = "freed" THEN {"garbage"} ELSE {})
       /\ UNCHANGED <<up, token, ttl, caller, answer, object, sendVars, failed>>
    \/ pc[t] = "rpush" /\ store = "string" /\ Throw(t) /\ UNCHANGED failed
    \/ pc[t] = "rpush" /\ object[t] = "freed" /\ Die /\ UNCHANGED failed

\* EXPIREAT; then the new token is logged, whatever it is by now.
ExpireKeyAt(t) ==
    /\ pc[t] = "expireat"
    /\ IF token # "none"
         THEN /\ Return(t, TRUE)
              /\ ttl' = (store # "none")
              /\ UNCHANGED <<up, token, store, failed>>
         ELSE Die /\ UNCHANGED failed

RenewStep(t) ==
    \/ \E a \in {"valid", "none"} : Granted(t, a)
    \/ Denied(t) \/ WrongType(t) \/ Assign(t) \/ TestToken(t)
    \/ SetKey(t) \/ DeleteKey(t) \/ PushKey(t) \/ ExpireKeyAt(t)

-----------------------------------------------------------------------------
(* push: load_token_from_db and check_setup_wns                            *)

\* Three LRANGEs, before any other thread has been started. A key that is a string
\* makes the first one throw.
LoadToken ==
    \/ /\ pc["push"] = "load" /\ store # "string"
       /\ pc' = [t \in Threads |-> IF t = "push" THEN "pause" ELSE "idle"]
       /\ token' \in CASE store = "token" -> {"valid", "expired"}
                       [] store = "garbage" -> {"garbage", "expired"}
                       [] OTHER -> {"none"}
       /\ UNCHANGED <<up, store, ttl, caller, answer, object, sendVars, failed>>
    \/ pc["push"] = "load" /\ store = "string" /\ Die /\ UNCHANGED failed

\* Once a second.
WakeUp ==
    /\ Step("push", "pause", "check")
    /\ UNCHANGED <<up, token, store, ttl, caller, answer, object, sendVars, failed>>

\* Mutant: only a missing token is asked for, and not one that has expired.
CheckTokenExists ==
    \/ token # "none" /\ Step("push", "check", "pause")
       /\ UNCHANGED <<up, token, store, ttl, caller, answer, object, sendVars, failed>>
    \/ token = "none" /\ Request("push", "check", "first")

CheckToken ==
    \/ is_token_valid /\ Step("push", "check", "pause")
       /\ UNCHANGED <<up, token, store, ttl, caller, answer, object, sendVars, failed>>
    \/ ~is_token_valid /\ Request("push", "check", "first")
    \/ pc["push"] = "check" /\ Racing("push") /\ Die /\ UNCHANGED failed

\* Ten seconds after a request that failed.
RequestAgain == Request("push", "sleep", "second")

PushStep == LoadToken \/ WakeUp \/ CheckToken \/ RequestAgain \/ RenewStep("push")

-----------------------------------------------------------------------------
(* asio and xmpp: send_raw_notification                                    *)

\* A test push is requested, or an event for a registered node has come.
Send(t) ==
    /\ Step(t, "idle", "valid")
    /\ UNCHANGED <<up, token, store, ttl, caller, answer, object, sendVars, failed>>

TestValid(t) ==
    \/ is_token_valid /\ Step(t, "valid", "header")
       /\ UNCHANGED <<up, token, store, ttl, caller, answer, object, sendVars, failed>>
    \/ ~is_token_valid /\ Request(t, "valid", "send")
    \/ pc[t] = "valid" /\ Racing(t) /\ Die /\ UNCHANGED failed

\* The header is built once, from the token as it is then, for all the retries.
BuildHeader(t) ==
    \/ /\ token # "none"
       /\ Step(t, "header", "post")
       /\ \E h \in {IF token = "garbage" THEN "garbage" ELSE "genuine"}
                     \union (IF Racing(t) THEN {"garbage"} ELSE {}) :
             header' = [header EXCEPT ![t] = h]
       /\ UNCHANGED <<up, token, store, ttl, caller, answer, object, retry, response, failed>>
    \/ pc[t] = "header" /\ (token = "none" \/ Racing(t)) /\ Die /\ UNCHANGED failed

\* Mutant: a status code is only looked at for its class.
handle_response_code_coarse(r) ==
    IF r = "ok" THEN "SUCCESS" ELSE IF r = "unauthorized" THEN "RENEW" ELSE "RETRY"

\* handle_response_code; no answer at all ("lost") is tried again too.
handle_response_code(r) ==
    CASE r = "ok" -> "SUCCESS"
      [] r = "unauthorized" -> "RENEW"
      [] r \in {"unavailable", "lost"} -> "RETRY"
      [] OTHER -> "ERROR"

\* cpr::Post and what follows from its response.
Post(t, r) ==
    /\ pc[t] = "post"
    /\ r = "ok" => header[t] = "genuine"
    /\ CASE handle_response_code(r) = "RETRY" -> Again(t, r) /\ UNCHANGED caller
         [] handle_response_code(r) = "RENEW" ->
               /\ Goto(t, "request")
               /\ caller' = [caller EXCEPT ![t] = "refused"]
               /\ UNCHANGED sendVars
         [] OTHER -> Done(t) /\ UNCHANGED caller
    /\ UNCHANGED <<up, token, store, ttl, answer, object, failed>>

SendStep(t) ==
    \/ TestValid(t) \/ BuildHeader(t) \/ RenewStep(t)
    \/ \E r \in {"ok", "unauthorized", "unavailable", "lost", "other"} : Post(t, r)

-----------------------------------------------------------------------------
(* The environment.                                                        *)

\* The clock reaches the date the token expires at.
Expire ==
    /\ is_token_valid
    /\ token' = "expired"
    /\ UNCHANGED <<up, store, ttl, pc, caller, answer, object, sendVars, failed>>

\* Redis drops the key at its expiry date.
Evict ==
    /\ ttl
    /\ store' = "none" /\ ttl' = FALSE
    /\ UNCHANGED <<up, token, pc, caller, answer, object, sendVars, failed>>

\* A Redis command throws.
RedisFails(t) ==
    /\ pc[t] \in {"load", "set", "del", "rpush", "expireat"}
    /\ Throw(t)
    /\ failed' = TRUE

Crash == up /\ Die /\ failed' = TRUE

Restart ==
    /\ ~up
    /\ up' = TRUE
    /\ Goto("push", "load")
    /\ UNCHANGED <<token, store, ttl, caller, answer, object, sendVars, failed>>

Environment ==
    \/ \E t \in Senders : Send(t)
    \/ \E t \in Threads : RedisFails(t)
    \/ Expire \/ Evict \/ Crash \/ Restart

-----------------------------------------------------------------------------

Observed == crowded' = (crowded \/ Crowd')

Push == PushStep /\ Observed
Sender(t) == SendStep(t) /\ Observed
PushGranted == Granted("push", "valid") /\ Observed

Next == Push \/ (\E t \in Senders : Sender(t)) \/ (Environment /\ Observed)

Spec == Init /\ [][Next]_vars

\* No thread is suspended for ever, a post is answered or given up by cpr at some
\* time, and a login service that is asked again and again grants a token at last.
FairSpec ==
    /\ Spec
    /\ WF_vars(Push)
    /\ \A t \in Senders : WF_vars(Sender(t))
    /\ SF_vars(PushGranted)

-----------------------------------------------------------------------------
(* Properties.                                                             *)

\* TypeOK: what the variables range over; in particular no notification is posted
\* more than three times.
TypeOK ==
    /\ up \in BOOLEAN /\ ttl \in BOOLEAN /\ crowded \in BOOLEAN /\ failed \in BOOLEAN
    /\ token \in {"none", "valid", "expired", "garbage"}
    /\ store \in {"none", "string"} \union Lists
    /\ pc \in [Threads -> Using \union {"off", "load", "pause", "sleep", "idle", "post",
                                        "request"}]
    /\ caller \in [Threads -> {"none", "first", "second", "send", "refused"}]
    /\ answer \in [Threads -> {"none", "valid"}]
    /\ object \in [Threads -> {"none", "live", "freed"}]
    /\ header \in [Senders -> {"none", "genuine", "garbage"}]
    /\ retry \in [Senders -> 0..(MaxRetries - 1)]
    /\ response \in [Senders -> {"none", "unavailable", "lost", "renewed", "other"}]

\* Startable: the key is a string, on which the next start would fail, only between
\* SET and DEL of set_wns_token, unless two threads met over the token or something
\* failed: the whole of what makes load_token_from_db throw at every start.
Startable ==
    store = "string" => crowded \/ failed \/ \E t \in Threads : pc[t] = "del"

\* Survives: answers without a token, refused tokens, lost posts and tokens that
\* expire at any moment never end the process by themselves; it takes two threads at
\* the token at once or a failure (the null checks in is_token_valid and
\* request_new_token, which no lock covers).
Survives == ~up => crowded \/ failed

\* HeaderGenuine: every header is made of a token the login service granted, unless
\* two threads have met over the token, be it in an earlier life of the process.
HeaderGenuine == \A t \in Senders : header[t] = "garbage" => crowded

\* RetriesJustified: a notification is only posted again when WNS did not answer, was
\* unavailable, or refused a token that has been renewed since (handle_response_code).
RetriesJustified ==
    \A t \in Senders : pc[t] = "post" /\ retry[t] > 0 =>
        response[t] \in {"unavailable", "lost", "renewed"}

\* SendsEnd: every notification is posted or given up, whatever WNS answers, so that
\* the thread can serve the next one (the retries of send_raw_notification).
SendsEnd ==
    \A t \in Senders : (pc[t] \notin {"off", "idle"}) ~> (pc[t] \in {"off", "idle"})

\* TokenRenewed: an expired or missing token is replaced, without waiting for a
\* notification to be sent (check_setup_wns).
TokenRenewed == (up /\ ~is_token_valid) ~> (is_token_valid \/ ~up)

=============================================================================
