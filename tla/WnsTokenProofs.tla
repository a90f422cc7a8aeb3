--------------------------- MODULE WnsTokenProofs ---------------------------
(***************************************************************************)
(* Proofs about WnsToken, for one sending thread, both or none.            *)
(***************************************************************************)
EXTENDS WnsToken, TLAPS

-----------------------------------------------------------------------------
(* Type correctness.                                                       *)

\* request_new_token returns to a place of the thread that called it.
CallersKnown ==
    \A t \in Threads :
        /\ caller[t] \in IF t = "push" THEN {"none", "first", "second"}
                                       ELSE {"none", "send", "refused"}
        /\ pc[t] \in Renewing \union {"request"} => caller[t] # "none"

TypeInv == TypeOK /\ CallersKnown

Places == Using \union {"off", "load", "pause", "sleep", "idle", "post", "request"}

\* What the threads have in memory.
ThreadsTyped ==
    /\ pc \in [Threads -> Places]
    /\ caller \in [Threads -> {"none", "first", "second", "send", "refused"}]
    /\ answer \in [Threads -> {"none", "valid"}]
    /\ object \in [Threads -> {"none", "live", "freed"}]
    /\ header \in [Senders -> {"none", "genuine", "garbage"}]
    /\ retry \in [Senders -> 0..(MaxRetries - 1)]
    /\ response \in [Senders -> {"none", "unavailable", "lost", "renewed", "other"}]
    /\ CallersKnown

\* What they share.
SharedTyped ==
    /\ up \in BOOLEAN /\ ttl \in BOOLEAN
    /\ token \in {"none", "valid", "expired", "garbage"}
    /\ store \in {"none", "string"} \union Lists

\* What is only there for the properties.
HistoryTyped == crowded \in BOOLEAN /\ failed \in BOOLEAN

LEMMA TypeInvParts == TypeInv <=> ThreadsTyped /\ SharedTyped /\ HistoryTyped
BY DEF TypeInv, TypeOK, Places, ThreadsTyped, SharedTyped, HistoryTyped

LEMMA ThreadNames == Senders \subseteq Threads /\ "push" \in Threads /\ "push" \notin Senders
BY SendersAssumption DEF Threads

\* The places of a thread from which nothing returns to a caller.
LEMMA MovesTyped ==
    ASSUME ThreadsTyped, NEW t \in Threads,
           NEW to \in {"off", "load", "pause", "sleep", "idle", "post", "check", "valid", "header"},
           Goto(t, to), UNCHANGED <<caller, answer, object, sendVars>>
    PROVE  ThreadsTyped'
BY DEF ThreadsTyped, CallersKnown, Goto, Places, Using, Renewing, sendVars

LEMMA RenewalMovesTyped ==
    ASSUME ThreadsTyped, NEW t \in Threads,
           NEW to \in Renewing \union {"request"}, caller[t] # "none",
           Goto(t, to), UNCHANGED <<caller, answer, object, sendVars>>
    PROVE  ThreadsTyped'
BY DEF ThreadsTyped, CallersKnown, Goto, Places, Using, Renewing, sendVars

LEMMA DieTyped ==
    ASSUME SharedTyped, Die
    PROVE  ThreadsTyped' /\ SharedTyped'
<1>1. SharedTyped'
  BY DEF SharedTyped, Die
<1>2. pc' \in [Threads -> {"off"}] /\ caller' \in [Threads -> {"none"}]
  BY DEF Die
<1>3. answer' \in [Threads -> {"none"}] /\ object' \in [Threads -> {"none"}]
  BY DEF Die
<1>4. header' \in [Senders -> {"none"}] /\ response' \in [Senders -> {"none"}]
  BY DEF Die
<1>5. retry' \in [Senders -> {0}]
  BY DEF Die
<1> QED
  BY <1>1, <1>2, <1>3, <1>4, <1>5
  DEF ThreadsTyped, CallersKnown, Places, Using, Renewing, MaxRetries

LEMMA DoneTyped ==
    ASSUME ThreadsTyped, NEW t \in Threads, Done(t),
           \/ UNCHANGED <<caller, answer, object>>
           \/ Forget(t)
    PROVE  ThreadsTyped'
<1>1. pc' = [pc EXCEPT ![t] = "idle"]
  BY DEF Done, Goto
<1>2. pc' \in [Threads -> Places]
  BY <1>1 DEF ThreadsTyped, Places
<1>3. header' \in [Senders -> {"none", "genuine", "garbage"}]
  BY DEF ThreadsTyped, Done
<1>4. response' \in [Senders -> {"none", "unavailable", "lost", "renewed", "other"}]
  BY DEF ThreadsTyped, Done
<1>5. retry' \in [Senders -> 0..(MaxRetries - 1)]
  <2>1. 0 \in 0..(MaxRetries - 1)
    BY DEF MaxRetries
  <2> QED
    BY <2>1 DEF ThreadsTyped, Done
<1>6. /\ caller' = caller \/ caller' = [caller EXCEPT ![t] = "none"]
      /\ answer' \in [Threads -> {"none", "valid"}]
      /\ object' \in [Threads -> {"none", "live", "freed"}]
  BY DEF ThreadsTyped, Forget
<1>7. caller' \in [Threads -> {"none", "first", "second", "send", "refused"}]
  BY <1>6 DEF ThreadsTyped
<1>8. CallersKnown'
  BY <1>1, <1>6 DEF ThreadsTyped, CallersKnown, Renewing
<1> QED
  BY <1>2, <1>3, <1>4, <1>5, <1>6, <1>7, <1>8 DEF ThreadsTyped

LEMMA ThrowTyped ==
    ASSUME ThreadsTyped, SharedTyped, NEW t \in Threads, Throw(t)
    PROVE  ThreadsTyped' /\ SharedTyped'
<1>1. CASE t = "asio"
  <2>1. SharedTyped'
    BY <1>1 DEF Throw, SharedTyped
  <2> QED
    BY <1>1, <2>1, DoneTyped DEF Throw
<1>2. CASE t # "asio"
  BY <1>2, DieTyped DEF Throw
<1> QED
  BY <1>1, <1>2

LEMMA AgainTyped ==
    ASSUME ThreadsTyped, NEW t \in Senders, NEW r \in {"unavailable", "lost", "renewed"},
           Again(t, r),
           \/ UNCHANGED <<caller, answer, object>>
           \/ Forget(t)
    PROVE  ThreadsTyped'
<1>1. t \in Threads
  BY ThreadNames
<1>2. CASE retry[t] + 1 = MaxRetries
  BY <1>1, <1>2, DoneTyped DEF Again
<1>3. CASE retry[t] + 1 # MaxRetries
  <2>1. pc' = [pc EXCEPT ![t] = "post"] /\ header' = header
    BY <1>3 DEF Again, Goto
  <2>2. retry[t] \in 0..2
    BY DEF ThreadsTyped, MaxRetries
  <2>3. retry' \in [Senders -> 0..(MaxRetries - 1)]
    BY <1>3, <2>2 DEF ThreadsTyped, Again, MaxRetries
  <2>4. response' \in [Senders -> {"none", "unavailable", "lost", "renewed", "other"}]
    BY <1>3 DEF ThreadsTyped, Again
  <2>5. /\ caller' = caller \/ caller' = [caller EXCEPT ![t] = "none"]
        /\ answer' \in [Threads -> {"none", "valid"}]
        /\ object' \in [Threads -> {"none", "live", "freed"}]
    BY DEF ThreadsTyped, Forget
  <2>6. pc' \in [Threads -> Places]
    BY <2>1 DEF ThreadsTyped, Places
  <2>7. caller' \in [Threads -> {"none", "first", "second", "send", "refused"}]
    BY <2>5 DEF ThreadsTyped
  <2>8. CallersKnown'
    BY <1>1, <2>1, <2>5 DEF ThreadsTyped, CallersKnown, Renewing
  <2> QED
    BY <2>1, <2>3, <2>4, <2>5, <2>6, <2>7, <2>8 DEF ThreadsTyped
<1> QED
  BY <1>2, <1>3

\* Where request_new_token returns to.
LEMMA ReturnTyped ==
    ASSUME ThreadsTyped, NEW t \in Threads, NEW result \in BOOLEAN,
           caller[t] # "none", Return(t, result)
    PROVE  ThreadsTyped'
<1>1. Forget(t)
  BY DEF Return
<1>2. \/ caller[t] = "first" \/ caller[t] = "second"
      \/ t \in Senders /\ caller[t] = "send"
      \/ t \in Senders /\ caller[t] = "refused"
  BY DEF ThreadsTyped, CallersKnown, Threads
<1>3. CASE \E to \in {"pause", "sleep", "header"} : Goto(t, to) /\ UNCHANGED sendVars
  <2>1. PICK to \in {"pause", "sleep", "header"} : Goto(t, to) /\ UNCHANGED sendVars
    BY <1>3
  <2>2. /\ caller' = [caller EXCEPT ![t] = "none"]
        /\ answer' \in [Threads -> {"none", "valid"}]
        /\ object' \in [Threads -> {"none", "live", "freed"}]
    BY <1>1 DEF ThreadsTyped, Forget
  <2> QED
    BY <2>1, <2>2 DEF ThreadsTyped, CallersKnown, Goto, Places, Using, Renewing, sendVars
<1>4. CASE t \in Senders /\ Again(t, "renewed")
  BY <1>1, <1>4, AgainTyped
<1>5. CASE Done(t)
  BY <1>1, <1>5, DoneTyped
<1>6. \/ \E to \in {"pause", "sleep", "header"} : Goto(t, to) /\ UNCHANGED sendVars
      \/ t \in Senders /\ Again(t, "renewed")
      \/ Done(t)
  BY <1>2 DEF Return
<1> QED
  BY <1>3, <1>4, <1>5, <1>6

LEMMA RenewStepTyped ==
    ASSUME TypeInv, NEW t \in Threads, RenewStep(t)
    PROVE  ThreadsTyped' /\ SharedTyped' /\ failed' \in BOOLEAN
<1> USE TypeInvParts
<1>1. CASE \E a \in {"valid", "none"} : Granted(t, a)
  <2>1. PICK a \in {"valid", "none"} : Granted(t, a)
    BY <1>1
  <2>2. answer' \in [Threads -> {"none", "valid"}]
    BY <2>1 DEF ThreadsTyped, Granted
  <2>3. pc[t] = "request" /\ Goto(t, "assign") /\ UNCHANGED <<caller, object, sendVars>>
    BY <2>1 DEF Granted, Step
  <2>4. caller[t] # "none"
    BY <2>3 DEF ThreadsTyped, CallersKnown
  <2>5. ThreadsTyped'
    BY <2>2, <2>3, <2>4
    DEF ThreadsTyped, CallersKnown, Goto, Places, Using, Renewing, sendVars
  <2> QED
    BY <2>1, <2>5 DEF Granted, SharedTyped, HistoryTyped
<1>2. CASE Denied(t)
  <2>1. caller[t] # "none"
    BY <1>2 DEF ThreadsTyped, CallersKnown, Denied
  <2> QED
    BY <1>2, <2>1, ReturnTyped DEF Denied, SharedTyped, HistoryTyped
<1>3. CASE WrongType(t)
  BY <1>3, ThrowTyped DEF WrongType
<1>4. CASE Assign(t)
  <2>1. token' \in {"none", "valid", "expired", "garbage"}
    BY <1>4 DEF Assign, ThreadsTyped
  <2>2. object' \in [Threads -> {"none", "live", "freed"}]
    BY <1>4 DEF Assign, ThreadsTyped
  <2>3. caller[t] # "none"
    BY <1>4 DEF ThreadsTyped, CallersKnown, Assign, Step, Renewing
  <2>4. ThreadsTyped'
    BY <1>4, <2>2, <2>3
    DEF ThreadsTyped, CallersKnown, Assign, Step, Goto, Places, Using, Renewing, sendVars
  <2> QED
    BY <1>4, <2>1, <2>4 DEF Assign, SharedTyped, HistoryTyped
<1>5. CASE TestToken(t)
  <2>1. caller[t] # "none"
    BY <1>5 DEF ThreadsTyped, CallersKnown, TestToken, Renewing
  <2>2. CASE token = "none"
    BY <1>5, <2>1, <2>2, ReturnTyped DEF TestToken, SharedTyped, HistoryTyped
  <2>3. CASE token # "none"
    <3>1. Goto(t, "set") /\ UNCHANGED <<caller, answer, object, sendVars>>
      BY <1>5, <2>3 DEF TestToken
    <3>2. ThreadsTyped'
      BY <2>1, <3>1, RenewalMovesTyped DEF Renewing
    <3> QED
      BY <1>5, <3>2 DEF TestToken, SharedTyped, HistoryTyped
  <2> QED
    BY <2>2, <2>3
<1>6. CASE SetKey(t)
  <2>1. CASE token # "none"
    <3>1. /\ pc[t] = "set" /\ Goto(t, "del") /\ UNCHANGED <<caller, answer, sendVars>>
          /\ store' = "string" /\ ttl' = FALSE /\ UNCHANGED <<up, token, failed>>
      BY <1>6, <2>1 DEF SetKey, Step
    <3>2. object' \in [Threads -> {"none", "live", "freed"}]
      BY <1>6, <2>1 DEF SetKey, ThreadsTyped
    <3>3. ThreadsTyped'
      BY <3>1, <3>2
      DEF ThreadsTyped, CallersKnown, Goto, Places, Using, Renewing, sendVars
    <3> QED
      BY <3>1, <3>3 DEF SharedTyped, HistoryTyped
  <2>2. CASE token = "none"
    BY <1>6, <2>2, DieTyped DEF SetKey, HistoryTyped
  <2> QED
    BY <2>1, <2>2
<1>7. CASE DeleteKey(t)
  <2>1. ThreadsTyped'
    BY <1>7, RenewalMovesTyped DEF DeleteKey, Step, Renewing, ThreadsTyped, CallersKnown
  <2> QED
    BY <1>7, <2>1 DEF DeleteKey, SharedTyped, HistoryTyped
<1>8. CASE PushKey(t)
  <2>1. CASE pc[t] = "rpush" /\ store = "string" /\ Throw(t) /\ UNCHANGED failed
    BY <2>1, ThrowTyped DEF HistoryTyped
  <2>2. CASE pc[t] = "rpush" /\ object[t] = "freed" /\ Die /\ UNCHANGED failed
    BY <2>2, DieTyped DEF HistoryTyped
  <2>3. CASE Step(t, "rpush", "expireat")
             /\ store' \in Lists
             /\ UNCHANGED <<up, token, ttl, caller, answer, object, sendVars, failed>>
    <3>1. ThreadsTyped'
      BY <2>3, RenewalMovesTyped DEF Step, Renewing, ThreadsTyped, CallersKnown
    <3> QED
      BY <2>3, <3>1 DEF SharedTyped, HistoryTyped
  <2> QED
    BY <1>8, <2>1, <2>2, <2>3 DEF PushKey, Lists
<1>9. CASE ExpireKeyAt(t)
  <2>1. caller[t] # "none"
    BY <1>9 DEF ThreadsTyped, CallersKnown, ExpireKeyAt, Renewing
  <2>2. CASE token # "none"
    BY <1>9, <2>1, <2>2, ReturnTyped DEF ExpireKeyAt, SharedTyped, HistoryTyped
  <2>3. CASE token = "none"
    BY <1>9, <2>3, DieTyped DEF ExpireKeyAt, HistoryTyped
  <2> QED
    BY <2>2, <2>3
<1> QED
  BY <1>1, <1>2, <1>3, <1>4, <1>5, <1>6, <1>7, <1>8, <1>9 DEF RenewStep

LEMMA PushStepTyped ==
    ASSUME TypeInv, PushStep
    PROVE  ThreadsTyped' /\ SharedTyped' /\ failed' \in BOOLEAN
<1> USE TypeInvParts, ThreadNames
<1>1. CASE LoadToken
  <2>1. CASE pc["push"] = "load" /\ store = "string" /\ Die /\ UNCHANGED failed
    BY <2>1, DieTyped DEF HistoryTyped
  <2>2. CASE /\ pc' = [t \in Threads |-> IF t = "push" THEN "pause" ELSE "idle"]
             /\ token' \in CASE store = "token" -> {"valid", "expired"}
                             [] store = "garbage" -> {"garbage", "expired"}
                             [] OTHER -> {"none"}
             /\ UNCHANGED <<up, store, ttl, caller, answer, object, sendVars, failed>>
    <3>1. token' \in {"none", "valid", "expired", "garbage"}
      BY <2>2
    <3>2. pc' \in [Threads -> {"pause", "idle"}]
      BY <2>2
    <3>3. ThreadsTyped'
      BY <2>2, <3>2 DEF ThreadsTyped, CallersKnown, Places, Renewing, sendVars
    <3> QED
      BY <2>2, <3>1, <3>3 DEF SharedTyped, HistoryTyped
  <2> QED
    BY <1>1, <2>1, <2>2 DEF LoadToken
<1>2. CASE WakeUp
  BY <1>2, MovesTyped DEF WakeUp, Step, SharedTyped, HistoryTyped
<1>3. ASSUME NEW from, NEW to \in {"first", "second"}, Request("push", from, to)
      PROVE  ThreadsTyped' /\ SharedTyped' /\ failed' \in BOOLEAN
  <2>1. /\ caller' = [caller EXCEPT !["push"] = to]
        /\ Goto("push", "request")
        /\ UNCHANGED <<up, token, store, ttl, answer, object, sendVars, failed>>
    BY <1>3 DEF Request, Step
  <2>2. ThreadsTyped'
    BY <2>1 DEF ThreadsTyped, CallersKnown, Goto, Places, Using, Renewing, sendVars
  <2> QED
    BY <2>1, <2>2 DEF SharedTyped, HistoryTyped
<1>4. CASE CheckToken
  <2>1. CASE Step("push", "check", "pause")
             /\ UNCHANGED <<up, token, store, ttl, caller, answer, object, sendVars, failed>>
    BY <2>1, MovesTyped DEF Step, SharedTyped, HistoryTyped
  <2>2. CASE Die /\ UNCHANGED failed
    BY <2>2, DieTyped DEF HistoryTyped
  <2> QED
    BY <1>3, <1>4, <2>1, <2>2 DEF CheckToken
<1>5. CASE RequestAgain
  BY <1>3, <1>5 DEF RequestAgain
<1> QED
  BY <1>1, <1>2, <1>4, <1>5, RenewStepTyped DEF PushStep

\* What follows from each response to a post.
LEMMA ResponsesHandled ==
    ASSUME NEW t \in Senders, NEW r \in {"ok", "unauthorized", "unavailable", "lost", "other"},
           Post(t, r)
    PROVE  /\ UNCHANGED <<up, token, store, ttl, answer, object, failed>>
           /\ \/ r \in {"unavailable", "lost"} /\ Again(t, r) /\ UNCHANGED caller
              \/ /\ r = "unauthorized"
                 /\ Goto(t, "request")
                 /\ caller' = [caller EXCEPT ![t] = "refused"]
                 /\ UNCHANGED sendVars
              \/ Done(t) /\ UNCHANGED caller
<1>1. CASE r \in {"unavailable", "lost"}
  <2>1. handle_response_code(r) = "RETRY"
    BY <1>1 DEF handle_response_code
  <2> QED
    BY <1>1, <2>1 DEF Post
<1>2. CASE r = "unauthorized"
  <2>1. handle_response_code(r) = "RENEW"
    BY <1>2 DEF handle_response_code
  <2> QED
    BY <1>2, <2>1 DEF Post
<1>3. CASE r \in {"ok", "other"}
  <2>1. handle_response_code(r) \in {"SUCCESS", "ERROR"}
    BY <1>3 DEF handle_response_code
  <2> QED
    BY <2>1 DEF Post
<1> QED
  BY <1>1, <1>2, <1>3

LEMMA SendStepTyped ==
    ASSUME TypeInv, NEW t \in Senders, SendStep(t)
    PROVE  ThreadsTyped' /\ SharedTyped' /\ failed' \in BOOLEAN
<1> USE TypeInvParts, ThreadNames
<1>1. CASE TestValid(t)
  <2>1. CASE Step(t, "valid", "header")
             /\ UNCHANGED <<up, token, store, ttl, caller, answer, object, sendVars, failed>>
    BY <2>1, MovesTyped DEF Step, SharedTyped, HistoryTyped
  <2>2. CASE Request(t, "valid", "send")
    <3>1. /\ caller' = [caller EXCEPT ![t] = "send"]
          /\ Goto(t, "request")
          /\ UNCHANGED <<up, token, store, ttl, answer, object, sendVars, failed>>
      BY <2>2 DEF Request, Step
    <3>2. ThreadsTyped'
      BY <3>1 DEF ThreadsTyped, CallersKnown, Goto, Places, Using, Renewing, sendVars
    <3> QED
      BY <3>1, <3>2 DEF SharedTyped, HistoryTyped
  <2>3. CASE Die /\ UNCHANGED failed
    BY <2>3, DieTyped DEF HistoryTyped
  <2> QED
    BY <1>1, <2>1, <2>2, <2>3 DEF TestValid
<1>2. CASE BuildHeader(t)
  <2>1. CASE Die /\ UNCHANGED failed
    BY <2>1, DieTyped DEF HistoryTyped
  <2>2. CASE \E h \in {"genuine", "garbage"} :
               /\ header' = [header EXCEPT ![t] = h]
               /\ Goto(t, "post")
               /\ UNCHANGED <<up, token, store, ttl, caller, answer, object, retry, response,
                              failed>>
    <3>1. header' \in [Senders -> {"none", "genuine", "garbage"}]
      BY <2>2 DEF ThreadsTyped
    <3>2. ThreadsTyped'
      BY <2>2, <3>1 DEF ThreadsTyped, CallersKnown, Goto, Places, Using, Renewing
    <3> QED
      BY <2>2, <3>2 DEF SharedTyped, HistoryTyped
  <2> QED
    BY <1>2, <2>1, <2>2 DEF BuildHeader, Step
<1>3. ASSUME NEW r \in {"ok", "unauthorized", "unavailable", "lost", "other"}, Post(t, r)
      PROVE  ThreadsTyped' /\ SharedTyped' /\ failed' \in BOOLEAN
  <2>1. SharedTyped' /\ failed' \in BOOLEAN
    BY <1>3, ResponsesHandled DEF SharedTyped, HistoryTyped
  <2>2. CASE r \in {"unavailable", "lost"} /\ Again(t, r) /\ UNCHANGED <<caller, answer, object>>
    BY <2>1, <2>2, AgainTyped
  <2>3. CASE /\ Goto(t, "request") /\ caller' = [caller EXCEPT ![t] = "refused"]
             /\ UNCHANGED <<answer, object, sendVars>>
    <3>1. ThreadsTyped'
      BY <2>3 DEF ThreadsTyped, CallersKnown, Goto, Places, Using, Renewing, sendVars
    <3> QED
      BY <2>1, <3>1
  <2>4. CASE Done(t) /\ UNCHANGED <<caller, answer, object>>
    BY <2>1, <2>4, DoneTyped
  <2> QED
    BY <1>3, <2>2, <2>3, <2>4, ResponsesHandled
<1> QED
  BY <1>1, <1>2, <1>3, RenewStepTyped DEF SendStep

LEMMA EnvironmentTyped ==
    ASSUME TypeInv, Environment
    PROVE  ThreadsTyped' /\ SharedTyped' /\ failed' \in BOOLEAN
<1> USE TypeInvParts, ThreadNames
<1>1. CASE \E t \in Senders : Send(t)
  BY <1>1, MovesTyped DEF Send, Step, SharedTyped, HistoryTyped
<1>2. CASE \E t \in Threads : RedisFails(t)
  BY <1>2, ThrowTyped DEF RedisFails
<1>3. CASE Expire \/ Evict
  BY <1>3 DEF Expire, Evict, ThreadsTyped, CallersKnown, SharedTyped, HistoryTyped, sendVars
<1>4. CASE Crash
  BY <1>4, DieTyped DEF Crash
<1>5. CASE Restart
  <2>1. UNCHANGED <<token, store, ttl, caller, answer, object, sendVars, failed>>
    BY <1>5 DEF Restart
  <2>2. ThreadsTyped'
    BY <1>5, <2>1, MovesTyped DEF Restart
  <2> QED
    BY <1>5, <2>1, <2>2 DEF Restart, SharedTyped, HistoryTyped
<1> QED
  BY <1>1, <1>2, <1>3, <1>4, <1>5 DEF Environment

LEMMA InitTyped == Init => TypeInv
<1> SUFFICES ASSUME Init PROVE TypeInv
  OBVIOUS
<1>1. pc \in [Threads -> Places] /\ CallersKnown
  BY DEF Init, Places, CallersKnown, Renewing
<1>2. retry \in [Senders -> 0..(MaxRetries - 1)]
  BY DEF Init, MaxRetries
<1> QED
  BY <1>1, <1>2, TypeInvParts DEF Init, ThreadsTyped, SharedTyped, HistoryTyped

LEMMA StepTyped == TypeInv /\ [Next]_vars => TypeInv'
<1> SUFFICES ASSUME TypeInv, [Next]_vars PROVE TypeInv'
  OBVIOUS
<1>1. CASE UNCHANGED vars
  BY <1>1 DEF vars, sendVars, TypeInv, TypeOK, CallersKnown, Using, Renewing, Lists
<1>2. CASE Next
  <2>1. crowded' \in BOOLEAN
    BY <1>2 DEF Next, Push, Sender, Observed
  <2>2. ThreadsTyped' /\ SharedTyped' /\ failed' \in BOOLEAN
    BY <1>2, PushStepTyped, SendStepTyped, EnvironmentTyped DEF Next, Push, Sender
  <2> QED
    BY <2>1, <2>2 DEF TypeInv, TypeOK, ThreadsTyped, SharedTyped, Places
<1> QED
  BY <1>1, <1>2

\* TypeCorrect: in every run, with any set of sending threads, the variables have their
\* types; in particular a notification is posted three times at most, also when tokens
\* are refused and renewed in between (send_raw_notification).
THEOREM TypeCorrect == Spec => []TypeOK
<1>1. Spec => []TypeInv
  BY InitTyped, StepTyped, PTL DEF Spec
<1>2. TypeInv => TypeOK
  BY DEF TypeInv
<1> QED
  BY <1>1, <1>2, PTL

-----------------------------------------------------------------------------
(* Retries.                                                                *)

\* What a notification is posted again for stays known until it is over.
RetriesExplained ==
    \A t \in Senders : retry[t] > 0 => response[t] \in {"unavailable", "lost", "renewed"}

RetryInv == TypeInv /\ RetriesExplained

\* A step starts a notification's count again, leaves it alone, or explains it.
CountStep ==
    \A t \in Senders :
        \/ retry'[t] = 0
        \/ retry'[t] = retry[t] /\ response'[t] = response[t]
        \/ response'[t] \in {"unavailable", "lost", "renewed"}

LEMMA UncountedSteps == UNCHANGED <<retry, response>> \/ UNCHANGED sendVars => CountStep
BY DEF CountStep, sendVars

LEMMA DieCounts == Die => CountStep
BY DEF Die, CountStep

LEMMA DoneCounts == ASSUME TypeInv, NEW t \in Threads, Done(t) PROVE CountStep
BY TypeInvParts DEF ThreadsTyped, Done, CountStep

LEMMA ThrowCounts == ASSUME TypeInv, NEW t \in Threads, Throw(t) PROVE CountStep
BY DieCounts, DoneCounts DEF Throw

LEMMA AgainCounts ==
    ASSUME TypeInv, NEW t \in Senders, NEW r \in {"unavailable", "lost", "renewed"}, Again(t, r)
    PROVE  CountStep
<1>1. CASE retry[t] + 1 = MaxRetries
  BY <1>1, DoneCounts, ThreadNames DEF Again
<1>2. CASE retry[t] + 1 # MaxRetries
  BY <1>2, TypeInvParts DEF Again, ThreadsTyped, CountStep
<1> QED
  BY <1>1, <1>2

LEMMA ReturnCounts ==
    ASSUME TypeInv, NEW t \in Threads, NEW result \in BOOLEAN, caller[t] # "none",
           Return(t, result)
    PROVE  CountStep
<1>1. \/ caller[t] = "first" \/ caller[t] = "second"
      \/ t \in Senders /\ caller[t] = "send"
      \/ t \in Senders /\ caller[t] = "refused"
  BY TypeInvParts DEF ThreadsTyped, CallersKnown, Threads
<1>2. UNCHANGED sendVars \/ Done(t) \/ (t \in Senders /\ Again(t, "renewed"))
  BY <1>1 DEF Return
<1> QED
  BY <1>2, UncountedSteps, DoneCounts, AgainCounts

LEMMA RenewStepCounts == ASSUME TypeInv, NEW t \in Threads, RenewStep(t) PROVE CountStep
<1>1. CASE \E a \in {"valid", "none"} : Granted(t, a)
  BY <1>1, UncountedSteps DEF Granted
<1>2. CASE Assign(t) \/ DeleteKey(t)
  BY <1>2, UncountedSteps DEF Assign, DeleteKey
<1>3. CASE Denied(t) \/ TestToken(t) \/ ExpireKeyAt(t)
  <2>1. caller[t] # "none"
    BY <1>3, TypeInvParts
    DEF ThreadsTyped, CallersKnown, Denied, TestToken, ExpireKeyAt, Renewing
  <2> QED
    BY <1>3, <2>1, UncountedSteps, DieCounts, ReturnCounts DEF Denied, TestToken, ExpireKeyAt
<1>4. CASE WrongType(t)
  BY <1>4, ThrowCounts DEF WrongType
<1>5. CASE SetKey(t)
  BY <1>5, UncountedSteps, DieCounts DEF SetKey
<1>6. CASE PushKey(t)
  BY <1>6, UncountedSteps, DieCounts, ThrowCounts DEF PushKey
<1> QED
  BY <1>1, <1>2, <1>3, <1>4, <1>5, <1>6 DEF RenewStep

LEMMA NextCounts == ASSUME TypeInv, Next PROVE CountStep
<1>1. CASE PushStep
  <2>1. CASE RenewStep("push")
    BY <2>1, RenewStepCounts, ThreadNames
  <2>2. CASE LoadToken \/ WakeUp \/ CheckToken \/ RequestAgain
    BY <2>2, UncountedSteps, DieCounts
    DEF LoadToken, WakeUp, CheckToken, RequestAgain, Request
  <2> QED
    BY <1>1, <2>1, <2>2 DEF PushStep
<1>2. ASSUME NEW t \in Senders, SendStep(t) PROVE CountStep
  <2>1. CASE RenewStep(t)
    BY <2>1, RenewStepCounts, ThreadNames
  <2>2. CASE TestValid(t) \/ BuildHeader(t)
    BY <2>2, UncountedSteps, DieCounts DEF TestValid, BuildHeader, Request
  <2>3. CASE \E r \in {"ok", "unauthorized", "unavailable", "lost", "other"} : Post(t, r)
    BY <2>3, ResponsesHandled, UncountedSteps, AgainCounts, DoneCounts, ThreadNames
  <2> QED
    BY <1>2, <2>1, <2>2, <2>3 DEF SendStep
<1>3. CASE Environment
  <2>1. CASE \E t \in Threads : RedisFails(t)
    BY <2>1, ThrowCounts DEF RedisFails
  <2>2. CASE (\E t \in Senders : Send(t)) \/ Expire \/ Evict \/ Crash \/ Restart
    BY <2>2, UncountedSteps, DieCounts DEF Send, Expire, Evict, Crash, Restart
  <2> QED
    BY <1>3, <2>1, <2>2 DEF Environment
<1> QED
  BY <1>1, <1>2, <1>3 DEF Next, Push, Sender

\* RetriesAreJustified: for any set of sending threads, a notification is only posted
\* again when WNS did not answer, was unavailable, or refused a token that has been
\* renewed since (the loop of send_raw_notification, handle_response_code).
THEOREM RetriesAreJustified == Spec => []RetriesJustified
<1>1. Init => RetryInv
  BY InitTyped DEF Init, RetryInv, RetriesExplained
<1>2. RetryInv /\ [Next]_vars => RetryInv'
  <2> SUFFICES ASSUME RetryInv, [Next]_vars PROVE RetriesExplained'
    BY StepTyped DEF RetryInv
  <2>1. CASE UNCHANGED vars
    BY <2>1 DEF RetryInv, RetriesExplained, vars, sendVars
  <2>2. CASE Next
    BY <2>2, NextCounts DEF RetryInv, RetriesExplained, CountStep
  <2> QED
    BY <2>1, <2>2
<1>3. RetryInv => RetriesJustified
  BY DEF RetryInv, RetriesExplained, RetriesJustified
<1> QED
  BY <1>1, <1>2, <1>3, PTL DEF Spec

-----------------------------------------------------------------------------
(* The token.                                                              *)

\* The threads of a process that does not run are off, the senders are not started
\* before the token has been loaded, and references into the token are only held
\* while it is stored.
Placed ==
    /\ ~up => \A t \in Threads : pc[t] = "off"
    /\ pc["push"] = "load" => \A t \in Senders : pc[t] = "off"
    /\ \A t \in Threads : object[t] # "none" => pc[t] \in {"del", "rpush", "expireat"}

\* As long as no two threads have met, nobody frees, loses or garbles the token that
\* another one works with, and only a failure keeps the key a string or ends the
\* process.
Undisturbed ==
    /\ ~Crowd
    /\ \A t \in Threads :
          /\ object[t] # "freed"
          /\ pc[t] \in {"set", "del", "rpush", "expireat", "header"} => token # "none"
    /\ token # "garbage" /\ store # "garbage"
    /\ \A t \in Senders : header[t] # "garbage"
    /\ failed \/ (up /\ (store = "string" => \E t \in Threads : pc[t] = "del"))

TokenInv == TypeInv /\ Placed /\ (crowded \/ Undisturbed)

\* What a step does to one thread: it moves, gives up its references or not, and has
\* at most the header it had.
Moves(t, places) ==
    /\ \E to \in places : pc' = [pc EXCEPT ![t] = to]
    /\ object' = object \/ object' = [object EXCEPT ![t] = "none"]
    /\ \A s \in Senders : header'[s] \in {header[s], "none"}

Resting == {"pause", "sleep", "idle", "post"}

LEMMA DoneMoves ==
    ASSUME TypeInv, NEW t \in Threads, Done(t), UNCHANGED object \/ Forget(t)
    PROVE  Moves(t, {"idle"})
BY TypeInvParts DEF ThreadsTyped, Done, Forget, Goto, Moves

LEMMA AgainMoves ==
    ASSUME TypeInv, NEW t \in Senders, NEW r, Again(t, r), UNCHANGED object \/ Forget(t)
    PROVE  Moves(t, {"idle", "post"})
<1>1. CASE Done(t)
  BY <1>1, DoneMoves, ThreadNames DEF Moves
<1>2. CASE Goto(t, "post") /\ UNCHANGED header
  BY <1>2 DEF Goto, Forget, Moves
<1> QED
  BY <1>1, <1>2 DEF Again

LEMMA ReturnMoves ==
    ASSUME TypeInv, NEW t \in Threads, NEW result \in BOOLEAN, caller[t] # "none",
           Return(t, result)
    PROVE  Moves(t, Resting \union IF result THEN {"header"} ELSE {}) /\ object'[t] = "none"
<1>1. Forget(t) /\ object'[t] = "none"
  BY TypeInvParts DEF Return, Forget, ThreadsTyped
<1>2. \/ caller[t] = "first" \/ caller[t] = "second"
      \/ t \in Senders /\ caller[t] = "send"
      \/ t \in Senders /\ caller[t] = "refused"
  BY TypeInvParts DEF ThreadsTyped, CallersKnown, Threads
<1>3. \/ Goto(t, "pause") /\ UNCHANGED sendVars
      \/ Goto(t, "sleep") /\ UNCHANGED sendVars
      \/ result /\ Goto(t, "header") /\ UNCHANGED sendVars
      \/ Done(t)
      \/ t \in Senders /\ Again(t, "renewed")
  BY <1>2 DEF Return
<1>4. ASSUME NEW to \in Resting \union IF result THEN {"header"} ELSE {},
             Goto(t, to), UNCHANGED sendVars
      PROVE  Moves(t, Resting \union IF result THEN {"header"} ELSE {})
  BY <1>1, <1>4 DEF Goto, Forget, Moves, sendVars
<1>5. ASSUME Moves(t, {"idle", "post"}) \/ Moves(t, {"idle"})
      PROVE  Moves(t, Resting \union IF result THEN {"header"} ELSE {})
  BY <1>5 DEF Moves, Resting
<1> QED
  BY <1>1, <1>3, <1>4, <1>5, DoneMoves, AgainMoves DEF Resting

\* Where the threads are (Placed).

LEMMA DiePlaced == Die => Placed'
BY ThreadNames DEF Die, Placed

LEMMA StepPlaced ==
    ASSUME TypeInv, Placed, NEW t \in Threads, NEW to,
           pc[t] # "off", to # "load", pc' = [pc EXCEPT ![t] = to], up' = up,
           \A s \in Threads \ {t} : object'[s] # "none" => object[s] # "none",
           object'[t] # "none" => to \in {"del", "rpush", "expireat"}
    PROVE  Placed'
<1>1. \A s \in Threads : pc'[s] = IF s = t THEN to ELSE pc[s]
  BY TypeInvParts DEF ThreadsTyped
<1> QED
  BY <1>1, ThreadNames DEF Placed

LEMMA MovesPlaced ==
    ASSUME TypeInv, Placed, NEW t \in Threads, NEW places,
           pc[t] # "off", "load" \notin places, Moves(t, places), up' = up,
           object'[t] = "none"
    PROVE  Placed'
<1>1. PICK to \in places : pc' = [pc EXCEPT ![t] = to]
  BY DEF Moves
<1>2. \A s \in Threads \ {t} : object'[s] # "none" => object[s] # "none"
  BY TypeInvParts DEF Moves, ThreadsTyped
<1> QED
  BY <1>1, <1>2, StepPlaced

LEMMA ThrowPlaced ==
    ASSUME TypeInv, Placed, NEW t \in Threads, pc[t] # "off", Throw(t)
    PROVE  Placed'
<1>1. CASE t = "asio"
  <2>1. Done(t) /\ Forget(t) /\ up' = up
    BY <1>1 DEF Throw
  <2>2. object'[t] = "none"
    BY <2>1, TypeInvParts DEF Forget, ThreadsTyped
  <2> QED
    BY <2>1, <2>2, DoneMoves, MovesPlaced
<1>2. CASE t # "asio"
  BY <1>2, DiePlaced DEF Throw
<1> QED
  BY <1>1, <1>2

LEMMA RenewStepPlaced ==
    ASSUME TypeInv, Placed, NEW t \in Threads, RenewStep(t)
    PROVE  Placed'
<1>1. CASE \E a \in {"valid", "none"} : Granted(t, a)
  BY <1>1, StepPlaced DEF Granted, Step, Goto, Placed
<1>2. CASE Denied(t) \/ TestToken(t) \/ ExpireKeyAt(t)
  <2>1. caller[t] # "none"
    BY <1>2, TypeInvParts
    DEF ThreadsTyped, CallersKnown, Denied, TestToken, ExpireKeyAt, Renewing
  <2>2. CASE \E result \in BOOLEAN : Return(t, result) /\ up' = up
    <3>1. PICK result \in BOOLEAN : Return(t, result) /\ up' = up
      BY <2>2
    <3>2. pc[t] # "off" /\ "load" \notin (Resting \union IF result THEN {"header"} ELSE {})
      BY <1>2 DEF Denied, TestToken, ExpireKeyAt, Resting
    <3> QED
      BY <2>1, <3>1, <3>2, ReturnMoves, MovesPlaced
  <2>3. CASE Die
    BY <2>3, DiePlaced
  <2>4. CASE pc[t] = "test" /\ Goto(t, "set") /\ UNCHANGED <<up, object>>
    BY <2>4, StepPlaced DEF Goto, Placed
  <2> QED
    BY <1>2, <2>2, <2>3, <2>4 DEF Denied, TestToken, ExpireKeyAt
<1>3. CASE WrongType(t)
  BY <1>3, ThrowPlaced DEF WrongType
<1>4. CASE Assign(t)
  <2>1. /\ pc[t] = "assign" /\ pc' = [pc EXCEPT ![t] = "test"] /\ up' = up
        /\ \A s \in Threads : object'[s] # "none" => object[s] # "none"
    BY <1>4 DEF Assign, Step, Goto
  <2> QED
    BY <2>1, StepPlaced DEF Placed
<1>5. CASE SetKey(t)
  <2>1. CASE Die
    BY <2>1, DiePlaced
  <2>2. CASE /\ pc[t] = "set" /\ pc' = [pc EXCEPT ![t] = "del"] /\ up' = up
             /\ object' = [object EXCEPT ![t] = "live"]
    <3>1. \A s \in Threads \ {t} : object'[s] # "none" => object[s] # "none"
      BY <2>2, TypeInvParts DEF ThreadsTyped
    <3> QED
      BY <2>2, <3>1, StepPlaced
  <2> QED
    BY <1>5, <2>1, <2>2 DEF SetKey, Step, Goto
<1>6. CASE DeleteKey(t)
  BY <1>6, StepPlaced DEF DeleteKey, Step, Goto
<1>7. CASE PushKey(t)
  <2>1. CASE Die
    BY <2>1, DiePlaced
  <2>2. CASE pc[t] = "rpush" /\ Throw(t)
    BY <2>2, ThrowPlaced
  <2>3. CASE pc[t] = "rpush" /\ pc' = [pc EXCEPT ![t] = "expireat"] /\ UNCHANGED <<up, object>>
    BY <2>3, StepPlaced
  <2> QED
    BY <1>7, <2>1, <2>2, <2>3 DEF PushKey, Step, Goto
<1> QED
  BY <1>1, <1>2, <1>3, <1>4, <1>5, <1>6, <1>7 DEF RenewStep

LEMMA NextPlaced == ASSUME TypeInv, Placed, Next PROVE Placed'
<1> USE ThreadNames
<1>1. CASE PushStep
  <2>1. CASE RenewStep("push")
    BY <2>1, RenewStepPlaced
  <2>2. CASE LoadToken
    <3>1. CASE Die
      BY <3>1, DiePlaced
    <3>2. CASE /\ pc["push"] = "load" /\ UNCHANGED <<up, object>>
               /\ pc' = [t \in Threads |-> IF t = "push" THEN "pause" ELSE "idle"]
      BY <3>2 DEF Placed, Threads
    <3> QED
      BY <2>2, <3>1, <3>2 DEF LoadToken
  <2>3. CASE Die
    BY <2>3, DiePlaced
  <2>4. ASSUME NEW from \in {"pause", "check", "sleep"}, NEW to \in {"check", "pause", "request"},
               pc["push"] = from, Goto("push", to), UNCHANGED <<up, object>>
        PROVE  Placed'
    BY <2>4, StepPlaced DEF Goto, Placed
  <2> QED
    BY <1>1, <2>1, <2>2, <2>3, <2>4
    DEF PushStep, WakeUp, CheckToken, RequestAgain, Request, Step
<1>2. ASSUME NEW t \in Senders, SendStep(t) PROVE Placed'
  <2>1. CASE RenewStep(t)
    BY <2>1, RenewStepPlaced
  <2>2. CASE Die
    BY <2>2, DiePlaced
  <2>3. ASSUME NEW from \in {"valid", "header", "post"}, NEW to \in {"header", "post", "request"},
               pc[t] = from, Goto(t, to), UNCHANGED <<up, object>>
        PROVE  Placed'
    BY <2>3, StepPlaced DEF Goto, Placed
  <2>4. CASE TestValid(t) \/ BuildHeader(t)
    BY <2>2, <2>3, <2>4 DEF TestValid, BuildHeader, Request, Step
  <2>5. ASSUME NEW r \in {"ok", "unauthorized", "unavailable", "lost", "other"}, Post(t, r)
        PROVE  Placed'
    <3>1. pc[t] = "post" /\ UNCHANGED <<up, object>>
      BY <2>5 DEF Post
    <3>2. object'[t] = "none"
      BY <3>1 DEF Placed
    <3>3. \/ Moves(t, {"idle"}) \/ Moves(t, {"idle", "post"})
          \/ Goto(t, "request")
      BY <2>5, <3>1, ResponsesHandled, DoneMoves, AgainMoves
    <3> QED
      BY <2>3, <3>1, <3>2, <3>3, MovesPlaced
  <2> QED
    BY <1>2, <2>1, <2>4, <2>5 DEF SendStep
<1>3. CASE Environment
  <2>1. CASE \E t \in Threads : RedisFails(t)
    BY <2>1, ThrowPlaced DEF RedisFails
  <2>2. CASE \E t \in Senders : Send(t)
    BY <2>2, StepPlaced DEF Send, Step, Goto, Placed
  <2>3. CASE Expire \/ Evict
    BY <2>3 DEF Expire, Evict, Placed
  <2>4. CASE Crash
    BY <2>4, DiePlaced DEF Crash
  <2>5. CASE Restart
    BY <2>5, TypeInvParts DEF Restart, Goto, Placed, ThreadsTyped
  <2> QED
    BY <1>3, <2>1, <2>2, <2>3, <2>4, <2>5 DEF Environment
<1> QED
  BY <1>1, <1>2, <1>3 DEF Next, Push, Sender

\* What one thread alone does to the token (Undisturbed).

LEMMA QuietDie ==
    ASSUME Undisturbed, Die, failed'
    PROVE  Undisturbed'
BY ThreadNames DEF Undisturbed, Die, Crowd, Renewing

\* A thread that renews or uses the token is the only one that does.
LEMMA NobodyElse ==
    ASSUME Undisturbed, NEW t \in Threads, NEW s \in Threads, s # t, pc[t] \in Renewing
    PROVE  pc[s] \notin Using
BY DEF Undisturbed, Crowd

LEMMA NobodyFrees ==
    ASSUME Undisturbed, NEW t \in Threads, pc[t] \in Using
    PROVE  ~Racing(t)
BY DEF Undisturbed, Crowd, Racing, Renewing

\* Only a failure leaves a string for the next one.
LEMMA NoString ==
    ASSUME Undisturbed, NEW t \in Threads, pc[t] \in Renewing, pc[t] # "del", ~failed
    PROVE  store # "string"
<1>1. ASSUME NEW s \in Threads, pc[s] = "del" PROVE FALSE
  BY <1>1, NobodyElse DEF Using, Renewing
<1> QED
  BY <1>1 DEF Undisturbed

LEMMA QuietStep ==
    ASSUME TypeInv, Undisturbed, ~Crowd', NEW t \in Threads, NEW to,
           pc' = [pc EXCEPT ![t] = to],
           \A s \in Threads : object'[s] # "freed",
           \A s \in Senders : header'[s] # "garbage",
           to \in {"set", "del", "rpush", "expireat", "header"} => token' # "none",
           token' = "none" => token = "none",
           token' # "garbage", store' # "garbage",
           failed \/ up' = up, failed => failed',
           store' = "string" => to = "del" \/ (store = "string" /\ pc[t] # "del")
    PROVE  Undisturbed'
<1>1. \A s \in Threads : pc'[s] = IF s = t THEN to ELSE pc[s]
  BY TypeInvParts DEF ThreadsTyped
<1>2. \A s \in Threads :
        pc'[s] \in {"set", "del", "rpush", "expireat", "header"} => token' # "none"
  BY <1>1 DEF Undisturbed
<1>3. failed' \/ (up' /\ (store' = "string" => \E s \in Threads : pc'[s] = "del"))
  <2> SUFFICES ASSUME ~failed'
               PROVE  up' /\ (store' = "string" => \E s \in Threads : pc'[s] = "del")
    OBVIOUS
  <2>1. ~failed /\ up' = up /\ up
    BY DEF Undisturbed
  <2>2. CASE to = "del"
    BY <1>1, <2>1, <2>2
  <2>3. CASE store' # "string"
    BY <2>1, <2>3
  <2>4. CASE store = "string" /\ pc[t] # "del"
    <3>1. PICK s \in Threads : pc[s] = "del"
      BY <2>1, <2>4 DEF Undisturbed
    <3> QED
      BY <1>1, <2>1, <2>4, <3>1
  <2> QED
    BY <2>2, <2>3, <2>4
<1> QED
  BY <1>2, <1>3 DEF Undisturbed

\* A step that leaves the token and its key as they are.
LEMMA QuietMoves ==
    ASSUME TypeInv, Undisturbed, ~Crowd', NEW t \in Threads, NEW places,
           Moves(t, places),
           places \intersect {"set", "del", "rpush", "expireat", "header"} # {} => token # "none",
           UNCHANGED <<up, token, store, failed>>,
           pc[t] # "del"
    PROVE  Undisturbed'
<1>1. PICK to \in places : pc' = [pc EXCEPT ![t] = to]
  BY DEF Moves
<1>2. \A s \in Threads : object'[s] # "freed"
  BY TypeInvParts DEF Moves, ThreadsTyped, Undisturbed
<1>3. \A s \in Senders : header'[s] # "garbage"
  BY DEF Moves, Undisturbed
<1>4. token # "garbage" /\ store # "garbage"
  BY DEF Undisturbed
<1> QED
  BY <1>1, <1>2, <1>3, <1>4, QuietStep

LEMMA QuietGoto ==
    ASSUME TypeInv, Undisturbed, ~Crowd', NEW t \in Threads, NEW to,
           Goto(t, to),
           to \in {"set", "del", "rpush", "expireat", "header"} => token # "none",
           UNCHANGED <<up, token, store, object, header, failed>>,
           pc[t] # "del"
    PROVE  Undisturbed'
<1>1. Moves(t, {to})
  BY DEF Moves, Goto
<1> QED
  BY <1>1, QuietMoves

LEMMA QuietThrow ==
    ASSUME TypeInv, Undisturbed, ~Crowd', NEW t \in Threads, Throw(t), failed'
    PROVE  Undisturbed'
<1>1. CASE t = "asio"
  <2>1. Done(t) /\ Forget(t) /\ UNCHANGED <<up, token, store>>
    BY <1>1 DEF Throw
  <2>2. Moves(t, {"idle"})
    BY <2>1, DoneMoves
  <2>3. \A s \in Threads : object'[s] # "freed"
    BY <2>2, TypeInvParts DEF Moves, ThreadsTyped, Undisturbed
  <2>4. \A s \in Senders : header'[s] # "garbage"
    BY <2>2 DEF Moves, Undisturbed
  <2>5. \A s \in Threads : pc'[s] = IF s = t THEN "idle" ELSE pc[s]
    BY <2>2, TypeInvParts DEF Moves, ThreadsTyped
  <2> QED
    BY <2>1, <2>3, <2>4, <2>5 DEF Undisturbed
<1>2. CASE t # "asio"
  BY <1>2, QuietDie DEF Throw
<1> QED
  BY <1>1, <1>2

LEMMA QuietRenewal ==
    ASSUME TypeInv, Placed, Undisturbed, ~Crowd', NEW t \in Threads, RenewStep(t)
    PROVE  Undisturbed'
<1>1. CASE \E a \in {"valid", "none"} : Granted(t, a)
  BY <1>1, QuietGoto DEF Granted, Step, sendVars
<1>2. CASE WrongType(t)
  BY <1>2, QuietThrow DEF WrongType
<1>3. CASE Denied(t) \/ TestToken(t) \/ ExpireKeyAt(t)
  <2>1. caller[t] # "none" /\ pc[t] \in {"request", "test", "expireat"}
    BY <1>3, TypeInvParts
    DEF ThreadsTyped, CallersKnown, Denied, TestToken, ExpireKeyAt, Renewing
  <2>2. ASSUME NEW result \in BOOLEAN, Return(t, result), result => token # "none",
               UNCHANGED <<up, token, store, failed>>
        PROVE  Undisturbed'
    <3>1. Moves(t, Resting \union IF result THEN {"header"} ELSE {})
      BY <2>1, <2>2, ReturnMoves
    <3> QED
      BY <2>1, <2>2, <3>1, QuietMoves DEF Resting
  <2>3. CASE Goto(t, "set") /\ token # "none"
             /\ UNCHANGED <<up, token, store, object, sendVars, failed>>
    BY <2>1, <2>3, QuietGoto DEF sendVars
  <2>4. pc[t] = "expireat" => token # "none"
    BY DEF Undisturbed
  <2> QED
    BY <1>3, <2>2, <2>3, <2>4 DEF Denied, TestToken, ExpireKeyAt
<1>4. CASE Assign(t)
  <2>1. /\ pc[t] = "assign" /\ pc' = [pc EXCEPT ![t] = "test"]
        /\ token' = answer[t]
        /\ UNCHANGED <<up, store, header, failed>>
    BY <1>4 DEF Assign, Step, Goto, sendVars
  <2>2. \A s \in Threads \ {t} : pc[s] \notin Using
    BY <2>1, NobodyElse DEF Renewing
  <2>3. \A s \in Threads : object[s] = "none"
    BY <2>1, <2>2 DEF Placed, Using, Renewing
  <2>4. \A s \in Threads : object'[s] # "freed"
    BY <1>4, <2>3 DEF Assign
  <2>5. \A s \in Threads : pc'[s] \notin {"set", "del", "rpush", "expireat", "header"}
    BY <2>1, <2>2, TypeInvParts DEF ThreadsTyped, Using, Renewing
  <2>6. token' # "garbage" /\ store' # "garbage" /\ \A s \in Senders : header'[s] # "garbage"
    BY <2>1, TypeInvParts DEF ThreadsTyped, Undisturbed
  <2>7. failed' \/ (up' /\ store' # "string")
    BY <2>1, NoString DEF Undisturbed, Renewing
  <2> QED
    BY <2>4, <2>5, <2>6, <2>7 DEF Undisturbed
<1>5. CASE SetKey(t)
  <2>1. token # "none" /\ pc[t] = "set"
    BY <1>5 DEF SetKey, Undisturbed, Step
  <2>2. /\ pc' = [pc EXCEPT ![t] = "del"] /\ object' = [object EXCEPT ![t] = "live"]
        /\ store' = "string" /\ UNCHANGED <<up, token, header, failed>>
    BY <1>5, <2>1 DEF SetKey, Step, Goto, sendVars
  <2>3. \A s \in Threads : object'[s] # "freed"
    BY <2>2, TypeInvParts DEF ThreadsTyped, Undisturbed
  <2>4. token # "garbage" /\ \A s \in Senders : header[s] # "garbage"
    BY DEF Undisturbed
  <2> QED
    BY <2>1, <2>2, <2>3, <2>4, QuietStep
<1>6. CASE DeleteKey(t)
  <2>1. /\ pc[t] = "del" /\ pc' = [pc EXCEPT ![t] = "rpush"]
        /\ store' = "none" /\ UNCHANGED <<up, token, object, header, failed>>
    BY <1>6 DEF DeleteKey, Step, Goto, sendVars
  <2>2. /\ token # "none" /\ token # "garbage"
        /\ \A s \in Threads : object[s] # "freed"
        /\ \A s \in Senders : header[s] # "garbage"
    BY <2>1 DEF Undisturbed
  <2> QED
    BY <2>1, <2>2, QuietStep
<1>7. CASE PushKey(t)
  <2>1. pc[t] = "rpush" /\ token # "none" /\ object[t] # "freed"
    BY <1>7 DEF PushKey, Step, Undisturbed
  <2>2. CASE store = "string" /\ Throw(t) /\ UNCHANGED failed
    BY <2>1, <2>2, NoString, QuietThrow DEF Renewing
  <2>3. CASE /\ pc' = [pc EXCEPT ![t] = "expireat"]
             /\ store' \in {"long", "token"}
             /\ UNCHANGED <<up, token, object, header, failed>>
    <3>1. /\ token # "garbage"
          /\ \A s \in Threads : object[s] # "freed"
          /\ \A s \in Senders : header[s] # "garbage"
      BY DEF Undisturbed
    <3> QED
      BY <2>1, <2>3, <3>1, QuietStep
  <2> QED
    BY <1>7, <2>1, <2>2, <2>3 DEF PushKey, Step, Goto, sendVars
<1> QED
  BY <1>1, <1>2, <1>3, <1>4, <1>5, <1>6, <1>7 DEF RenewStep

LEMMA QuietPush ==
    ASSUME TypeInv, Placed, Undisturbed, ~Crowd', PushStep
    PROVE  Undisturbed'
<1> USE ThreadNames
<1>1. CASE RenewStep("push")
  BY <1>1, QuietRenewal
<1>2. CASE LoadToken
  <2>1. pc["push"] = "load" /\ \A t \in Threads : pc[t] \in {"load", "off"}
    BY <1>2 DEF LoadToken, Placed, Threads
  <2>2. CASE store = "string" /\ Die /\ UNCHANGED failed
    <3>1. failed
      BY <2>1, <2>2 DEF Undisturbed
    <3> QED
      BY <2>2, <3>1, QuietDie
  <2>3. CASE /\ store # "string"
             /\ pc' = [t \in Threads |-> IF t = "push" THEN "pause" ELSE "idle"]
             /\ token' \in CASE store = "token" -> {"valid", "expired"}
                             [] store = "garbage" -> {"garbage", "expired"}
                             [] OTHER -> {"none"}
             /\ UNCHANGED <<up, store, object, header, failed>>
    <3>1. token' # "garbage"
      BY <2>3 DEF Undisturbed
    <3>2. \A t \in Threads : pc'[t] \in {"pause", "idle"}
      BY <2>3
    <3> QED
      BY <2>3, <3>1, <3>2 DEF Undisturbed
  <2> QED
    BY <1>2, <2>2, <2>3 DEF LoadToken, sendVars
<1>3. ASSUME NEW from \in {"pause", "check", "sleep"}, NEW to \in {"check", "pause", "request"},
             pc["push"] = from, Goto("push", to),
             UNCHANGED <<up, token, store, object, sendVars, failed>>
      PROVE  Undisturbed'
  BY <1>3, QuietGoto DEF sendVars
<1>4. CASE WakeUp \/ CheckToken \/ RequestAgain
  <2>1. ~(pc["push"] = "check" /\ Racing("push"))
    BY NobodyFrees DEF Using
  <2> QED
    BY <1>3, <1>4, <2>1 DEF WakeUp, CheckToken, RequestAgain, Request, Step
<1> QED
  BY <1>1, <1>2, <1>4 DEF PushStep

LEMMA QuietSend ==
    ASSUME TypeInv, Placed, Undisturbed, ~Crowd', NEW t \in Senders, SendStep(t)
    PROVE  Undisturbed'
<1> USE ThreadNames
<1>1. CASE RenewStep(t)
  BY <1>1, QuietRenewal
<1>2. CASE TestValid(t)
  <2>1. ~Racing(t) /\ pc[t] = "valid"
    BY <1>2, NobodyFrees DEF TestValid, Request, Step, Using
  <2>2. CASE Goto(t, "header") /\ token # "none"
             /\ UNCHANGED <<up, token, store, object, sendVars, failed>>
    BY <2>1, <2>2, QuietGoto DEF sendVars
  <2>3. CASE Goto(t, "request") /\ UNCHANGED <<up, token, store, object, sendVars, failed>>
    BY <2>1, <2>3, QuietGoto DEF sendVars
  <2> QED
    BY <1>2, <2>1, <2>2, <2>3 DEF TestValid, Request, Step, is_token_valid
<1>3. CASE BuildHeader(t)
  <2>1. ~Racing(t) /\ pc[t] = "header" /\ token # "none" /\ token # "garbage"
    BY <1>3, NobodyFrees DEF BuildHeader, Step, Using, Undisturbed
  <2>2. /\ header' = [header EXCEPT ![t] = "genuine"]
        /\ pc' = [pc EXCEPT ![t] = "post"]
        /\ UNCHANGED <<up, token, store, object, failed>>
    BY <1>3, <2>1 DEF BuildHeader, Step, Goto
  <2>3. \A s \in Senders : header'[s] # "garbage"
    BY <2>2, TypeInvParts DEF ThreadsTyped, Undisturbed
  <2>4. store # "garbage" /\ \A s \in Threads : object[s] # "freed"
    BY DEF Undisturbed
  <2> QED
    BY <2>1, <2>2, <2>3, <2>4, QuietStep
<1>4. ASSUME NEW r \in {"ok", "unauthorized", "unavailable", "lost", "other"}, Post(t, r)
      PROVE  Undisturbed'
  <2>1. pc[t] = "post" /\ UNCHANGED <<up, token, store, object, failed>>
    BY <1>4, ResponsesHandled DEF Post
  <2>2. \/ Moves(t, {"idle"}) \/ Moves(t, {"idle", "post"})
        \/ Goto(t, "request") /\ UNCHANGED sendVars
    BY <1>4, <2>1, ResponsesHandled, DoneMoves, AgainMoves
  <2> QED
    BY <2>1, <2>2, QuietMoves, QuietGoto DEF sendVars
<1> QED
  BY <1>1, <1>2, <1>3, <1>4 DEF SendStep

LEMMA QuietEnvironment ==
    ASSUME TypeInv, Placed, Undisturbed, ~Crowd', Environment
    PROVE  Undisturbed'
<1>1. CASE \E t \in Senders : Send(t)
  BY <1>1, QuietGoto, ThreadNames DEF Send, Step, sendVars
<1>2. CASE \E t \in Threads : RedisFails(t)
  BY <1>2, QuietThrow DEF RedisFails
<1>3. CASE Expire \/ Evict
  BY <1>3 DEF Expire, Evict, Undisturbed, is_token_valid, sendVars
<1>4. CASE Crash
  BY <1>4, QuietDie DEF Crash
<1>5. CASE Restart
  <2>1. /\ ~up /\ up' = TRUE /\ Goto("push", "load")
        /\ UNCHANGED <<token, store, object, header, failed>>
    BY <1>5 DEF Restart, sendVars
  <2>2. failed /\ \A t \in Threads : pc'[t] \in {"load", "off"}
    BY <2>1, TypeInvParts DEF Undisturbed, Placed, Goto, ThreadsTyped
  <2> QED
    BY <2>1, <2>2 DEF Undisturbed
<1> QED
  BY <1>1, <1>2, <1>3, <1>4, <1>5 DEF Environment

\* TokenInvariant: the inductive invariant of the token holds in every run.
THEOREM TokenInvariant == Spec => []TokenInv
<1>1. Init => TokenInv
  <2> SUFFICES ASSUME Init PROVE Placed /\ Undisturbed
    BY InitTyped DEF TokenInv
  <2>1. \A t \in Threads : pc[t] \in {"load", "off"} /\ (t # "push" => pc[t] = "off")
    BY DEF Init
  <2> QED
    BY <2>1, ThreadNames DEF Init, Placed, Undisturbed, Crowd, Renewing
<1>2. TokenInv /\ [Next]_vars => TokenInv'
  <2> SUFFICES ASSUME TokenInv, [Next]_vars PROVE Placed' /\ (crowded' \/ Undisturbed')
    BY StepTyped DEF TokenInv
  <2>1. CASE UNCHANGED vars
    BY <2>1
    DEF TokenInv, vars, sendVars, Placed, Undisturbed, Crowd
  <2>2. CASE Next
    <3>1. Placed'
      BY <2>2, NextPlaced DEF TokenInv
    <3>2. Observed
      BY <2>2 DEF Next, Push, Sender
    <3>3. CASE crowded \/ Crowd'
      BY <3>1, <3>2, <3>3 DEF Observed
    <3>4. CASE ~crowded /\ ~Crowd'
      BY <2>2, <3>1, <3>4, QuietPush, QuietSend, QuietEnvironment
      DEF TokenInv, Next, Push, Sender
    <3> QED
      BY <3>3, <3>4
  <2> QED
    BY <2>1, <2>2
<1> QED
  BY <1>1, <1>2, PTL DEF Spec

\* RestartsSucceed: for any set of sending threads, the key is left as a string, on
\* which every later start fails, only where a thread is between SET and DEL, two
\* threads met over the token, or something failed (RedisClient::set_wns_token).
THEOREM RestartsSucceed == Spec => []Startable
<1>1. TokenInv => Startable
  BY DEF TokenInv, Undisturbed, Startable
<1> QED
  BY <1>1, TokenInvariant, PTL

\* ProcessSurvives: for any set of sending threads, no answer of the services and no
\* expiry ends the process; two threads at the token or a failure do (is_token_valid,
\* request_new_token, send_raw_notification).
THEOREM ProcessSurvives == Spec => []Survives
<1>1. TokenInv => Survives
  BY DEF TokenInv, Undisturbed, Survives
<1> QED
  BY <1>1, TokenInvariant, PTL

\* HeadersAreGenuine: for any set of sending threads, also after restarts, a header is
\* made of a token the login service granted, unless two threads met over the token
\* (send_raw_notification, load_token_from_db).
THEOREM HeadersAreGenuine == Spec => []HeaderGenuine
<1>1. TokenInv => HeaderGenuine
  BY DEF TokenInv, Undisturbed, HeaderGenuine
<1> QED
  BY <1>1, TokenInvariant, PTL

=============================================================================
