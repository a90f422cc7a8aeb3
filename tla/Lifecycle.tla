------------------------------ MODULE Lifecycle ------------------------------
(***************************************************************************)
(* How the process starts and stops. PushServer, TcpServer, XmppClient and *)
(* IoThread each own a thread and the same protocol: start() writes        *)
(* STARTING and spawns, the thread tests STARTING and writes RUNNING,      *)
(* stop() writes STOP_REQUESTED and joins. The state is a plain variable   *)
(* that both sides test and set without a lock.                            *)
(*                                                                         *)
(*   main     loads the configuration, starts the server, and waits for    *)
(*            the command line to end or for serverPtr to be cleared       *)
(*   handler  the SIGINT handler, which runs on top of the main thread     *)
(*   push     starts tcp and xmpp, waits, stops tcp and then xmpp          *)
(*   tcp      starts and stops the asio service                            *)
(*   asio     the service's thread, which handles the clients' requests    *)
(*   xmpp     connects, runs libstrophe's event loop, and connects again   *)
(*   io       the command line                                             *)
(*                                                                         *)
(* stop() is one step up to its write: the thread it stops can only move   *)
(* from STARTING to RUNNING meanwhile, which changes no branch of stop().  *)
(* libstrophe is modelled by what XmppClient expects of it: xmpp_run       *)
(* returns after xmpp_stop, and xmpp_stop only ends a loop that runs.      *)
(*                                                                         *)
(* Definitions whose comment starts with "Mutant" are wrong on purpose, to *)
(* see that the properties notice. No action uses them.                    *)
(***************************************************************************)
EXTENDS Naturals

CONSTANT MaxSignals  \* bound: SIGINTs during one run of the process

ASSUME MaxSignalsAssumption == MaxSignals \in Nat

VARIABLES
    process,    \* "up", "exited" or "dead" (terminated by an assertion or exception)
    noInput,    \* --noInput: no command line, exit via SIGINT
    file,       \* the configuration file; it outlives the process
    config,     \* what ConfigurationStorage made of it
    serverPtr,  \* whether the global pointer is set
    signals,    \* SIGINTs so far
    pc,         \* where each thread is
    state,      \* the state variable of each component
    ctx, conn,  \* XmppClient's pointers: "null", "live" or "freed"
    loop,       \* libstrophe's loop_status
    link        \* the XMPP connection: "down", "connecting", "up", or "refused" when
                \* xmpp_connect_client returned an error

mainVars == <<noInput, file, config, serverPtr, signals>>
xmppVars == <<ctx, conn, loop, link>>
vars == <<process, mainVars, pc, state, xmppVars>>

Components == {"push", "tcp", "xmpp", "io"}
Threads == Components \union {"main", "handler", "asio"}
ConfigFiles == {"absent", "corrupt", "incomplete", "placeholder", "complete"}

\* A process that was just started.
Fresh ==
    /\ process = "up"
    /\ config = "placeholder"
    /\ serverPtr = FALSE
    /\ signals = 0
    /\ pc = [t \in Threads |-> IF t = "main" THEN "load" ELSE "off"]
    /\ state = [c \in Components |-> "NOT_RUNNING"]
    /\ ctx = "null" /\ conn = "null"
    /\ loop = "notStarted" /\ link = "down"

Init == Fresh /\ noInput \in BOOLEAN /\ file \in ConfigFiles

Step(t, from, to) == pc[t] = from /\ pc' = [pc EXCEPT ![t] = to]

\* A failed assertion, an exception nobody catches, or a null pointer.
Die == process' = "dead" /\ UNCHANGED <<mainVars, pc, state, xmppVars>>

-----------------------------------------------------------------------------
(* start(), stop() and the frame of thread_run(), alike in all four.       *)

\* start(): thread t starts component c and goes on.
Start(t, from, c, to) ==
    /\ pc[t] = from
    /\ pc' = [pc EXCEPT ![t] = to, ![c] = "entry"]
    /\ state' = [state EXCEPT ![c] = "STARTING"]
    /\ UNCHANGED <<process, mainVars, xmppVars>>

\* stop() up to the join; after is where t goes on when there is nothing to stop.
RequestStop(t, from, c, wake, join, after) ==
    /\ Step(t, from, CASE state[c] \in {"STARTING", "RUNNING"} -> wake
                       [] state[c] = "WAITING_FOR_JOIN" -> join
                       [] OTHER -> after)
    /\ state' = IF state[c] \in {"STARTING", "RUNNING"}
                  THEN [state EXCEPT ![c] = "STOP_REQUESTED"] ELSE state
    /\ UNCHANGED <<process, mainVars, xmppVars>>

\* Mutant: the thread is detached instead of joined.
JoinDetached(t, from, c, to) ==
    /\ Step(t, from, to)
    /\ state' = [state EXCEPT ![c] = "NOT_RUNNING"]
    /\ UNCHANGED <<process, mainVars, xmppVars>>

\* The rest of stop(): the join returns when the thread has ended.
Join(t, from, c, to) ==
    /\ pc[c] = "ended"
    /\ Step(t, from, to)
    /\ state' = [state EXCEPT ![c] = "NOT_RUNNING"]
    /\ UNCHANGED <<process, mainVars, xmppVars>>

\* thread_run(): the test of STARTING ...
Enter(c) ==
    /\ Step(c, "entry", IF state[c] = "STARTING" THEN "enter" ELSE "ended")
    /\ UNCHANGED <<process, mainVars, state, xmppVars>>

\* ... and the write of RUNNING, which a stop request may have come before.
Run(c, to) ==
    /\ Step(c, "enter", to)
    /\ state' = [state EXCEPT ![c] = "RUNNING"]
    /\ UNCHANGED <<process, mainVars, xmppVars>>

Leave(c) ==
    /\ Step(c, "leave", "ended")
    /\ state' = [state EXCEPT ![c] = "WAITING_FOR_JOIN"]
    /\ UNCHANGED <<process, mainVars, xmppVars>>

\* A step of thread t that touches nothing but its program counter.
Go(t, from, to) == Step(t, from, to) /\ UNCHANGED <<process, mainVars, state, xmppVars>>

-----------------------------------------------------------------------------
(* main                                                                    *)

\* Mutant: a field that is missing from the file keeps its default.
LoadConfigurationPartly ==
    /\ Step("main", "load", "construct")
    /\ config' = IF file \in {"complete", "incomplete"} THEN file ELSE "placeholder"
    /\ UNCHANGED <<process, noInput, file, serverPtr, signals, state, xmppVars>>

\* A missing file is created with placeholders, if it can be; a file that does
\* not parse leaves the defaults; one that lacks a field ends the process.
LoadConfiguration ==
    \/ /\ file \in {"absent", "corrupt", "placeholder", "complete"}
       /\ Step("main", "load", "construct")
       /\ config' = IF file = "complete" THEN "complete" ELSE "placeholder"
       /\ \/ file' = IF file = "absent" THEN "placeholder" ELSE file
          \/ file = "absent" /\ file' = file
       /\ UNCHANGED <<process, noInput, serverPtr, signals, state, xmppVars>>
    \/ pc["main"] = "load" /\ file = "incomplete" /\ Die

\* TcpServer's constructor reads the certificates the configuration names.
Construct ==
    \/ config = "complete" /\ Go("main", "construct", "start")
    \/ config = "placeholder" /\ pc["main"] = "construct" /\ Die

StartServer == Start("main", "start", "push", IF noInput THEN "publish" ELSE "startIo")

PublishServer ==
    /\ Step("main", "publish", "wait")
    /\ serverPtr' = TRUE
    /\ UNCHANGED <<process, noInput, file, config, signals, state, xmppVars>>

\* With --noInput until the signal handler has cleared the pointer, otherwise
\* until the command line has ended.
Wait ==
    \/ ~serverPtr /\ Go("main", "wait", "destroy")
    \/ state["io"] = "WAITING_FOR_JOIN" /\ Go("main", "waitIo", "stopServer")

\* The destructors assert that everything has been stopped.
Destroy ==
    /\ pc["main"] = "destroy"
    /\ process' = IF \A c \in Components : state[c] = "NOT_RUNNING" THEN "exited" ELSE "dead"
    /\ UNCHANGED <<mainVars, pc, state, xmppVars>>

\* The handler runs on the main thread, which stands still meanwhile.
MainStep ==
    /\ pc["handler"] = "off"
    /\ \/ LoadConfiguration \/ Construct \/ StartServer \/ PublishServer
       \/ Start("main", "startIo", "io", "waitIo")
       \/ Wait
       \/ RequestStop("main", "stopServer", "push", "joinServer", "joinServer", "stopIo")
       \/ Join("main", "joinServer", "push", "stopIo")
       \/ RequestStop("main", "stopIo", "io", "joinIo", "joinIo", "destroy")
       \/ Join("main", "joinIo", "io", "destroy")
       \/ Destroy

-----------------------------------------------------------------------------
(* The signal handler                                                      *)

Sigint ==
    /\ noInput /\ signals < MaxSignals
    /\ Step("handler", "off", "check")
    /\ signals' = signals + 1
    /\ UNCHANGED <<process, noInput, file, config, serverPtr, state, xmppVars>>

\* A signal that comes before the pointer is set has no effect.
CheckServerPtr == Go("handler", "check", IF serverPtr THEN "stop" ELSE "off")

ClearServerPtr ==
    /\ Step("handler", "clear", "off")
    /\ serverPtr' = FALSE
    /\ UNCHANGED <<process, noInput, file, config, signals, state, xmppVars>>

HandlerStep ==
    \/ CheckServerPtr
    \/ RequestStop("handler", "stop", "push", "join", "join", "clear")
    \/ Join("handler", "join", "push", "clear")
    \/ ClearServerPtr

-----------------------------------------------------------------------------
(* push                                                                    *)

\* Redis::init and load_token_from_db throw when Redis does not answer.
InitServer == Go("push", "init", "startTcp") \/ (pc["push"] = "init" /\ Die)

\* check_setup_wns runs here once a second; it ends by itself.
LeavePushLoop == state["push"] # "RUNNING" /\ Go("push", "loop", "stopTcp")

\* Mutant: the components are stopped in the order they were not started in.
StopComponentsXmppFirst ==
    \/ RequestStop("push", "stopTcp", "xmpp", "wakeXmpp", "joinXmpp", "stopXmpp")
    \/ Join("push", "joinXmpp", "xmpp", "stopXmpp")
    \/ RequestStop("push", "stopXmpp", "tcp", "joinTcp", "joinTcp", "leave")
    \/ Join("push", "joinTcp", "tcp", "leave")

\* tcpServer.stop(); xmppClient.stop();
StopComponents ==
    \/ RequestStop("push", "stopTcp", "tcp", "joinTcp", "joinTcp", "stopXmpp")
    \/ Join("push", "joinTcp", "tcp", "stopXmpp")
    \/ RequestStop("push", "stopXmpp", "xmpp", "wakeXmpp", "joinXmpp", "leave")
    \/ Join("push", "joinXmpp", "xmpp", "leave")

\* Mutant: XmppClient::stop leaves the event loop alone.
WakeXmppNever == Go("push", "wakeXmpp", "joinXmpp")

\* xmpp_stop(ctx) in XmppClient::stop: ends a running event loop, does nothing to
\* one that does not run yet, and follows whatever ctx is by now.
WakeXmpp ==
    \/ /\ ctx # "null"
       /\ Step("push", "wakeXmpp", "joinXmpp")
       /\ loop' = IF loop = "running" THEN "quit" ELSE loop
       /\ UNCHANGED <<process, mainVars, state, ctx, conn, link>>
    \/ ctx # "live" /\ pc["push"] = "wakeXmpp" /\ Die

PushStep ==
    \/ Enter("push") \/ Run("push", "init") \/ InitServer
    \/ Start("push", "startTcp", "tcp", "startXmpp")
    \/ Start("push", "startXmpp", "xmpp", "loop")
    \/ LeavePushLoop \/ StopComponents \/ WakeXmpp \/ Leave("push")

-----------------------------------------------------------------------------
(* tcp and asio                                                            *)

StartService ==
    /\ pc["tcp"] = "startService"
    /\ pc' = [pc EXCEPT !["tcp"] = "loop", !["asio"] = "idle"]
    /\ UNCHANGED <<process, mainVars, state, xmppVars>>

LeaveTcpLoop == state["tcp"] # "RUNNING" /\ Go("tcp", "loop", "stopService")

\* asioService->Stop() waits for the handler that runs.
StopService ==
    /\ pc["tcp"] = "stopService" /\ pc["asio"] = "idle"
    /\ pc' = [pc EXCEPT !["tcp"] = "leave", !["asio"] = "off"]
    /\ UNCHANGED <<process, mainVars, state, xmppVars>>

TcpStep ==
    \/ Enter("tcp") \/ Run("tcp", "startService") \/ StartService
    \/ LeaveTcpLoop \/ StopService \/ Leave("tcp")

\* A client asks for a node to be created or deleted; server->Stop() closes the
\* acceptor and the sessions.
Request == pc["tcp"] = "loop" /\ Go("asio", "idle", "serving")

\* setup_push_node and delete_push_node assert that there is a connection object.
UseConnection ==
    \/ conn # "null" /\ Go("asio", "serving", "idle")
    \/ conn # "live" /\ pc["asio"] = "serving" /\ Die

-----------------------------------------------------------------------------
(* xmpp                                                                    *)

SetupContext ==
    /\ Step("xmpp", "setup", "setupConn")
    /\ ctx' = "live"
    /\ UNCHANGED <<process, mainVars, state, conn, loop, link>>

SetupConnection ==
    /\ Step("xmpp", "setupConn", "loop")
    /\ conn' = "live"
    /\ UNCHANGED <<process, mainVars, state, ctx, loop, link>>

TestXmppLoop == Go("xmpp", "loop", IF state["xmpp"] = "RUNNING" THEN "connect" ELSE "release")

\* The result of xmpp_connect_client is not looked at: it may have failed at once.
ConnectClient ==
    /\ Step("xmpp", "connect", "run")
    /\ link' \in {"connecting", "refused"}
    /\ UNCHANGED <<process, mainVars, state, ctx, conn, loop>>

\* xmpp_run
EnterEventLoop ==
    /\ Step("xmpp", "run", "running")
    /\ loop' = "running"
    /\ UNCHANGED <<process, mainVars, state, ctx, conn, link>>

LeaveEventLoop ==
    /\ loop = "quit"
    /\ Step("xmpp", "running", "sleep")
    /\ loop' = "notStarted"
    /\ UNCHANGED <<process, mainVars, state, ctx, conn, link>>

\* Up to ten seconds, in steps of half a second that look for a stop request.
WakeUp == Go("xmpp", "sleep", "loop")

Release ==
    /\ Step("xmpp", "release", "clear")
    /\ ctx' = "freed" /\ conn' = "freed" /\ link' = "down"
    /\ UNCHANGED <<process, mainVars, state, loop>>

ClearPointers ==
    /\ Step("xmpp", "clear", "leave")
    /\ ctx' = "null" /\ conn' = "null"
    /\ UNCHANGED <<process, mainVars, state, loop, link>>

XmppStep ==
    \/ Enter("xmpp") \/ Run("xmpp", "setup") \/ SetupContext \/ SetupConnection
    \/ TestXmppLoop \/ ConnectClient \/ EnterEventLoop \/ LeaveEventLoop \/ WakeUp
    \/ Release \/ ClearPointers \/ Leave("xmpp")

\* conn_handler on XMPP_CONN_CONNECT; events only arrive in the event loop.
LinkUp ==
    /\ pc["xmpp"] = "running" /\ loop = "running" /\ link = "connecting"
    /\ link' = "up"
    /\ UNCHANGED <<process, mainVars, pc, state, ctx, conn, loop>>

\* Mutant: conn_handler does not end the event loop.
LinkDownUnnoticed ==
    /\ pc["xmpp"] = "running" /\ loop = "running" /\ link \in {"connecting", "up"}
    /\ link' = "down"
    /\ UNCHANGED <<process, mainVars, pc, state, ctx, conn, loop>>

\* conn_handler on any other event: the connection, or the attempt, is over.
LinkDown ==
    /\ pc["xmpp"] = "running" /\ loop = "running" /\ link \in {"connecting", "up"}
    /\ link' = "down" /\ loop' = "quit"
    /\ UNCHANGED <<process, mainVars, pc, state, ctx, conn>>

-----------------------------------------------------------------------------
(* io                                                                      *)

\* The user ends the command line; scheduler.Run() returns.
Quit ==
    /\ Step("io", "run", "leave")
    /\ state' = [state EXCEPT !["io"] = "STOP_REQUESTED"]
    /\ UNCHANGED <<process, mainVars, xmppVars>>

IoStep == Enter("io") \/ Run("io", "run") \/ Leave("io")

\* Somebody starts the program again, after completing the configuration or not.
Restart ==
    /\ process # "up"
    /\ process' = "up" /\ config' = "placeholder" /\ serverPtr' = FALSE /\ signals' = 0
    /\ pc' = [t \in Threads |-> IF t = "main" THEN "load" ELSE "off"]
    /\ state' = [c \in Components |-> "NOT_RUNNING"]
    /\ ctx' = "null" /\ conn' = "null" /\ loop' = "notStarted" /\ link' = "down"
    /\ file' \in {file, "complete"}
    /\ UNCHANGED noInput

-----------------------------------------------------------------------------

Main == process = "up" /\ MainStep
Handler == process = "up" /\ HandlerStep
Push == process = "up" /\ PushStep
Tcp == process = "up" /\ TcpStep
Asio == process = "up" /\ UseConnection
Xmpp == process = "up" /\ XmppStep
Io == process = "up" /\ IoStep
Connected == process = "up" /\ LinkUp
Environment == process = "up" /\ (Sigint \/ Request \/ LinkDown \/ Quit)

Next == Main \/ Handler \/ Push \/ Tcp \/ Asio \/ Xmpp \/ Io \/ Connected
           \/ Environment \/ Restart

Spec == Init /\ [][Next]_vars

\* No thread is suspended for ever, and an XMPP server that is tried again and
\* again accepts at last.
FairSpec ==
    /\ Spec
    /\ WF_vars(Main) /\ WF_vars(Handler) /\ WF_vars(Push) /\ WF_vars(Tcp)
    /\ WF_vars(Asio) /\ WF_vars(Xmpp) /\ WF_vars(Io)
    /\ SF_vars(Connected)

-----------------------------------------------------------------------------
(* Properties.                                                             *)

Ended == process # "up"

\* Where a thread can be, all threads together.
Places ==
    {"off", "entry", "enter", "leave", "ended",
     "load", "construct", "start", "publish", "wait", "startIo", "waitIo", "stopServer",
     "joinServer", "stopIo", "joinIo", "destroy",
     "check", "stop", "join", "clear",
     "init", "startTcp", "startXmpp", "loop", "stopTcp", "joinTcp", "stopXmpp", "wakeXmpp",
     "joinXmpp", "startService", "stopService", "idle", "serving",
     "setup", "setupConn", "connect", "run", "running", "sleep", "release"}

\* TypeOK: what the variables range over; in particular a configuration in use is
\* complete or all placeholders, never one with fields missing (Serializer).
TypeOK ==
    /\ process \in {"up", "exited", "dead"}
    /\ noInput \in BOOLEAN /\ serverPtr \in BOOLEAN
    /\ file \in ConfigFiles /\ config \in {"placeholder", "complete"}
    /\ signals \in 0..MaxSignals
    /\ pc \in [Threads -> Places]
    /\ state \in [Components -> {"NOT_RUNNING", "STARTING", "RUNNING", "STOP_REQUESTED",
                                 "WAITING_FOR_JOIN"}]
    /\ ctx \in {"null", "live", "freed"} /\ conn \in {"null", "live", "freed"}
    /\ loop \in {"notStarted", "running", "quit"}
    /\ link \in {"down", "connecting", "up", "refused"}

\* CleanExit: when main destroys the server no thread is left that could use it, and
\* none of the destructors' assertions fails (~PushServer, ~TcpServer, ~XmppClient,
\* ~IoThread), whatever raced with what before.
CleanExit ==
    pc["main"] = "destroy" =>
        /\ \A t \in Threads \ {"main", "handler"} : pc[t] \in {"off", "ended"}
        /\ \A c \in Components : state[c] = "NOT_RUNNING"

\* RequestFindsConnection: once the XMPP client is set up, every request finds its
\* connection object, also while the server is being stopped (the order of stop calls
\* in PushServer::thread_run, and TcpServer::threadRun waiting for its service).
RequestFindsConnection ==
    pc["asio"] = "serving"
        /\ pc["xmpp"] \notin {"off", "entry", "enter", "setup", "setupConn"}
      => conn = "live"

\* StopEnds: a stop requested while everything runs ends the process, unless the
\* XMPP connection is lost meanwhile (stop() of all components, conn_handler).
AllUp ==
    /\ pc["push"] = "loop" /\ pc["tcp"] = "loop" /\ pc["xmpp"] = "running"
    /\ \A c \in {"push", "tcp", "xmpp"} : state[c] = "RUNNING"
    /\ link = "up"
Stopping == pc["handler"] = "stop" \/ pc["main"] = "stopServer"
StopEnds == (~Ended /\ Stopping /\ AllUp) ~> (Ended \/ link = "down")

\* Reconnects: a lost connection comes back, unless the server is being stopped or
\* an attempt failed at once, which leaves an event loop without a connection and
\* nothing to end it (XmppClient::thread_run).
Deaf == pc["xmpp"] = "running" /\ loop = "running" /\ link = "refused"
Reconnects ==
    (~Ended /\ state["xmpp"] = "RUNNING" /\ link = "down")
       ~> (Ended \/ link = "up" \/ Deaf \/ state["push"] # "RUNNING")

-----------------------------------------------------------------------------
(* What the documentation says, and the code does not do.                  *)

\* CtrlCExits: once the signal handler has found the server, the process ends. The
\* help text (main.cpp, line 29): "Exit via Ctrl+C".
CtrlCExits == (~Ended /\ pc["handler"] = "stop") ~> Ended

=============================================================================
