--------------------------- MODULE LifecycleProofs --------------------------
(***************************************************************************)
(* Proofs about Lifecycle: however many SIGINTs come and whatever races    *)
(* with what, main only destroys what has stopped, and the clients'        *)
(* requests find the connection object.                                    *)
(***************************************************************************)
EXTENDS Lifecycle, TLAPS

-----------------------------------------------------------------------------
(* The inductive invariant: how far each component can have come, by how   *)
(* far the thread that starts and stops it has.                            *)

Untouched(c) == pc[c] = "off" /\ state[c] = "NOT_RUNNING"
Stopped(c) == pc[c] = "ended" /\ state[c] = "NOT_RUNNING"
\* Started, and nobody has asked it to stop.
Alive(c) == pc[c] # "off" /\ state[c] \in {"STARTING", "RUNNING", "WAITING_FOR_JOIN"}

\* The push server, by how far main and the signal handler have come.
ServerPhase ==
    /\ pc["handler"] \in {"off", "check", "stop", "join", "clear"}
    /\ pc["handler"] # "off" => noInput
    /\ pc["handler"] \in {"stop", "join", "clear"} => serverPtr
    /\ serverPtr => noInput /\ pc["main"] = "wait"
    /\ pc["main"] \in {"load", "construct", "start"} => Untouched("push")
    /\ pc["main"] \in {"publish", "startIo", "waitIo", "stopServer"} => Alive("push")
    /\ serverPtr /\ pc["handler"] \in {"off", "check", "stop"} => Alive("push")
    /\ pc["handler"] = "join" => pc["push"] # "off"
    /\ pc["handler"] = "clear" => Stopped("push")
    /\ pc["main"] = "wait" /\ ~serverPtr => Stopped("push")
    /\ pc["main"] = "joinServer" => pc["push"] # "off"
    /\ pc["main"] \in {"stopIo", "joinIo", "destroy"} => Stopped("push")

\* The command line, by how far main has come.
IoPhase ==
    /\ pc["io"] \in {"off", "entry", "enter", "run", "leave", "ended"}
    /\ state["io"] = "WAITING_FOR_JOIN" => pc["io"] = "ended"
    /\ noInput =>
          /\ Untouched("io")
          /\ pc["main"] \in {"load", "construct", "start", "publish", "wait", "destroy"}
    /\ ~noInput => pc["main"] \notin {"publish", "wait"}
    /\ pc["main"] \in {"load", "construct", "start", "startIo"} => Untouched("io")
    /\ pc["main"] \in {"stopServer", "joinServer", "stopIo", "joinIo"} =>
          state["io"] = "WAITING_FOR_JOIN"
    /\ pc["main"] = "destroy" => pc["io"] \in {"off", "ended"} /\ state["io"] = "NOT_RUNNING"

PushPlaces == {"off", "entry", "enter", "init", "startTcp", "startXmpp", "loop", "stopTcp",
               "joinTcp", "stopXmpp", "wakeXmpp", "joinXmpp", "leave", "ended"}

\* The TCP server and its service, by how far the push server has come.
TcpPhase ==
    /\ pc["push"] \in PushPlaces
    /\ pc["tcp"] \in
          {"off", "entry", "enter", "startService", "loop", "stopService", "leave", "ended"}
    /\ pc["asio"] \in IF pc["tcp"] \in {"loop", "stopService"} THEN {"idle", "serving"} ELSE {"off"}
    /\ pc["push"] \in {"off", "entry", "enter", "init", "startTcp"} => Untouched("tcp")
    /\ pc["push"] \in {"startXmpp", "loop", "stopTcp"} => Alive("tcp")
    /\ pc["push"] \in {"stopXmpp", "wakeXmpp", "joinXmpp", "leave"} => Stopped("tcp")
    /\ pc["push"] = "ended" => Untouched("tcp") \/ Stopped("tcp")

\* The XMPP client, by how far the push server has come.
XmppPhase ==
    /\ pc["push"] \in {"off", "entry", "enter", "init", "startTcp", "startXmpp"} =>
          Untouched("xmpp")
    /\ pc["push"] \in {"loop", "stopTcp", "joinTcp", "stopXmpp"} =>
          \/ pc["xmpp"] \in {"entry", "enter"} /\ state["xmpp"] = "STARTING"
          \/ /\ pc["xmpp"] \in {"setup", "setupConn", "loop", "connect", "run", "running", "sleep"}
             /\ state["xmpp"] = "RUNNING"
    /\ pc["push"] = "leave" => Stopped("xmpp")
    /\ pc["push"] = "ended" => Untouched("xmpp") \/ Stopped("xmpp")
    /\ pc["xmpp"] \in {"loop", "connect", "run", "running", "sleep"} => conn = "live"

LifeInv == TypeOK /\ ServerPhase /\ IoPhase /\ TcpPhase /\ XmppPhase

-----------------------------------------------------------------------------
(* One step of a thread.                                                   *)

States == {"NOT_RUNNING", "STARTING", "RUNNING", "STOP_REQUESTED", "WAITING_FOR_JOIN"}

\* What a step leaves behind, component by component.
Joined(t, from, c, to) ==
    /\ TypeOK'
    /\ pc[t] = from /\ pc'[t] = to /\ \A s \in Threads \ {t} : pc'[s] = pc[s]
    /\ pc[c] = "ended" /\ state'[c] = "NOT_RUNNING"
    /\ \A s \in Components \ {c} : state'[s] = state[s]
    /\ UNCHANGED <<process, mainVars, xmppVars>>

Started(t, from, c, to) ==
    /\ TypeOK'
    /\ pc[t] = from /\ pc'[t] = to /\ pc'[c] = "entry"
    /\ \A s \in Threads \ {t, c} : pc'[s] = pc[s]
    /\ state'[c] = "STARTING" /\ \A s \in Components \ {c} : state'[s] = state[s]
    /\ UNCHANGED <<process, mainVars, xmppVars>>

StopRequested(t, from, c, wake, join, after) ==
    /\ TypeOK'
    /\ pc[t] = from /\ \A s \in Threads \ {t} : pc'[s] = pc[s]
    /\ \/ /\ state[c] \in {"STARTING", "RUNNING"} /\ state'[c] = "STOP_REQUESTED"
          /\ pc'[t] = wake
       \/ state[c] = "WAITING_FOR_JOIN" /\ state'[c] = state[c] /\ pc'[t] = join
       \/ /\ state[c] \in {"NOT_RUNNING", "STOP_REQUESTED"} /\ state'[c] = state[c]
          /\ pc'[t] = after
    /\ \A s \in Components \ {c} : state'[s] = state[s]
    /\ UNCHANGED <<process, mainVars, xmppVars>>

\* Thread c is in thread_run: it goes from one place to another and may write its state.
Moved(c, from, to, new) ==
    /\ TypeOK'
    /\ pc[c] = from /\ pc'[c] = to /\ \A s \in Threads \ {c} : pc'[s] = pc[s]
    /\ state'[c] = new /\ \A s \in Components \ {c} : state'[s] = state[s]
    /\ UNCHANGED <<process, mainVars, xmppVars>>

LEMMA StepMoves ==
    ASSUME TypeOK, NEW t \in Threads, NEW from, NEW to \in Places, Step(t, from, to)
    PROVE  /\ pc' \in [Threads -> Places]
           /\ pc[t] = from /\ pc'[t] = to /\ \A s \in Threads \ {t} : pc'[s] = pc[s]
BY DEF TypeOK, Step

LEMMA GoMoves ==
    ASSUME TypeOK, NEW t \in Threads, NEW from, NEW to \in Places, Go(t, from, to)
    PROVE  /\ TypeOK'
           /\ pc[t] = from /\ pc'[t] = to /\ \A s \in Threads \ {t} : pc'[s] = pc[s]
           /\ UNCHANGED <<process, mainVars, state, xmppVars>>
<1>1. Step(t, from, to) /\ UNCHANGED <<process, mainVars, state, xmppVars>>
  BY DEF Go
<1> QED
  BY <1>1, StepMoves DEF TypeOK, mainVars, xmppVars

LEMMA StartMoves ==
    ASSUME TypeOK, NEW t \in Threads, NEW from, NEW c \in Components, NEW to \in Places,
           t # c, Start(t, from, c, to)
    PROVE  Started(t, from, c, to)
<1>1. /\ pc' = [pc EXCEPT ![t] = to, ![c] = "entry"] /\ pc[t] = from
      /\ state' = [state EXCEPT ![c] = "STARTING"]
      /\ UNCHANGED <<process, mainVars, xmppVars>>
  BY DEF Start
<1>2. c \in Threads
  BY DEF Threads
<1>3. pc' \in [Threads -> Places]
  BY <1>1 DEF TypeOK, Places
<1>4. TypeOK'
  BY <1>1, <1>3 DEF TypeOK, mainVars, xmppVars
<1> QED
  BY <1>1, <1>2, <1>4 DEF TypeOK, Started

LEMMA RequestStopMoves ==
    ASSUME TypeOK, NEW t \in Threads, NEW from, NEW c \in Components,
           NEW wake \in Places, NEW join \in Places, NEW after \in Places,
           RequestStop(t, from, c, wake, join, after)
    PROVE  StopRequested(t, from, c, wake, join, after)
<1> DEFINE to == CASE state[c] \in {"STARTING", "RUNNING"} -> wake
                   [] state[c] = "WAITING_FOR_JOIN" -> join
                   [] OTHER -> after
<1>1. /\ Step(t, from, to)
      /\ state' = IF state[c] \in {"STARTING", "RUNNING"}
                    THEN [state EXCEPT ![c] = "STOP_REQUESTED"] ELSE state
      /\ UNCHANGED <<process, mainVars, xmppVars>>
  BY DEF RequestStop
<1>2. state[c] \in States /\ state \in [Components -> States]
  BY DEF TypeOK, States
<1>3. /\ to \in Places
      /\ state[c] \in {"STARTING", "RUNNING"} => to = wake
      /\ state[c] = "WAITING_FOR_JOIN" => to = join
      /\ state[c] \in {"NOT_RUNNING", "STOP_REQUESTED"} => to = after
  BY <1>2 DEF States
<1> HIDE DEF to
<1>4. /\ pc' \in [Threads -> Places]
      /\ pc[t] = from /\ pc'[t] = to /\ \A s \in Threads \ {t} : pc'[s] = pc[s]
  BY <1>1, <1>3, StepMoves
<1>5. state' \in [Components -> States]
  BY <1>1, <1>2 DEF States
<1>6. TypeOK'
  BY <1>1, <1>4, <1>5 DEF TypeOK, mainVars, xmppVars, States
<1> QED
  BY <1>1, <1>2, <1>3, <1>4, <1>6 DEF States, StopRequested

LEMMA JoinMoves ==
    ASSUME TypeOK, NEW t \in Threads, NEW from, NEW c \in Components, NEW to \in Places,
           Join(t, from, c, to)
    PROVE  Joined(t, from, c, to)
<1>1. /\ Step(t, from, to) /\ pc[c] = "ended"
      /\ state' = [state EXCEPT ![c] = "NOT_RUNNING"]
      /\ UNCHANGED <<process, mainVars, xmppVars>>
  BY DEF Join
<1>2. /\ pc' \in [Threads -> Places]
      /\ pc[t] = from /\ pc'[t] = to /\ \A s \in Threads \ {t} : pc'[s] = pc[s]
  BY <1>1, StepMoves
<1>3. TypeOK'
  BY <1>1, <1>2 DEF TypeOK, mainVars, xmppVars
<1> QED
  BY <1>1, <1>2, <1>3 DEF TypeOK, Joined

\* thread_run's own steps.
LEMMA EnterMoves ==
    ASSUME TypeOK, NEW c \in Components, Enter(c)
    PROVE  Moved(c, "entry", IF state[c] = "STARTING" THEN "enter" ELSE "ended", state[c])
<1> DEFINE to == IF state[c] = "STARTING" THEN "enter" ELSE "ended"
<1>1. Go(c, "entry", to)
  BY DEF Enter, Go
<1>2. to \in Places /\ c \in Threads
  BY DEF Places, Threads
<1> HIDE DEF to
<1>3. /\ TypeOK'
      /\ pc[c] = "entry" /\ pc'[c] = to /\ \A s \in Threads \ {c} : pc'[s] = pc[s]
      /\ UNCHANGED <<process, mainVars, state, xmppVars>>
  BY <1>1, <1>2, GoMoves
<1> QED
  BY <1>3 DEF to, Moved

LEMMA RunMoves ==
    ASSUME TypeOK, NEW c \in Components, NEW to \in Places, Run(c, to)
    PROVE  Moved(c, "enter", to, "RUNNING")
<1>1. /\ Step(c, "enter", to) /\ state' = [state EXCEPT ![c] = "RUNNING"]
      /\ UNCHANGED <<process, mainVars, xmppVars>>
  BY DEF Run
<1>2. c \in Threads
  BY DEF Threads
<1>3. /\ pc' \in [Threads -> Places]
      /\ pc[c] = "enter" /\ pc'[c] = to /\ \A s \in Threads \ {c} : pc'[s] = pc[s]
  BY <1>1, <1>2, StepMoves
<1>4. TypeOK'
  BY <1>1, <1>3 DEF TypeOK, mainVars, xmppVars
<1> QED
  BY <1>1, <1>3, <1>4 DEF TypeOK, Moved

LEMMA LeaveMoves ==
    ASSUME TypeOK, NEW c \in Components, Leave(c)
    PROVE  Moved(c, "leave", "ended", "WAITING_FOR_JOIN")
<1>1. /\ Step(c, "leave", "ended") /\ state' = [state EXCEPT ![c] = "WAITING_FOR_JOIN"]
      /\ UNCHANGED <<process, mainVars, xmppVars>>
  BY DEF Leave
<1>2. c \in Threads /\ "ended" \in Places
  BY DEF Threads, Places
<1>3. /\ pc' \in [Threads -> Places]
      /\ pc[c] = "leave" /\ pc'[c] = "ended" /\ \A s \in Threads \ {c} : pc'[s] = pc[s]
  BY <1>1, <1>2, StepMoves
<1>4. TypeOK'
  BY <1>1, <1>3 DEF TypeOK, mainVars, xmppVars
<1> QED
  BY <1>1, <1>3, <1>4 DEF TypeOK, Moved

\* What each part of the invariant is about.
LEMMA ServerFrame ==
    ASSUME ServerPhase, UNCHANGED <<noInput, serverPtr>>, state'["push"] = state["push"],
           \A t \in {"main", "handler", "push"} : pc'[t] = pc[t]
    PROVE  ServerPhase'
BY DEF ServerPhase, Untouched, Stopped, Alive

LEMMA IoFrame ==
    ASSUME IoPhase, UNCHANGED noInput, state'["io"] = state["io"],
           \A t \in {"main", "io"} : pc'[t] = pc[t]
    PROVE  IoPhase'
BY DEF IoPhase, Untouched, Stopped, Alive

LEMMA TcpFrame ==
    ASSUME TcpPhase, state'["tcp"] = state["tcp"],
           \A t \in {"push", "tcp", "asio"} : pc'[t] = pc[t]
    PROVE  TcpPhase'
BY DEF TcpPhase, Untouched, Stopped, Alive

LEMMA XmppFrame ==
    ASSUME XmppPhase, UNCHANGED conn, state'["xmpp"] = state["xmpp"],
           \A t \in {"push", "xmpp"} : pc'[t] = pc[t]
    PROVE  XmppPhase'
BY DEF XmppPhase, Untouched, Stopped, Alive

LEMMA Dies == LifeInv /\ Die => LifeInv'
<1> SUFFICES ASSUME LifeInv, Die PROVE LifeInv'
  OBVIOUS
<1>1. TypeOK'
  BY DEF LifeInv, Die, TypeOK, mainVars, xmppVars
<1> QED
  BY <1>1, ServerFrame, IoFrame, TcpFrame, XmppFrame
  DEF LifeInv, Die, mainVars, xmppVars

-----------------------------------------------------------------------------
(* main and the signal handler.                                            *)

Parts == ServerPhase /\ IoPhase /\ TcpPhase /\ XmppPhase

LEMMA LoadingInv ==
    ASSUME LifeInv, LoadConfiguration \/ Construct
    PROVE  LifeInv'
<1>1. TypeOK /\ Parts
  BY DEF LifeInv, Parts
<1>2. CASE Die
  BY <1>2, Dies
<1>3. CASE Step("main", "load", "construct") /\ LoadConfiguration /\ ~Die
  <2>1. /\ config' \in {"placeholder", "complete"} /\ file' \in ConfigFiles
        /\ UNCHANGED <<process, noInput, serverPtr, signals, state, xmppVars>>
    BY <1>1, <1>3 DEF LoadConfiguration, TypeOK, ConfigFiles
  <2>2. /\ pc' \in [Threads -> Places]
        /\ pc["main"] = "load" /\ pc'["main"] = "construct"
        /\ \A s \in Threads \ {"main"} : pc'[s] = pc[s]
    BY <1>1, <1>3, StepMoves DEF Threads, Places
  <2>3. TypeOK'
    BY <1>1, <2>1, <2>2 DEF TypeOK, xmppVars
  <2>4. ServerPhase'
    BY <1>1, <2>1, <2>2 DEF Parts, ServerPhase, Untouched, Stopped, Alive, Threads, Components
  <2>5. IoPhase'
    BY <1>1, <2>1, <2>2 DEF Parts, IoPhase, Untouched, Threads, Components
  <2>6. TcpPhase' /\ XmppPhase'
    BY <1>1, <2>1, <2>2, TcpFrame, XmppFrame DEF Parts, Threads, Components, xmppVars
  <2> QED
    BY <2>3, <2>4, <2>5, <2>6 DEF LifeInv
<1>4. CASE Go("main", "construct", "start")
  <2>1. /\ TypeOK'
        /\ pc["main"] = "construct" /\ pc'["main"] = "start"
        /\ \A s \in Threads \ {"main"} : pc'[s] = pc[s]
        /\ UNCHANGED <<process, mainVars, state, xmppVars>>
    BY <1>1, <1>4, GoMoves DEF Threads, Places
  <2>2. ServerPhase'
    BY <1>1, <2>1
    DEF Parts, ServerPhase, Untouched, Stopped, Alive, Threads, Components, mainVars
  <2>3. IoPhase'
    BY <1>1, <2>1 DEF Parts, IoPhase, Untouched, Threads, Components, mainVars
  <2>4. TcpPhase' /\ XmppPhase'
    BY <1>1, <2>1, TcpFrame, XmppFrame DEF Parts, Threads, Components, xmppVars
  <2> QED
    BY <2>1, <2>2, <2>3, <2>4 DEF LifeInv
<1> QED
  BY <1>2, <1>3, <1>4 DEF LoadConfiguration, Construct

LEMMA StartingInv ==
    ASSUME LifeInv, pc["handler"] = "off",
           StartServer \/ PublishServer \/ Start("main", "startIo", "io", "waitIo")
    PROVE  LifeInv'
<1>1. TypeOK /\ Parts
  BY DEF LifeInv, Parts
<1>2. CASE StartServer
  <2> DEFINE to == IF noInput THEN "publish" ELSE "startIo"
  <2>1. to \in Places /\ "main" \in Threads /\ "push" \in Components
    BY DEF Places, Threads, Components
  <2>2. Start("main", "start", "push", to)
    BY <1>2 DEF StartServer
  <2> HIDE DEF to
  <2>0. Started("main", "start", "push", to)
    BY <1>1, <2>1, <2>2, StartMoves
  <2>3. /\ TypeOK'
        /\ pc["main"] = "start" /\ pc'["main"] = to /\ pc'["push"] = "entry"
        /\ \A s \in Threads \ {"main", "push"} : pc'[s] = pc[s]
        /\ state'["push"] = "STARTING"
        /\ \A s \in Components \ {"push"} : state'[s] = state[s]
        /\ UNCHANGED <<process, mainVars, xmppVars>>
    BY <2>0 DEF Started
  <2>4. Untouched("push") /\ ~serverPtr
    BY <1>1, <2>3 DEF Parts, ServerPhase
  <2>5. ServerPhase'
    BY <1>1, <2>3, <2>4
    DEF to, Parts, ServerPhase, Untouched, Stopped, Alive, Threads, Components, mainVars
  <2>6. IoPhase'
    BY <1>1, <2>3 DEF to, Parts, IoPhase, Untouched, Threads, Components, mainVars
  <2>7. TcpPhase'
    BY <1>1, <2>3, <2>4
    DEF Parts, TcpPhase, PushPlaces, Untouched, Stopped, Alive, Threads, Components
  <2>8. XmppPhase'
    BY <1>1, <2>3, <2>4
    DEF Parts, XmppPhase, Untouched, Stopped, Threads, Components, xmppVars
  <2> QED
    BY <2>3, <2>5, <2>6, <2>7, <2>8 DEF LifeInv
<1>3. CASE PublishServer
  <2>1. /\ Step("main", "publish", "wait") /\ serverPtr' = TRUE
        /\ UNCHANGED <<process, noInput, file, config, signals, state, xmppVars>>
    BY <1>3 DEF PublishServer
  <2>2. /\ pc' \in [Threads -> Places]
        /\ pc["main"] = "publish" /\ pc'["main"] = "wait"
        /\ \A s \in Threads \ {"main"} : pc'[s] = pc[s]
    BY <1>1, <2>1, StepMoves DEF Threads, Places
  <2>3. TypeOK'
    BY <1>1, <2>1, <2>2 DEF TypeOK, xmppVars
  <2>4. IoPhase'
    BY <1>1, <2>1, <2>2 DEF Parts, IoPhase, Untouched, Threads, Components
  <2>5. noInput
    BY <1>1, <2>2 DEF Parts, IoPhase
  <2>6. ServerPhase'
    BY <1>1, <2>1, <2>2, <2>5
    DEF Parts, ServerPhase, Untouched, Stopped, Alive, Threads, Components
  <2>7. TcpPhase' /\ XmppPhase'
    BY <1>1, <2>1, <2>2, TcpFrame, XmppFrame DEF Parts, Threads, Components, xmppVars
  <2> QED
    BY <2>3, <2>4, <2>6, <2>7 DEF LifeInv
<1>4. CASE Start("main", "startIo", "io", "waitIo")
  <2>1. "main" \in Threads /\ "io" \in Components /\ "waitIo" \in Places
    BY DEF Threads, Components, Places
  <2>0. Started("main", "startIo", "io", "waitIo")
    BY <1>1, <1>4, <2>1, StartMoves
  <2>2. /\ TypeOK'
        /\ pc["main"] = "startIo" /\ pc'["main"] = "waitIo" /\ pc'["io"] = "entry"
        /\ \A s \in Threads \ {"main", "io"} : pc'[s] = pc[s]
        /\ state'["io"] = "STARTING"
        /\ \A s \in Components \ {"io"} : state'[s] = state[s]
        /\ UNCHANGED <<process, mainVars, xmppVars>>
    BY <2>0 DEF Started
  <2>3. ServerPhase'
    BY <1>1, <2>2
    DEF Parts, ServerPhase, Untouched, Stopped, Alive, Threads, Components, mainVars
  <2>4. IoPhase'
    BY <1>1, <2>2 DEF Parts, IoPhase, Untouched, Threads, Components, mainVars
  <2>5. TcpPhase' /\ XmppPhase'
    BY <1>1, <2>2, TcpFrame, XmppFrame DEF Parts, Threads, Components, xmppVars
  <2> QED
    BY <2>2, <2>3, <2>4, <2>5 DEF LifeInv
<1> QED
  BY <1>2, <1>3, <1>4

LEMMA StoppingInv ==
    ASSUME LifeInv, pc["handler"] = "off",
           \/ Wait
           \/ RequestStop("main", "stopServer", "push", "joinServer", "joinServer", "stopIo")
           \/ Join("main", "joinServer", "push", "stopIo")
           \/ RequestStop("main", "stopIo", "io", "joinIo", "joinIo", "destroy")
           \/ Join("main", "joinIo", "io", "destroy")
    PROVE  LifeInv'
<1>1. TypeOK /\ Parts
  BY DEF LifeInv, Parts
<1>a. /\ "main" \in Threads /\ "push" \in Components /\ "io" \in Components
      /\ {"stopIo", "joinServer", "joinIo", "destroy", "stopServer"} \subseteq Places
  BY DEF Threads, Components, Places
<1>2. CASE Wait
  <2>1. \/ ~serverPtr /\ Go("main", "wait", "destroy")
        \/ state["io"] = "WAITING_FOR_JOIN" /\ Go("main", "waitIo", "stopServer")
    BY <1>2 DEF Wait
  <2>2. /\ TypeOK' /\ \A s \in Threads \ {"main"} : pc'[s] = pc[s]
        /\ UNCHANGED <<process, mainVars, state, xmppVars>>
        /\ \/ ~serverPtr /\ pc["main"] = "wait" /\ pc'["main"] = "destroy"
           \/ /\ state["io"] = "WAITING_FOR_JOIN"
              /\ pc["main"] = "waitIo" /\ pc'["main"] = "stopServer"
    BY <1>1, <1>a, <2>1, GoMoves
  <2>3. ServerPhase'
    BY <1>1, <2>2
    DEF Parts, ServerPhase, Untouched, Stopped, Alive, Threads, Components, mainVars
  <2>4. IoPhase'
    BY <1>1, <2>2 DEF Parts, IoPhase, Untouched, Threads, Components, mainVars
  <2>5. TcpPhase' /\ XmppPhase'
    BY <1>1, <2>2, TcpFrame, XmppFrame DEF Parts, Threads, Components, xmppVars
  <2> QED
    BY <2>2, <2>3, <2>4, <2>5 DEF LifeInv
<1>3. CASE RequestStop("main", "stopServer", "push", "joinServer", "joinServer", "stopIo")
  <2>0. StopRequested("main", "stopServer", "push", "joinServer", "joinServer", "stopIo")
    BY <1>1, <1>3, <1>a, RequestStopMoves
  <2>1. /\ TypeOK' /\ pc["main"] = "stopServer"
        /\ \A s \in Threads \ {"main"} : pc'[s] = pc[s]
        /\ \/ state["push"] \in {"STARTING", "RUNNING", "WAITING_FOR_JOIN"}
              /\ pc'["main"] = "joinServer"
           \/ state["push"] \in {"NOT_RUNNING", "STOP_REQUESTED"}
        /\ \A s \in Components \ {"push"} : state'[s] = state[s]
        /\ UNCHANGED <<process, mainVars, xmppVars>>
    BY <2>0 DEF StopRequested
  <2>2. Alive("push") /\ ~serverPtr
    BY <1>1, <2>1 DEF Parts, ServerPhase
  <2>3. pc'["main"] = "joinServer"
    BY <2>1, <2>2 DEF Alive
  <2>4. ServerPhase'
    BY <1>1, <2>1, <2>2, <2>3
    DEF Parts, ServerPhase, Untouched, Stopped, Alive, Threads, Components, mainVars
  <2>5. IoPhase'
    BY <1>1, <2>1, <2>3 DEF Parts, IoPhase, Untouched, Threads, Components, mainVars
  <2>6. TcpPhase' /\ XmppPhase'
    BY <1>1, <2>1, TcpFrame, XmppFrame DEF Parts, Threads, Components, xmppVars
  <2> QED
    BY <2>1, <2>4, <2>5, <2>6 DEF LifeInv
<1>4. CASE Join("main", "joinServer", "push", "stopIo")
  <2>0. Joined("main", "joinServer", "push", "stopIo")
    BY <1>1, <1>4, <1>a, JoinMoves
  <2>1. /\ TypeOK' /\ pc["main"] = "joinServer" /\ pc'["main"] = "stopIo"
        /\ \A s \in Threads \ {"main"} : pc'[s] = pc[s]
        /\ pc["push"] = "ended" /\ state'["push"] = "NOT_RUNNING"
        /\ \A s \in Components \ {"push"} : state'[s] = state[s]
        /\ UNCHANGED <<process, mainVars, xmppVars>>
    BY <2>0 DEF Joined
  <2>2. ServerPhase'
    BY <1>1, <2>1
    DEF Parts, ServerPhase, Untouched, Stopped, Alive, Threads, Components, mainVars
  <2>3. IoPhase'
    BY <1>1, <2>1 DEF Parts, IoPhase, Untouched, Threads, Components, mainVars
  <2>4. TcpPhase' /\ XmppPhase'
    BY <1>1, <2>1, TcpFrame, XmppFrame DEF Parts, Threads, Components, xmppVars
  <2> QED
    BY <2>1, <2>2, <2>3, <2>4 DEF LifeInv
<1>5. CASE RequestStop("main", "stopIo", "io", "joinIo", "joinIo", "destroy")
  <2>0. StopRequested("main", "stopIo", "io", "joinIo", "joinIo", "destroy")
    BY <1>1, <1>5, <1>a, RequestStopMoves
  <2>1. /\ TypeOK' /\ pc["main"] = "stopIo"
        /\ \A s \in Threads \ {"main"} : pc'[s] = pc[s]
        /\ \/ /\ state["io"] = "WAITING_FOR_JOIN" /\ state'["io"] = state["io"]
              /\ pc'["main"] = "joinIo"
           \/ state["io"] # "WAITING_FOR_JOIN"
        /\ \A s \in Components \ {"io"} : state'[s] = state[s]
        /\ UNCHANGED <<process, mainVars, xmppVars>>
    BY <2>0 DEF StopRequested
  <2>2. state["io"] = "WAITING_FOR_JOIN"
    BY <1>1, <2>1 DEF Parts, IoPhase
  <2>3. ServerPhase'
    BY <1>1, <2>1, <2>2
    DEF Parts, ServerPhase, Untouched, Stopped, Alive, Threads, Components, mainVars
  <2>4. IoPhase'
    BY <1>1, <2>1, <2>2 DEF Parts, IoPhase, Untouched, Threads, Components, mainVars
  <2>5. TcpPhase' /\ XmppPhase'
    BY <1>1, <2>1, TcpFrame, XmppFrame DEF Parts, Threads, Components, xmppVars
  <2> QED
    BY <2>1, <2>3, <2>4, <2>5 DEF LifeInv
<1>6. CASE Join("main", "joinIo", "io", "destroy")
  <2>0. Joined("main", "joinIo", "io", "destroy")
    BY <1>1, <1>6, <1>a, JoinMoves
  <2>1. /\ TypeOK' /\ pc["main"] = "joinIo" /\ pc'["main"] = "destroy"
        /\ \A s \in Threads \ {"main"} : pc'[s] = pc[s]
        /\ pc["io"] = "ended" /\ state'["io"] = "NOT_RUNNING"
        /\ \A s \in Components \ {"io"} : state'[s] = state[s]
        /\ UNCHANGED <<process, mainVars, xmppVars>>
    BY <2>0 DEF Joined
  <2>2. ServerPhase'
    BY <1>1, <2>1
    DEF Parts, ServerPhase, Untouched, Stopped, Alive, Threads, Components, mainVars
  <2>3. IoPhase'
    BY <1>1, <2>1 DEF Parts, IoPhase, Untouched, Threads, Components, mainVars
  <2>4. TcpPhase' /\ XmppPhase'
    BY <1>1, <2>1, TcpFrame, XmppFrame DEF Parts, Threads, Components, xmppVars
  <2> QED
    BY <2>1, <2>2, <2>3, <2>4 DEF LifeInv
<1> QED
  BY <1>2, <1>3, <1>4, <1>5, <1>6

LEMMA DestroyInv == LifeInv /\ Destroy => LifeInv'
<1> SUFFICES ASSUME LifeInv, Destroy PROVE LifeInv'
  OBVIOUS
<1>1. UNCHANGED <<mainVars, pc, state, xmppVars>> /\ process' \in {"exited", "dead"}
  BY DEF Destroy
<1>2. TypeOK'
  BY <1>1 DEF LifeInv, TypeOK, mainVars, xmppVars
<1> QED
  BY <1>1, <1>2, ServerFrame, IoFrame, TcpFrame, XmppFrame DEF LifeInv, mainVars, xmppVars

LEMMA HandlerInv ==
    ASSUME LifeInv, HandlerStep \/ Sigint
    PROVE  LifeInv'
<1>1. TypeOK /\ Parts
  BY DEF LifeInv, Parts
<1>a. /\ "handler" \in Threads /\ "push" \in Components
      /\ {"check", "stop", "join", "clear", "off"} \subseteq Places
  BY DEF Threads, Components, Places
<1>2. CASE Sigint
  <2>1. /\ Step("handler", "off", "check") /\ noInput /\ signals' \in 0..MaxSignals
        /\ UNCHANGED <<process, noInput, file, config, serverPtr, state, xmppVars>>
    BY <1>1, <1>2, MaxSignalsAssumption DEF Sigint, TypeOK
  <2>2. /\ pc' \in [Threads -> Places]
        /\ pc["handler"] = "off" /\ pc'["handler"] = "check"
        /\ \A s \in Threads \ {"handler"} : pc'[s] = pc[s]
    BY <1>1, <1>a, <2>1, StepMoves
  <2>3. TypeOK'
    BY <1>1, <2>1, <2>2 DEF TypeOK, xmppVars
  <2>4. ServerPhase'
    BY <1>1, <2>1, <2>2
    DEF Parts, ServerPhase, Untouched, Stopped, Alive, Threads, Components
  <2>5. IoPhase' /\ TcpPhase' /\ XmppPhase'
    BY <1>1, <2>1, <2>2, IoFrame, TcpFrame, XmppFrame DEF Parts, Threads, Components, xmppVars
  <2> QED
    BY <2>3, <2>4, <2>5 DEF LifeInv
<1>3. CASE CheckServerPtr
  <2> DEFINE to == IF serverPtr THEN "stop" ELSE "off"
  <2>1. to \in Places /\ Go("handler", "check", to)
    BY <1>3, <1>a DEF CheckServerPtr
  <2> HIDE DEF to
  <2>2. /\ TypeOK' /\ pc["handler"] = "check" /\ pc'["handler"] = to
        /\ \A s \in Threads \ {"handler"} : pc'[s] = pc[s]
        /\ UNCHANGED <<process, mainVars, state, xmppVars>>
    BY <1>1, <1>a, <2>1, GoMoves
  <2>3. ServerPhase'
    BY <1>1, <2>2
    DEF to, Parts, ServerPhase, Untouched, Stopped, Alive, Threads, Components, mainVars
  <2>4. IoPhase' /\ TcpPhase' /\ XmppPhase'
    BY <1>1, <2>2, IoFrame, TcpFrame, XmppFrame
    DEF Parts, Threads, Components, mainVars, xmppVars
  <2> QED
    BY <2>2, <2>3, <2>4 DEF LifeInv
<1>4. CASE RequestStop("handler", "stop", "push", "join", "join", "clear")
  <2>0. StopRequested("handler", "stop", "push", "join", "join", "clear")
    BY <1>1, <1>4, <1>a, RequestStopMoves
  <2>1. /\ TypeOK' /\ pc["handler"] = "stop"
        /\ \A s \in Threads \ {"handler"} : pc'[s] = pc[s]
        /\ \/ state["push"] \in {"STARTING", "RUNNING", "WAITING_FOR_JOIN"}
              /\ pc'["handler"] = "join"
           \/ state["push"] \in {"NOT_RUNNING", "STOP_REQUESTED"}
        /\ \A s \in Components \ {"push"} : state'[s] = state[s]
        /\ UNCHANGED <<process, mainVars, xmppVars>>
    BY <2>0 DEF StopRequested
  <2>2. Alive("push") /\ serverPtr
    BY <1>1, <2>1 DEF Parts, ServerPhase
  <2>3. pc'["handler"] = "join"
    BY <2>1, <2>2 DEF Alive
  <2>4. ServerPhase'
    BY <1>1, <2>1, <2>2, <2>3
    DEF Parts, ServerPhase, Untouched, Stopped, Alive, Threads, Components, mainVars
  <2>5. IoPhase' /\ TcpPhase' /\ XmppPhase'
    BY <1>1, <2>1, IoFrame, TcpFrame, XmppFrame
    DEF Parts, Threads, Components, mainVars, xmppVars
  <2> QED
    BY <2>1, <2>4, <2>5 DEF LifeInv
<1>5. CASE Join("handler", "join", "push", "clear")
  <2>0. Joined("handler", "join", "push", "clear")
    BY <1>1, <1>5, <1>a, JoinMoves
  <2>1. /\ TypeOK' /\ pc["handler"] = "join" /\ pc'["handler"] = "clear"
        /\ \A s \in Threads \ {"handler"} : pc'[s] = pc[s]
        /\ pc["push"] = "ended" /\ state'["push"] = "NOT_RUNNING"
        /\ \A s \in Components \ {"push"} : state'[s] = state[s]
        /\ UNCHANGED <<process, mainVars, xmppVars>>
    BY <2>0 DEF Joined
  <2>2. ServerPhase'
    BY <1>1, <2>1
    DEF Parts, ServerPhase, Untouched, Stopped, Alive, Threads, Components, mainVars
  <2>3. IoPhase' /\ TcpPhase' /\ XmppPhase'
    BY <1>1, <2>1, IoFrame, TcpFrame, XmppFrame
    DEF Parts, Threads, Components, mainVars, xmppVars
  <2> QED
    BY <2>1, <2>2, <2>3 DEF LifeInv
<1>6. CASE ClearServerPtr
  <2>1. /\ Step("handler", "clear", "off") /\ serverPtr' = FALSE
        /\ UNCHANGED <<process, noInput, file, config, signals, state, xmppVars>>
    BY <1>6 DEF ClearServerPtr
  <2>2. /\ pc' \in [Threads -> Places]
        /\ pc["handler"] = "clear" /\ pc'["handler"] = "off"
        /\ \A s \in Threads \ {"handler"} : pc'[s] = pc[s]
    BY <1>1, <1>a, <2>1, StepMoves
  <2>3. TypeOK'
    BY <1>1, <2>1, <2>2 DEF TypeOK, xmppVars
  <2>4. ServerPhase'
    BY <1>1, <2>1, <2>2
    DEF Parts, ServerPhase, Untouched, Stopped, Alive, Threads, Components
  <2>5. IoPhase' /\ TcpPhase' /\ XmppPhase'
    BY <1>1, <2>1, <2>2, IoFrame, TcpFrame, XmppFrame DEF Parts, Threads, Components, xmppVars
  <2> QED
    BY <2>3, <2>4, <2>5 DEF LifeInv
<1> QED
  BY <1>2, <1>3, <1>4, <1>5, <1>6 DEF HandlerStep

-----------------------------------------------------------------------------
(* push                                                                    *)

\* To main and the handler it is all the same where between its start and its end the
\* push server is.
LEMMA ServerKeeps ==
    ASSUME ServerPhase, UNCHANGED <<noInput, serverPtr>>,
           pc["push"] \notin {"off", "ended"}, pc'["push"] # "off",
           \A t \in {"main", "handler"} : pc'[t] = pc[t],
           state'["push"] \in {state["push"], "RUNNING", "WAITING_FOR_JOIN"}
    PROVE  ServerPhase'
BY DEF ServerPhase, Untouched, Stopped, Alive

\* push moves from one place to another.
LEMMA PushMoves ==
    ASSUME LifeInv, NEW from, NEW to, NEW new, Moved("push", from, to, new),
           from \notin {"off", "ended"}, to \in PushPlaces \ {"off"},
           new \in {state["push"], "RUNNING", "WAITING_FOR_JOIN"},
           \/ from \in {"entry", "enter", "init"} /\ to \in {"enter", "init", "startTcp", "ended"}
           \/ from = "loop" /\ to = "stopTcp"
           \/ from = "leave" /\ to = "ended"
    PROVE  LifeInv'
<1>1. TypeOK' /\ TypeOK /\ Parts
  BY DEF LifeInv, Parts, Moved
<1>2. /\ pc["push"] = from /\ pc'["push"] = to /\ state'["push"] = new
      /\ \A t \in Threads \ {"push"} : pc'[t] = pc[t]
      /\ \A c \in Components \ {"push"} : state'[c] = state[c]
      /\ UNCHANGED <<mainVars, xmppVars>>
  BY DEF Moved
<1>3. ServerPhase'
  BY <1>1, <1>2, ServerKeeps DEF Parts, Threads, Components, mainVars
<1>4. IoPhase'
  BY <1>1, <1>2, IoFrame DEF Parts, Threads, Components, mainVars
<1>5. /\ pc'["tcp"] = pc["tcp"] /\ pc'["asio"] = pc["asio"] /\ state'["tcp"] = state["tcp"]
      /\ pc'["xmpp"] = pc["xmpp"] /\ state'["xmpp"] = state["xmpp"] /\ UNCHANGED conn
  BY <1>2 DEF Threads, Components, xmppVars
<1>6. TcpPhase'
  BY <1>1, <1>2, <1>5 DEF Parts, TcpPhase, PushPlaces, Untouched, Stopped, Alive
<1>7. XmppPhase'
  BY <1>1, <1>2, <1>5 DEF Parts, XmppPhase, Untouched, Stopped
<1> QED
  BY <1>1, <1>3, <1>4, <1>6, <1>7 DEF LifeInv

LEMMA PushRunsInv ==
    ASSUME LifeInv,
           \/ Enter("push") \/ Run("push", "init") \/ InitServer \/ LeavePushLoop
           \/ Leave("push")
    PROVE  LifeInv'
<1>1. TypeOK
  BY DEF LifeInv
<1>a. /\ "push" \in Threads /\ "push" \in Components
      /\ {"init", "startTcp", "stopTcp", "enter", "ended"} \subseteq Places
      /\ {"init", "startTcp", "stopTcp", "enter", "ended"} \subseteq PushPlaces
  BY DEF Threads, Components, Places, PushPlaces
<1>2. CASE Enter("push")
  <2> DEFINE to == IF state["push"] = "STARTING" THEN "enter" ELSE "ended"
  <2>1. Moved("push", "entry", to, state["push"])
    BY <1>1, <1>2, <1>a, EnterMoves
  <2>2. to \in {"enter", "ended"}
    OBVIOUS
  <2> HIDE DEF to
  <2> QED
    BY <1>a, <2>1, <2>2, PushMoves
<1>3. CASE Run("push", "init")
  <2>1. Moved("push", "enter", "init", "RUNNING")
    BY <1>1, <1>3, <1>a, RunMoves
  <2> QED
    BY <1>a, <2>1, PushMoves
<1>4. CASE Leave("push")
  <2>1. Moved("push", "leave", "ended", "WAITING_FOR_JOIN")
    BY <1>1, <1>4, <1>a, LeaveMoves
  <2> QED
    BY <1>a, <2>1, PushMoves
<1>5. CASE Go("push", "init", "startTcp")
  <2>1. Moved("push", "init", "startTcp", state["push"])
    BY <1>1, <1>5, <1>a, GoMoves DEF Moved
  <2> QED
    BY <1>a, <2>1, PushMoves
<1>6. CASE LeavePushLoop
  <2>1. Go("push", "loop", "stopTcp")
    BY <1>6 DEF LeavePushLoop
  <2>2. Moved("push", "loop", "stopTcp", state["push"])
    BY <1>1, <2>1, <1>a, GoMoves DEF Moved
  <2> QED
    BY <1>a, <2>2, PushMoves
<1> QED
  BY <1>2, <1>3, <1>4, <1>5, <1>6, Dies DEF InitServer

LEMMA PushStartsInv ==
    ASSUME LifeInv,
           \/ Start("push", "startTcp", "tcp", "startXmpp")
           \/ Start("push", "startXmpp", "xmpp", "loop")
    PROVE  LifeInv'
<1>1. TypeOK /\ Parts
  BY DEF LifeInv, Parts
<1>a. /\ "push" \in Threads /\ {"tcp", "xmpp"} \subseteq Components
      /\ {"startXmpp", "loop"} \subseteq Places
  BY DEF Threads, Components, Places
<1>2. CASE Start("push", "startTcp", "tcp", "startXmpp")
  <2>1. Started("push", "startTcp", "tcp", "startXmpp")
    BY <1>1, <1>2, <1>a, StartMoves
  <2>2. /\ TypeOK' /\ pc["push"] = "startTcp" /\ pc'["push"] = "startXmpp"
        /\ pc'["tcp"] = "entry" /\ state'["tcp"] = "STARTING"
        /\ \A s \in Threads \ {"push", "tcp"} : pc'[s] = pc[s]
        /\ \A s \in Components \ {"tcp"} : state'[s] = state[s]
        /\ UNCHANGED <<mainVars, xmppVars>>
    BY <2>1 DEF Started
  <2>3. ServerPhase'
    BY <1>1, <2>2, ServerKeeps DEF Parts, Threads, Components, mainVars
  <2>4. IoPhase'
    BY <1>1, <2>2, IoFrame DEF Parts, Threads, Components, mainVars
  <2>5. /\ pc'["asio"] = pc["asio"] /\ pc'["xmpp"] = pc["xmpp"]
        /\ state'["xmpp"] = state["xmpp"] /\ UNCHANGED conn
    BY <2>2 DEF Threads, Components, xmppVars
  <2>6. TcpPhase'
    BY <1>1, <2>2, <2>5 DEF Parts, TcpPhase, PushPlaces, Untouched, Stopped, Alive
  <2>7. XmppPhase'
    BY <1>1, <2>2, <2>5 DEF Parts, XmppPhase, Untouched, Stopped
  <2> QED
    BY <2>2, <2>3, <2>4, <2>6, <2>7 DEF LifeInv
<1>3. CASE Start("push", "startXmpp", "xmpp", "loop")
  <2>1. Started("push", "startXmpp", "xmpp", "loop")
    BY <1>1, <1>3, <1>a, StartMoves
  <2>2. /\ TypeOK' /\ pc["push"] = "startXmpp" /\ pc'["push"] = "loop"
        /\ pc'["xmpp"] = "entry" /\ state'["xmpp"] = "STARTING"
        /\ \A s \in Threads \ {"push", "xmpp"} : pc'[s] = pc[s]
        /\ \A s \in Components \ {"xmpp"} : state'[s] = state[s]
        /\ UNCHANGED <<mainVars, xmppVars>>
    BY <2>1 DEF Started
  <2>3. ServerPhase'
    BY <1>1, <2>2, ServerKeeps DEF Parts, Threads, Components, mainVars
  <2>4. IoPhase'
    BY <1>1, <2>2, IoFrame DEF Parts, Threads, Components, mainVars
  <2>5. /\ pc'["asio"] = pc["asio"] /\ pc'["tcp"] = pc["tcp"]
        /\ state'["tcp"] = state["tcp"] /\ UNCHANGED conn
    BY <2>2 DEF Threads, Components, xmppVars
  <2>6. TcpPhase'
    BY <1>1, <2>2, <2>5 DEF Parts, TcpPhase, PushPlaces, Untouched, Stopped, Alive
  <2>7. XmppPhase'
    BY <1>1, <2>2, <2>5 DEF Parts, XmppPhase, Untouched, Stopped
  <2> QED
    BY <2>2, <2>3, <2>4, <2>6, <2>7 DEF LifeInv
<1> QED
  BY <1>2, <1>3

LEMMA StopComponentsInv == LifeInv /\ StopComponents => LifeInv'
<1> SUFFICES ASSUME LifeInv, StopComponents PROVE LifeInv'
  OBVIOUS
<1>1. TypeOK /\ Parts
  BY DEF LifeInv, Parts
<1>a. /\ "push" \in Threads /\ {"tcp", "xmpp"} \subseteq Components
      /\ {"joinTcp", "stopXmpp", "wakeXmpp", "joinXmpp", "leave"} \subseteq Places
  BY DEF Threads, Components, Places
<1>2. CASE RequestStop("push", "stopTcp", "tcp", "joinTcp", "joinTcp", "stopXmpp")
  <2>1. StopRequested("push", "stopTcp", "tcp", "joinTcp", "joinTcp", "stopXmpp")
    BY <1>1, <1>2, <1>a, RequestStopMoves
  <2>2. /\ TypeOK' /\ pc["push"] = "stopTcp"
        /\ \A s \in Threads \ {"push"} : pc'[s] = pc[s]
        /\ \/ /\ state["tcp"] \in {"STARTING", "RUNNING"}
              /\ pc'["push"] = "joinTcp"
           \/ state["tcp"] = "WAITING_FOR_JOIN" /\ pc'["push"] = "joinTcp"
           \/ state["tcp"] \in {"NOT_RUNNING", "STOP_REQUESTED"}
        /\ \A s \in Components \ {"tcp"} : state'[s] = state[s]
        /\ UNCHANGED <<mainVars, xmppVars>>
    BY <2>1 DEF StopRequested
  <2>3. pc'["push"] \in {"joinTcp", "joinTcp"}
    BY <1>1, <2>2 DEF Parts, TcpPhase, XmppPhase, Alive
  <2>4. ServerPhase'
    BY <1>1, <2>2, <2>3, ServerKeeps DEF Parts, Threads, Components, mainVars
  <2>5. IoPhase'
    BY <1>1, <2>2, IoFrame DEF Parts, Threads, Components, mainVars
  <2>6. /\ pc'["asio"] = pc["asio"] /\ pc'["tcp"] = pc["tcp"] /\ pc'["xmpp"] = pc["xmpp"]
        /\ state'["xmpp"] = state["xmpp"] /\ UNCHANGED conn
    BY <2>2 DEF Threads, Components, xmppVars
  <2>7. TcpPhase'
    BY <1>1, <2>2, <2>3, <2>6 DEF Parts, TcpPhase, PushPlaces, Untouched, Stopped, Alive
  <2>8. XmppPhase'
    BY <1>1, <2>2, <2>3, <2>6 DEF Parts, XmppPhase, Untouched, Stopped
  <2> QED
    BY <2>2, <2>4, <2>5, <2>7, <2>8 DEF LifeInv
<1>3. CASE Join("push", "joinTcp", "tcp", "stopXmpp")
  <2>1. Joined("push", "joinTcp", "tcp", "stopXmpp")
    BY <1>1, <1>3, <1>a, JoinMoves
  <2>2. /\ TypeOK' /\ pc["push"] = "joinTcp" /\ pc'["push"] = "stopXmpp"
        /\ \A s \in Threads \ {"push"} : pc'[s] = pc[s]
        /\ pc["tcp"] = "ended" /\ state'["tcp"] = "NOT_RUNNING"
        /\ \A s \in Components \ {"tcp"} : state'[s] = state[s]
        /\ UNCHANGED <<mainVars, xmppVars>>
    BY <2>1 DEF Joined
  <2>3. ServerPhase'
    BY <1>1, <2>2, ServerKeeps DEF Parts, Threads, Components, mainVars
  <2>4. IoPhase'
    BY <1>1, <2>2, IoFrame DEF Parts, Threads, Components, mainVars
  <2>5. /\ pc'["asio"] = pc["asio"] /\ pc'["tcp"] = pc["tcp"] /\ pc'["xmpp"] = pc["xmpp"]
        /\ state'["xmpp"] = state["xmpp"] /\ UNCHANGED conn
    BY <2>2 DEF Threads, Components, xmppVars
  <2>6. TcpPhase'
    BY <1>1, <2>2, <2>5 DEF Parts, TcpPhase, PushPlaces, Untouched, Stopped, Alive
  <2>7. XmppPhase'
    BY <1>1, <2>2, <2>5 DEF Parts, XmppPhase, Untouched, Stopped
  <2> QED
    BY <2>2, <2>3, <2>4, <2>6, <2>7 DEF LifeInv
<1>4. CASE RequestStop("push", "stopXmpp", "xmpp", "wakeXmpp", "joinXmpp", "leave")
  <2>1. StopRequested("push", "stopXmpp", "xmpp", "wakeXmpp", "joinXmpp", "leave")
    BY <1>1, <1>4, <1>a, RequestStopMoves
  <2>2. /\ TypeOK' /\ pc["push"] = "stopXmpp"
        /\ \A s \in Threads \ {"push"} : pc'[s] = pc[s]
        /\ \/ /\ state["xmpp"] \in {"STARTING", "RUNNING"}
              /\ pc'["push"] = "wakeXmpp"
           \/ state["xmpp"] = "WAITING_FOR_JOIN" /\ pc'["push"] = "joinXmpp"
           \/ state["xmpp"] \in {"NOT_RUNNING", "STOP_REQUESTED"}
        /\ \A s \in Components \ {"xmpp"} : state'[s] = state[s]
        /\ UNCHANGED <<mainVars, xmppVars>>
    BY <2>1 DEF StopRequested
  <2>3. pc'["push"] \in {"wakeXmpp", "joinXmpp"}
    BY <1>1, <2>2 DEF Parts, TcpPhase, XmppPhase, Alive
  <2>4. ServerPhase'
    BY <1>1, <2>2, <2>3, ServerKeeps DEF Parts, Threads, Components, mainVars
  <2>5. IoPhase'
    BY <1>1, <2>2, IoFrame DEF Parts, Threads, Components, mainVars
  <2>6. /\ pc'["asio"] = pc["asio"] /\ pc'["tcp"] = pc["tcp"] /\ pc'["xmpp"] = pc["xmpp"]
        /\ state'["tcp"] = state["tcp"] /\ UNCHANGED conn
    BY <2>2 DEF Threads, Components, xmppVars
  <2>7. TcpPhase'
    BY <1>1, <2>2, <2>3, <2>6 DEF Parts, TcpPhase, PushPlaces, Untouched, Stopped, Alive
  <2>8. XmppPhase'
    BY <1>1, <2>2, <2>3, <2>6 DEF Parts, XmppPhase, Untouched, Stopped
  <2> QED
    BY <2>2, <2>4, <2>5, <2>7, <2>8 DEF LifeInv
<1>5. CASE Join("push", "joinXmpp", "xmpp", "leave")
  <2>1. Joined("push", "joinXmpp", "xmpp", "leave")
    BY <1>1, <1>5, <1>a, JoinMoves
  <2>2. /\ TypeOK' /\ pc["push"] = "joinXmpp" /\ pc'["push"] = "leave"
        /\ \A s \in Threads \ {"push"} : pc'[s] = pc[s]
        /\ pc["xmpp"] = "ended" /\ state'["xmpp"] = "NOT_RUNNING"
        /\ \A s \in Components \ {"xmpp"} : state'[s] = state[s]
        /\ UNCHANGED <<mainVars, xmppVars>>
    BY <2>1 DEF Joined
  <2>3. ServerPhase'
    BY <1>1, <2>2, ServerKeeps DEF Parts, Threads, Components, mainVars
  <2>4. IoPhase'
    BY <1>1, <2>2, IoFrame DEF Parts, Threads, Components, mainVars
  <2>5. /\ pc'["asio"] = pc["asio"] /\ pc'["tcp"] = pc["tcp"] /\ pc'["xmpp"] = pc["xmpp"]
        /\ state'["tcp"] = state["tcp"] /\ UNCHANGED conn
    BY <2>2 DEF Threads, Components, xmppVars
  <2>6. TcpPhase'
    BY <1>1, <2>2, <2>5 DEF Parts, TcpPhase, PushPlaces, Untouched, Stopped, Alive
  <2>7. XmppPhase'
    BY <1>1, <2>2, <2>5 DEF Parts, XmppPhase, Untouched, Stopped
  <2> QED
    BY <2>2, <2>3, <2>4, <2>6, <2>7 DEF LifeInv
<1> QED
  BY <1>2, <1>3, <1>4, <1>5 DEF StopComponents

LEMMA WakeXmppInv == LifeInv /\ WakeXmpp => LifeInv'
<1> SUFFICES ASSUME LifeInv, WakeXmpp PROVE LifeInv'
  OBVIOUS
<1>1. TypeOK /\ Parts
  BY DEF LifeInv, Parts
<1>2. CASE Step("push", "wakeXmpp", "joinXmpp") /\ ~Die
  <2>1. /\ loop' = IF loop = "running" THEN "quit" ELSE loop
        /\ UNCHANGED <<process, mainVars, state, ctx, conn, link>>
    BY <1>2 DEF WakeXmpp
  <2>2. /\ pc' \in [Threads -> Places]
        /\ pc["push"] = "wakeXmpp" /\ pc'["push"] = "joinXmpp"
        /\ \A s \in Threads \ {"push"} : pc'[s] = pc[s]
    BY <1>1, <1>2, StepMoves DEF Threads, Components, Places
  <2>3. TypeOK'
    BY <1>1, <2>1, <2>2 DEF TypeOK, mainVars
  <2>4. ServerPhase'
    BY <1>1, <2>1, <2>2, ServerKeeps DEF Parts, Threads, Components, mainVars
  <2>5. IoPhase'
    BY <1>1, <2>1, <2>2, IoFrame DEF Parts, Threads, Components, mainVars
  <2>6. /\ pc'["asio"] = pc["asio"] /\ pc'["tcp"] = pc["tcp"] /\ pc'["xmpp"] = pc["xmpp"]
    BY <2>2 DEF Threads, Components
  <2>7. TcpPhase' /\ XmppPhase'
    BY <1>1, <2>1, <2>2, <2>6
    DEF Parts, TcpPhase, XmppPhase, PushPlaces, Untouched, Stopped, Alive
  <2> QED
    BY <2>3, <2>4, <2>5, <2>7 DEF LifeInv
<1> QED
  BY <1>2, Dies DEF WakeXmpp

LEMMA PushInv == LifeInv /\ PushStep => LifeInv'
BY PushRunsInv, PushStartsInv, StopComponentsInv, WakeXmppInv DEF PushStep

-----------------------------------------------------------------------------
(* tcp and asio                                                            *)

TcpPlaces == {"off", "entry", "enter", "startService", "loop", "stopService", "leave", "ended"}

\* tcp moves, with or without its service.
LEMMA TcpMoves ==
    ASSUME LifeInv, TypeOK', UNCHANGED <<mainVars, xmppVars>>,
           pc["tcp"] \notin {"off", "ended"}, pc'["tcp"] \in TcpPlaces \ {"off"},
           \A s \in Threads \ {"tcp", "asio"} : pc'[s] = pc[s],
           pc'["asio"] \in IF pc'["tcp"] \in {"loop", "stopService"}
                             THEN {"idle", "serving"} ELSE {"off"},
           state'["tcp"] \in {state["tcp"], "RUNNING", "WAITING_FOR_JOIN"},
           \A s \in Components \ {"tcp"} : state'[s] = state[s]
    PROVE  LifeInv'
<1>1. Parts
  BY DEF LifeInv, Parts
<1>2. ServerPhase' /\ IoPhase' /\ XmppPhase'
  BY <1>1, ServerFrame, IoFrame, XmppFrame DEF Parts, Threads, Components, mainVars, xmppVars
<1>3. pc'["push"] = pc["push"]
  BY DEF Threads, Components
<1>4. TcpPhase'
  BY <1>1, <1>3 DEF Parts, TcpPhase, TcpPlaces, PushPlaces, Untouched, Stopped, Alive
<1> QED
  BY <1>2, <1>4 DEF LifeInv

\* ... without: its place with respect to the service is the same.
LEMMA TcpGoes ==
    ASSUME LifeInv, NEW from, NEW to, NEW new, Moved("tcp", from, to, new),
           from \notin {"off", "ended"}, to \in TcpPlaces \ {"off"},
           from \in {"loop", "stopService"} <=> to \in {"loop", "stopService"},
           new \in {state["tcp"], "RUNNING", "WAITING_FOR_JOIN"}
    PROVE  LifeInv'
<1>1. /\ TypeOK' /\ pc["tcp"] = from /\ pc'["tcp"] = to /\ state'["tcp"] = new
      /\ \A s \in Threads \ {"tcp"} : pc'[s] = pc[s]
      /\ \A s \in Components \ {"tcp"} : state'[s] = state[s]
      /\ UNCHANGED <<mainVars, xmppVars>>
  BY DEF Moved
<1>2. TcpPhase
  BY DEF LifeInv
<1>3. pc'["asio"] = pc["asio"]
  BY <1>1 DEF Threads
<1>4. pc'["asio"] \in IF pc'["tcp"] \in {"loop", "stopService"}
                        THEN {"idle", "serving"} ELSE {"off"}
  BY <1>1, <1>2, <1>3 DEF TcpPhase
<1> QED
  BY <1>1, <1>4, TcpMoves

\* tcp starts or stops its service.
LEMMA ServiceMoves ==
    ASSUME TypeOK, NEW a \in Places, NEW b \in Places,
           pc' = [pc EXCEPT !["tcp"] = a, !["asio"] = b],
           UNCHANGED <<process, mainVars, state, xmppVars>>
    PROVE  /\ TypeOK' /\ pc'["tcp"] = a /\ pc'["asio"] = b
           /\ \A s \in Threads \ {"tcp", "asio"} : pc'[s] = pc[s]
<1>1. "tcp" \in Threads /\ "asio" \in Threads /\ pc \in [Threads -> Places]
  BY DEF Threads, Components, TypeOK
<1>2. /\ pc' \in [Threads -> Places] /\ pc'["tcp"] = a /\ pc'["asio"] = b
      /\ \A s \in Threads \ {"tcp", "asio"} : pc'[s] = pc[s]
  BY <1>1
<1>3. TypeOK'
  BY <1>2 DEF TypeOK, mainVars, xmppVars
<1> QED
  BY <1>2, <1>3

LEMMA TcpInv == LifeInv /\ TcpStep => LifeInv'
<1> SUFFICES ASSUME LifeInv, TcpStep PROVE LifeInv'
  OBVIOUS
<1>1. TypeOK
  BY DEF LifeInv
<1>a. /\ "tcp" \in Threads /\ "tcp" \in Components
      /\ {"startService", "stopService", "enter", "ended"} \subseteq Places
      /\ {"startService", "stopService", "enter", "ended"} \subseteq TcpPlaces
  BY DEF Threads, Components, Places, TcpPlaces
<1>2. CASE Enter("tcp")
  <2> DEFINE to == IF state["tcp"] = "STARTING" THEN "enter" ELSE "ended"
  <2>1. Moved("tcp", "entry", to, state["tcp"])
    BY <1>1, <1>2, <1>a, EnterMoves
  <2>2. to \in {"enter", "ended"}
    OBVIOUS
  <2> HIDE DEF to
  <2> QED
    BY <1>a, <2>1, <2>2, TcpGoes
<1>3. CASE Run("tcp", "startService")
  <2>1. Moved("tcp", "enter", "startService", "RUNNING")
    BY <1>1, <1>3, <1>a, RunMoves
  <2> QED
    BY <1>a, <2>1, TcpGoes
<1>4. CASE Leave("tcp")
  <2>1. Moved("tcp", "leave", "ended", "WAITING_FOR_JOIN")
    BY <1>1, <1>4, <1>a, LeaveMoves
  <2> QED
    BY <1>a, <2>1, TcpGoes
<1>5. CASE LeaveTcpLoop
  <2>1. Go("tcp", "loop", "stopService")
    BY <1>5 DEF LeaveTcpLoop
  <2>2. Moved("tcp", "loop", "stopService", state["tcp"])
    BY <1>1, <2>1, <1>a, GoMoves DEF Moved
  <2> QED
    BY <1>a, <2>2, TcpGoes
<1>6. CASE StartService
  <2>1. /\ pc["tcp"] = "startService"
        /\ pc' = [pc EXCEPT !["tcp"] = "loop", !["asio"] = "idle"]
        /\ UNCHANGED <<process, mainVars, state, xmppVars>>
    BY <1>6 DEF StartService
  <2>2. /\ TypeOK' /\ pc'["tcp"] = "loop" /\ pc'["asio"] = "idle"
        /\ \A s \in Threads \ {"tcp", "asio"} : pc'[s] = pc[s]
    BY <1>1, <2>1, ServiceMoves DEF Places
  <2>3. /\ pc["tcp"] \notin {"off", "ended"} /\ pc'["tcp"] \in TcpPlaces \ {"off"}
        /\ pc'["asio"] \in IF pc'["tcp"] \in {"loop", "stopService"}
                             THEN {"idle", "serving"} ELSE {"off"}
        /\ state' = state /\ UNCHANGED <<mainVars, xmppVars>>
    BY <2>1, <2>2 DEF TcpPlaces
  <2> QED
    BY <2>2, <2>3, TcpMoves
<1>7. CASE StopService
  <2>1. /\ pc["tcp"] = "stopService"
        /\ pc' = [pc EXCEPT !["tcp"] = "leave", !["asio"] = "off"]
        /\ UNCHANGED <<process, mainVars, state, xmppVars>>
    BY <1>7 DEF StopService
  <2>2. /\ TypeOK' /\ pc'["tcp"] = "leave" /\ pc'["asio"] = "off"
        /\ \A s \in Threads \ {"tcp", "asio"} : pc'[s] = pc[s]
    BY <1>1, <2>1, ServiceMoves DEF Places
  <2>3. /\ pc["tcp"] \notin {"off", "ended"} /\ pc'["tcp"] \in TcpPlaces \ {"off"}
        /\ pc'["asio"] \in IF pc'["tcp"] \in {"loop", "stopService"}
                             THEN {"idle", "serving"} ELSE {"off"}
        /\ state' = state /\ UNCHANGED <<mainVars, xmppVars>>
    BY <2>1, <2>2 DEF TcpPlaces
  <2> QED
    BY <2>2, <2>3, TcpMoves
<1> QED
  BY <1>2, <1>3, <1>4, <1>5, <1>6, <1>7 DEF TcpStep

\* The service's thread only ever goes from idle to serving and back.
LEMMA AsioInv == LifeInv /\ (UseConnection \/ Request) => LifeInv'
<1> SUFFICES ASSUME LifeInv, UseConnection \/ Request PROVE LifeInv'
  OBVIOUS
<1>1. TypeOK /\ Parts
  BY DEF LifeInv, Parts
<1>2. ASSUME NEW from \in {"idle", "serving"}, NEW to \in {"idle", "serving"},
             Go("asio", from, to)
      PROVE  LifeInv'
  <2>1. /\ TypeOK' /\ pc["asio"] = from /\ pc'["asio"] = to
        /\ \A s \in Threads \ {"asio"} : pc'[s] = pc[s]
        /\ UNCHANGED <<process, mainVars, state, xmppVars>>
    BY <1>1, <1>2, GoMoves DEF Threads, Places
  <2>2. ServerPhase' /\ IoPhase' /\ XmppPhase'
    BY <1>1, <2>1, ServerFrame, IoFrame, XmppFrame
    DEF Parts, Threads, Components, mainVars, xmppVars
  <2>3. pc'["push"] = pc["push"] /\ pc'["tcp"] = pc["tcp"] /\ state'["tcp"] = state["tcp"]
    BY <2>1 DEF Threads, Components
  <2>4. TcpPhase'
    BY <1>1, <2>1, <2>3 DEF Parts, TcpPhase, Untouched, Stopped, Alive
  <2> QED
    BY <2>1, <2>2, <2>4 DEF LifeInv
<1> QED
  BY <1>2, Dies DEF UseConnection, Request

-----------------------------------------------------------------------------
(* xmpp                                                                    *)

Connecting == {"loop", "connect", "run", "running", "sleep"}
Releasing == {"release", "clear", "leave"}

\* xmpp moves. It stays where the push server believes it is, unless a stop is under way.
LEMMA XmppMoves ==
    ASSUME LifeInv, TypeOK', UNCHANGED mainVars,
           \A s \in Threads \ {"xmpp"} : pc'[s] = pc[s],
           \A s \in Components \ {"xmpp"} : state'[s] = state[s],
           pc["xmpp"] \notin {"off", "ended"},
           pc'["xmpp"] \in Connecting => conn' = "live",
           \/ pc["xmpp"] = "entry" /\ pc'["xmpp"] = "enter" /\ state'["xmpp"] = state["xmpp"]
           \/ pc["xmpp"] = "entry" /\ state["xmpp"] # "STARTING"
           \/ pc["xmpp"] = "enter" /\ pc'["xmpp"] = "setup" /\ state'["xmpp"] = "RUNNING"
           \/ /\ pc'["xmpp"] \in {"setup", "setupConn"} \union Connecting
              /\ pc["xmpp"] \in {"setup", "setupConn"} \union Connecting
              /\ state'["xmpp"] = state["xmpp"]
           \/ pc["xmpp"] \in Connecting /\ state["xmpp"] # "RUNNING"
           \/ pc["xmpp"] \in Releasing
    PROVE  LifeInv'
<1>1. Parts
  BY DEF LifeInv, Parts
<1>2. ServerPhase' /\ IoPhase' /\ TcpPhase'
  BY <1>1, ServerFrame, IoFrame, TcpFrame DEF Parts, Threads, Components, mainVars
<1>3. pc'["push"] = pc["push"] /\ pc["push"] \in PushPlaces
  BY <1>1 DEF Parts, TcpPhase, Threads, Components
<1>4. XmppPhase'
  BY <1>1, <1>3
  DEF Parts, XmppPhase, PushPlaces, Connecting, Releasing, Untouched, Stopped
<1> QED
  BY <1>2, <1>4 DEF LifeInv

LEMMA XmppRunsInv ==
    ASSUME LifeInv, Enter("xmpp") \/ Run("xmpp", "setup") \/ Leave("xmpp")
    PROVE  LifeInv'
<1>1. TypeOK
  BY DEF LifeInv
<1>a. "xmpp" \in Threads /\ "xmpp" \in Components /\ "setup" \in Places
  BY DEF Threads, Components, Places
<1>2. CASE Enter("xmpp")
  <2> DEFINE to == IF state["xmpp"] = "STARTING" THEN "enter" ELSE "ended"
  <2>1. Moved("xmpp", "entry", to, state["xmpp"])
    BY <1>1, <1>2, <1>a, EnterMoves
  <2>2. \/ to = "enter"
        \/ to = "ended" /\ state["xmpp"] # "STARTING"
    OBVIOUS
  <2> HIDE DEF to
  <2> QED
    BY <2>1, <2>2, XmppMoves DEF Moved, Connecting
<1>3. CASE Run("xmpp", "setup")
  <2>1. Moved("xmpp", "enter", "setup", "RUNNING")
    BY <1>1, <1>3, <1>a, RunMoves
  <2> QED
    BY <2>1, XmppMoves DEF Moved, Connecting
<1>4. CASE Leave("xmpp")
  <2>1. Moved("xmpp", "leave", "ended", "WAITING_FOR_JOIN")
    BY <1>1, <1>4, <1>a, LeaveMoves
  <2> QED
    BY <2>1, XmppMoves DEF Moved, Connecting, Releasing
<1> QED
  BY <1>2, <1>3, <1>4

\* A step of the client's own: it touches libstrophe's objects but no state variable.
LEMMA ClientMoves ==
    ASSUME LifeInv, NEW from \in Places, NEW to \in Places, Step("xmpp", from, to),
           UNCHANGED <<process, mainVars, state>>,
           ctx' \in {"null", "live", "freed"}, conn' \in {"null", "live", "freed"},
           loop' \in {"notStarted", "running", "quit"},
           link' \in {"down", "connecting", "up", "refused"},
           to \in Connecting => conn' = "live",
           \/ /\ from \in {"setup", "setupConn"} \union Connecting
              /\ to \in {"setup", "setupConn"} \union Connecting
           \/ from \in Connecting /\ state["xmpp"] # "RUNNING"
           \/ from \in Releasing
    PROVE  LifeInv'
<1>1. TypeOK /\ "xmpp" \in Threads
  BY DEF LifeInv, Threads, Components
<1>2. /\ pc' \in [Threads -> Places]
      /\ pc["xmpp"] = from /\ pc'["xmpp"] = to /\ \A s \in Threads \ {"xmpp"} : pc'[s] = pc[s]
  BY <1>1, StepMoves
<1>3. TypeOK'
  BY <1>1, <1>2 DEF TypeOK, mainVars
<1>4. from \notin {"off", "ended"}
  BY DEF Connecting, Releasing
<1> QED
  BY <1>2, <1>3, <1>4, XmppMoves

LEMMA XmppInv == LifeInv /\ XmppStep => LifeInv'
<1> SUFFICES ASSUME LifeInv, XmppStep PROVE LifeInv'
  OBVIOUS
<1>1. TypeOK
  BY DEF LifeInv
<1>2. /\ ctx \in {"null", "live", "freed"} /\ conn \in {"null", "live", "freed"}
      /\ loop \in {"notStarted", "running", "quit"}
      /\ link \in {"down", "connecting", "up", "refused"}
  BY <1>1 DEF TypeOK
<1>3. pc["xmpp"] \in Connecting => conn = "live"
  BY DEF LifeInv, XmppPhase, Connecting
<1>4. CASE SetupContext
  BY <1>2, <1>4, ClientMoves DEF SetupContext, Connecting, Places
<1>5. CASE SetupConnection
  BY <1>2, <1>5, ClientMoves DEF SetupConnection, Connecting, Places
<1>6. CASE TestXmppLoop
  <2> DEFINE to == IF state["xmpp"] = "RUNNING" THEN "connect" ELSE "release"
  <2>1. Step("xmpp", "loop", to) /\ UNCHANGED <<process, mainVars, state, xmppVars>>
    BY <1>6 DEF TestXmppLoop, Go
  <2>2. \/ to = "connect"
        \/ to = "release" /\ state["xmpp"] # "RUNNING"
    OBVIOUS
  <2> HIDE DEF to
  <2>3. to \in Places /\ "loop" \in Places /\ "loop" \in Connecting
    BY <2>2 DEF Places, Connecting
  <2>4. conn' = "live"
    BY <1>3, <2>1, <2>3 DEF Step, xmppVars
  <2> QED
    BY <1>2, <2>1, <2>2, <2>3, <2>4, ClientMoves DEF Connecting, xmppVars
<1>7. CASE ConnectClient
  BY <1>2, <1>3, <1>7, ClientMoves DEF ConnectClient, Step, Connecting, Places
<1>8. CASE EnterEventLoop
  BY <1>2, <1>3, <1>8, ClientMoves DEF EnterEventLoop, Step, Connecting, Places
<1>9. CASE LeaveEventLoop
  BY <1>2, <1>3, <1>9, ClientMoves DEF LeaveEventLoop, Step, Connecting, Places
<1>10. CASE WakeUp
  BY <1>2, <1>3, <1>10, ClientMoves DEF WakeUp, Go, Step, Connecting, Places, xmppVars
<1>11. CASE Release
  BY <1>2, <1>11, ClientMoves DEF Release, Connecting, Releasing, Places
<1>12. CASE ClearPointers
  BY <1>2, <1>12, ClientMoves DEF ClearPointers, Connecting, Releasing, Places
<1> QED
  BY <1>4, <1>5, <1>6, <1>7, <1>8, <1>9, <1>10, <1>11, <1>12, XmppRunsInv DEF XmppStep

\* The events of the connection.
LEMMA LinkInv == LifeInv /\ (LinkUp \/ LinkDown) => LifeInv'
<1> SUFFICES ASSUME LifeInv, LinkUp \/ LinkDown PROVE LifeInv'
  OBVIOUS
<1>1. /\ UNCHANGED <<process, mainVars, pc, state, ctx, conn>>
      /\ link' \in {"up", "down"} /\ loop' \in {loop, "quit"}
  BY DEF LinkUp, LinkDown
<1>2. TypeOK'
  BY <1>1 DEF LifeInv, TypeOK, mainVars
<1> QED
  BY <1>1, <1>2, ServerFrame, IoFrame, TcpFrame, XmppFrame DEF LifeInv, mainVars

-----------------------------------------------------------------------------
(* io                                                                      *)

LEMMA IoMoves ==
    ASSUME LifeInv, NEW from, NEW to, NEW new, Moved("io", from, to, new),
           from \notin {"off", "ended"}, to \in {"enter", "run", "leave", "ended"},
           new = "WAITING_FOR_JOIN" => to = "ended" \/ state["io"] = "WAITING_FOR_JOIN"
    PROVE  LifeInv'
<1>1. TypeOK' /\ Parts
  BY DEF LifeInv, Parts, Moved
<1>2. /\ pc["io"] = from /\ pc'["io"] = to /\ state'["io"] = new
      /\ \A s \in Threads \ {"io"} : pc'[s] = pc[s]
      /\ \A s \in Components \ {"io"} : state'[s] = state[s]
      /\ UNCHANGED <<mainVars, xmppVars>>
  BY DEF Moved
<1>3. ServerPhase' /\ TcpPhase' /\ XmppPhase'
  BY <1>1, <1>2, ServerFrame, TcpFrame, XmppFrame
  DEF Parts, Threads, Components, mainVars, xmppVars
<1>4. pc'["main"] = pc["main"] /\ UNCHANGED noInput
  BY <1>2 DEF Threads, Components, mainVars
<1>5. IoPhase'
  BY <1>1, <1>2, <1>4 DEF Parts, IoPhase, Untouched
<1> QED
  BY <1>1, <1>3, <1>5 DEF LifeInv

LEMMA IoInv == LifeInv /\ (IoStep \/ Quit) => LifeInv'
<1> SUFFICES ASSUME LifeInv, IoStep \/ Quit PROVE LifeInv'
  OBVIOUS
<1>1. TypeOK /\ IoPhase
  BY DEF LifeInv
<1>a. /\ "io" \in Threads /\ "io" \in Components
      /\ "run" \in Places /\ "leave" \in Places
  BY DEF Threads, Components, Places
<1>2. CASE Enter("io")
  <2> DEFINE to == IF state["io"] = "STARTING" THEN "enter" ELSE "ended"
  <2>1. Moved("io", "entry", to, state["io"])
    BY <1>1, <1>2, <1>a, EnterMoves
  <2>2. to \in {"enter", "ended"}
    OBVIOUS
  <2> HIDE DEF to
  <2> QED
    BY <2>1, <2>2, IoMoves
<1>3. CASE Run("io", "run")
  <2>1. Moved("io", "enter", "run", "RUNNING")
    BY <1>1, <1>3, <1>a, RunMoves
  <2> QED
    BY <2>1, IoMoves
<1>4. CASE Leave("io")
  <2>1. Moved("io", "leave", "ended", "WAITING_FOR_JOIN")
    BY <1>1, <1>4, <1>a, LeaveMoves
  <2> QED
    BY <2>1, IoMoves
<1>5. CASE Quit
  <2>1. /\ Step("io", "run", "leave") /\ state' = [state EXCEPT !["io"] = "STOP_REQUESTED"]
        /\ UNCHANGED <<process, mainVars, xmppVars>>
    BY <1>5 DEF Quit
  <2>2. /\ pc' \in [Threads -> Places]
        /\ pc["io"] = "run" /\ pc'["io"] = "leave"
        /\ \A s \in Threads \ {"io"} : pc'[s] = pc[s]
    BY <1>1, <1>a, <2>1, StepMoves
  <2>3. /\ state' \in [Components -> States] /\ state'["io"] = "STOP_REQUESTED"
        /\ \A s \in Components \ {"io"} : state'[s] = state[s]
    BY <1>1, <1>a, <2>1 DEF TypeOK, States
  <2>4. TypeOK'
    BY <1>1, <2>1, <2>2, <2>3 DEF TypeOK, States, mainVars, xmppVars
  <2>5. Moved("io", "run", "leave", "STOP_REQUESTED")
    BY <2>1, <2>2, <2>3, <2>4 DEF Moved
  <2> QED
    BY <2>5, IoMoves
<1> QED
  BY <1>2, <1>3, <1>4, <1>5 DEF IoStep

-----------------------------------------------------------------------------
(* The whole process.                                                      *)

LEMMA FreshInv ==
    ASSUME noInput \in BOOLEAN, file \in ConfigFiles, Fresh
    PROVE  LifeInv
<1>1. /\ \A t \in Threads : pc[t] = IF t = "main" THEN "load" ELSE "off"
      /\ \A c \in Components : state[c] = "NOT_RUNNING"
      /\ pc \in [Threads -> Places]
      /\ state \in [Components -> States]
  BY DEF Fresh, Places, States
<1>a. signals = 0 /\ 0 \in 0..MaxSignals
  BY MaxSignalsAssumption DEF Fresh
<1>b. /\ process = "up" /\ config = "placeholder" /\ serverPtr = FALSE
      /\ ctx = "null" /\ conn = "null" /\ loop = "notStarted" /\ link = "down"
  BY DEF Fresh
<1>2. TypeOK
  BY <1>1, <1>a, <1>b DEF TypeOK, States
<1>3. /\ pc["main"] = "load" /\ pc["handler"] = "off" /\ pc["push"] = "off" /\ pc["tcp"] = "off"
      /\ pc["asio"] = "off" /\ pc["xmpp"] = "off" /\ pc["io"] = "off"
      /\ state["push"] = "NOT_RUNNING" /\ state["tcp"] = "NOT_RUNNING"
      /\ state["xmpp"] = "NOT_RUNNING" /\ state["io"] = "NOT_RUNNING"
  BY <1>1 DEF Threads, Components
<1>4. ServerPhase /\ IoPhase
  BY <1>3 DEF Fresh, ServerPhase, IoPhase, Untouched
<1>5. TcpPhase /\ XmppPhase
  BY <1>3 DEF TcpPhase, XmppPhase, PushPlaces, Untouched
<1> QED
  BY <1>2, <1>4, <1>5 DEF LifeInv

LEMMA RestartInv == LifeInv /\ Restart => LifeInv'
<1> SUFFICES ASSUME LifeInv, Restart PROVE LifeInv'
  OBVIOUS
<1>1. Fresh' /\ noInput' \in BOOLEAN /\ file' \in ConfigFiles
  BY DEF Restart, Fresh, LifeInv, TypeOK, ConfigFiles
<1>2. /\ \A t \in Threads : pc'[t] = IF t = "main" THEN "load" ELSE "off"
      /\ \A c \in Components : state'[c] = "NOT_RUNNING"
      /\ pc' \in [Threads -> Places]
      /\ state' \in [Components -> States]
  BY <1>1 DEF Fresh, Places, States
<1>a. signals' = 0 /\ 0 \in 0..MaxSignals
  BY <1>1, MaxSignalsAssumption DEF Fresh
<1>b. /\ process' = "up" /\ config' = "placeholder" /\ serverPtr' = FALSE
      /\ ctx' = "null" /\ conn' = "null" /\ loop' = "notStarted" /\ link' = "down"
  BY <1>1 DEF Fresh
<1>3. TypeOK'
  BY <1>1, <1>2, <1>a, <1>b DEF TypeOK, States
<1>4. /\ pc'["main"] = "load" /\ pc'["handler"] = "off" /\ pc'["push"] = "off"
      /\ pc'["tcp"] = "off" /\ pc'["asio"] = "off" /\ pc'["xmpp"] = "off" /\ pc'["io"] = "off"
      /\ state'["push"] = "NOT_RUNNING" /\ state'["tcp"] = "NOT_RUNNING"
      /\ state'["xmpp"] = "NOT_RUNNING" /\ state'["io"] = "NOT_RUNNING"
  BY <1>2 DEF Threads, Components
<1>5. ServerPhase' /\ IoPhase'
  BY <1>1, <1>4 DEF Fresh, ServerPhase, IoPhase, Untouched
<1>6. TcpPhase' /\ XmppPhase'
  BY <1>4 DEF TcpPhase, XmppPhase, PushPlaces, Untouched
<1> QED
  BY <1>3, <1>5, <1>6 DEF LifeInv

LEMMA StepInv == LifeInv /\ [Next]_vars => LifeInv'
<1> SUFFICES ASSUME LifeInv, [Next]_vars PROVE LifeInv'
  OBVIOUS
<1>1. CASE UNCHANGED vars
  <2>1. /\ UNCHANGED <<process, noInput, file, config, serverPtr, signals, pc, state>>
        /\ UNCHANGED <<ctx, conn, loop, link>>
    BY <1>1 DEF vars, mainVars, xmppVars
  <2>2. TypeOK'
    BY <2>1 DEF LifeInv, TypeOK
  <2> QED
    BY <2>1, <2>2, ServerFrame, IoFrame, TcpFrame, XmppFrame DEF LifeInv
<1>2. CASE MainStep
  BY <1>2, LoadingInv, StartingInv, StoppingInv, DestroyInv DEF MainStep
<1>3. CASE HandlerStep \/ Sigint
  BY <1>3, HandlerInv
<1>4. CASE PushStep
  BY <1>4, PushInv
<1>5. CASE TcpStep
  BY <1>5, TcpInv
<1>6. CASE UseConnection \/ Request
  BY <1>6, AsioInv
<1>7. CASE XmppStep
  BY <1>7, XmppInv
<1>8. CASE LinkUp \/ LinkDown
  BY <1>8, LinkInv
<1>9. CASE IoStep \/ Quit
  BY <1>9, IoInv
<1>10. CASE Restart
  BY <1>10, RestartInv
<1> QED
  BY <1>1, <1>2, <1>3, <1>4, <1>5, <1>6, <1>7, <1>8, <1>9, <1>10
  DEF Next, Main, Handler, Push, Tcp, Asio, Xmpp, Io, Connected, Environment

\* LifecycleInvariant: how far each component has come agrees with how far the thread that
\* starts and stops it has, in every order of the threads' steps and with any number of
\* SIGINTs (start(), stop() and thread_run() of the four components, main.cpp).
THEOREM LifecycleInvariant == Spec => []LifeInv
<1>1. Init => LifeInv
  BY FreshInv DEF Init
<1> QED
  BY <1>1, StepInv, PTL DEF Spec

\* TypeCorrect: the variables keep their types; a configuration in use is complete or all
\* placeholders (Serializer, ConfigurationStorage).
THEOREM TypeCorrect == Spec => []TypeOK
<1>1. LifeInv => TypeOK
  BY DEF LifeInv
<1> QED
  BY <1>1, LifecycleInvariant, PTL

\* DestructorsFindNothingRunning: when main destroys the server every thread has ended and
\* has been joined, so that no assertion of ~PushServer, ~TcpServer, ~XmppClient and
\* ~IoThread fails, also when a stop request was overwritten.
THEOREM DestructorsFindNothingRunning == Spec => []CleanExit
<1>1. LifeInv => CleanExit
  <2> SUFFICES ASSUME LifeInv, pc["main"] = "destroy"
               PROVE  /\ \A t \in Threads \ {"main", "handler"} : pc[t] \in {"off", "ended"}
                      /\ \A c \in Components : state[c] = "NOT_RUNNING"
    BY DEF CleanExit
  <2>1. Stopped("push") /\ pc["io"] \in {"off", "ended"} /\ state["io"] = "NOT_RUNNING"
    BY DEF LifeInv, ServerPhase, IoPhase
  <2>2. Untouched("tcp") \/ Stopped("tcp")
    BY <2>1 DEF LifeInv, TcpPhase, Stopped
  <2>3. Untouched("xmpp") \/ Stopped("xmpp")
    BY <2>1 DEF LifeInv, XmppPhase, Stopped
  <2>4. pc["asio"] = "off"
    BY <2>2 DEF LifeInv, TcpPhase, Untouched, Stopped
  <2> QED
    BY <2>1, <2>2, <2>3, <2>4 DEF Threads, Components, Untouched, Stopped
<1> QED
  BY <1>1, LifecycleInvariant, PTL

\* RequestsFindTheConnection: a request that is handled after the XMPP client was set up
\* finds its connection object; the TCP service has ended before the client releases it
\* (the order of the stop calls in PushServer::thread_run, XmppClient.cpp:341).
THEOREM RequestsFindTheConnection == Spec => []RequestFindsConnection
<1>1. LifeInv => RequestFindsConnection
  <2> SUFFICES ASSUME LifeInv, pc["asio"] = "serving",
                      pc["xmpp"] \notin {"off", "entry", "enter", "setup", "setupConn"}
               PROVE  conn = "live"
    BY DEF RequestFindsConnection
  <2>1. pc["tcp"] \in {"loop", "stopService"}
    BY DEF LifeInv, TcpPhase
  <2>2. pc["push"] \in {"startXmpp", "loop", "stopTcp", "joinTcp"}
    BY <2>1 DEF LifeInv, TcpPhase, PushPlaces, Untouched, Stopped
  <2>3. pc["xmpp"] \in {"loop", "connect", "run", "running", "sleep"}
    BY <2>2 DEF LifeInv, XmppPhase, Untouched
  <2> QED
    BY <2>3 DEF LifeInv, XmppPhase
<1> QED
  BY <1>1, LifecycleInvariant, PTL

=============================================================================
