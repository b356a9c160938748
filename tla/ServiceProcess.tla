--------------------------- MODULE ServiceProcess ---------------------------
(***************************************************************************)
(* The process the test server runs in: main and the service entry points  *)
(* (Baselib/main.cpp), CMyService (TestServer/MyService.cpp) and the start  *)
(* and stop of its servers.  Two threads matter: the service's own, which   *)
(* runs ServiceMain and RunInstance, and the dispatcher's, on which the     *)
(* service control manager has ServiceCtrl call StopInstance; nothing keeps *)
(* the two from overlapping.  With -d the program runs RunInstance on the   *)
(* main thread and nothing ever stops it.                                  *)
(*                                                                         *)
(* The HTTP server and the three TestServers start and stop one after the   *)
(* other; Servers are those.  What happens inside the network core and a    *)
(* net service is in TcpServer and NetShutdown.                            *)
(***************************************************************************)
EXTENDS Integers, FiniteSets

CONSTANTS
    Servers,     \* mHttpServer1, mServer1, mServer2, mServer3
    MaxFailures  \* bound on the times NetCore::Initialize fails

VARIABLES
    mode,         \* "console" (-d) or "service"
    currentState, \* g_Status.dwCurrentState
    runPC,        \* the service's thread
    ctrlPC,       \* the dispatcher's thread in ServiceCtrl
    mainExited,   \* main returned
    m_hStopEvent, \* "null", "reset", "set"
    mNetCore,     \* "none", "up", "down"
    netService,   \* per server: "none", "listening", "closed"
    stopFlag,     \* per server: its mStop
    failures,     \* the failures of NetCore::Initialize so far
    logOpen       \* between MakeLog and UnInit

statusVars == <<mode, currentState, mainExited>>
ownedVars == <<mNetCore, netService, stopFlag, logOpen>>
svcVars == <<statusVars, runPC, ctrlPC, m_hStopEvent, ownedVars, failures>>

Init ==
    /\ mode \in {"console", "service"}
    /\ currentState = "START_PENDING" /\ mainExited = FALSE
    /\ runPC = "main" /\ ctrlPC = "idle"
    /\ m_hStopEvent = "null" /\ mNetCore = "none"
    /\ netService = [s \in Servers |-> "none"] /\ stopFlag = [s \in Servers |-> FALSE]
    /\ failures = 0 /\ logOpen = FALSE

\* A state the manager is told: there is one to tell only when it runs the process.
Report(state) ==
    /\ currentState' = IF mode = "service" THEN state ELSE currentState
    /\ UNCHANGED <<mode, mainExited>>

-----------------------------------------------------------------------------
(* The thread that runs RunInstance. *)

\* -d runs the instance at once; otherwise the dispatcher starts ServiceMain, which
\* reports RUNNING before anything runs.
ServiceMain ==
    /\ runPC = "main"
    /\ Report("RUNNING")
    /\ runPC' = "log"
    /\ UNCHANGED <<ctrlPC, m_hStopEvent, ownedVars, failures>>

MakeLog ==
    /\ runPC = "log"
    /\ logOpen' = TRUE
    /\ runPC' = "event"
    /\ UNCHANGED <<statusVars, ctrlPC, m_hStopEvent, mNetCore, netService, stopFlag,
                   failures>>

\* CreateEvent(NULL, true, false, NULL), or StopInstance on this thread when there
\* is no event to be had.
CreateStopEvent ==
    /\ runPC = "event"
    /\ \/ m_hStopEvent' = "reset" /\ runPC' = "core" /\ UNCHANGED <<statusVars, ownedVars>>
       \/ /\ stopFlag' = [s \in Servers |-> TRUE]
          /\ logOpen' = FALSE
          /\ Report("STOPPED")
          /\ runPC' = "returned"
          /\ UNCHANGED <<m_hStopEvent, mNetCore, netService>>
    /\ UNCHANGED <<ctrlPC, failures>>

\* Init: NetCore::Initialize, tried before the main loop and, when that failed, every
\* three seconds in the loop inside it, which does not look at the event.
InitCoreOnce ==
    /\ runPC = "core"
    /\ \/ mNetCore' = "up" /\ runPC' = "servers" /\ UNCHANGED failures
       \/ /\ failures < MaxFailures
          /\ failures' = failures + 1
          /\ runPC' = "wait" /\ UNCHANGED mNetCore
    /\ UNCHANGED <<statusVars, ctrlPC, m_hStopEvent, netService, stopFlag, logOpen>>
InitCore ==
    /\ runPC \in {"core", "retry"}
    /\ \/ mNetCore' = "up" /\ runPC' = "servers" /\ UNCHANGED failures
       \/ /\ failures < MaxFailures
          /\ failures' = failures + 1
          /\ runPC' = IF runPC = "core" THEN "wait" ELSE "retry"
          /\ UNCHANGED mNetCore
    /\ UNCHANGED <<statusVars, ctrlPC, m_hStopEvent, netService, stopFlag, logOpen>>

\* The main loop, its wait of 10 ms over, with Init still to be done.
EnterRetry ==
    /\ runPC = "wait" /\ m_hStopEvent # "set" /\ mNetCore = "none"
    /\ runPC' = "retry"
    /\ UNCHANGED <<statusVars, ctrlPC, m_hStopEvent, ownedVars, failures>>

\* StartServer, whose answer is true whatever happens.  It does not look at mStop: a
\* server that was stopped already starts all the same.
StartServer(s) ==
    /\ runPC = "servers" /\ netService[s] = "none"
    /\ \E r \in {"listening", "closed"} :
          netService' = [netService EXCEPT ![s] = IF mNetCore = "up" THEN r ELSE "closed"]
    /\ UNCHANGED <<statusVars, runPC, ctrlPC, m_hStopEvent, mNetCore, stopFlag, logOpen,
                   failures>>

ServersStarted ==
    /\ runPC = "servers" /\ \A s \in Servers : netService[s] # "none"
    /\ runPC' = "wait"
    /\ UNCHANGED <<statusVars, ctrlPC, m_hStopEvent, ownedVars, failures>>

\* WaitForSingleObject(m_hStopEvent, 10), and the end of RunInstance and ServiceMain.
WaitStop ==
    /\ runPC = "wait" /\ m_hStopEvent = "set"
    /\ Report("STOPPED")
    /\ runPC' = "returned"
    /\ UNCHANGED <<ctrlPC, m_hStopEvent, ownedVars, failures>>

-----------------------------------------------------------------------------
(* The dispatcher's thread: ServiceCtrl and the end of main. *)

\* SERVICE_CONTROL_STOP, accepted as soon as the state is RUNNING.
ServiceCtrl ==
    /\ mode = "service" /\ currentState = "RUNNING" /\ ctrlPC = "idle"
    /\ ctrlPC' = "signal"
    /\ UNCHANGED <<statusVars, runPC, m_hStopEvent, ownedVars, failures>>

\* StopInstance: SetEvent, which does nothing with a handle that is still NULL.
SignalStop ==
    /\ ctrlPC = "signal"
    /\ m_hStopEvent' = IF m_hStopEvent = "null" THEN "null" ELSE "set"
    /\ ctrlPC' = "servers"
    /\ UNCHANGED <<statusVars, runPC, ownedVars, failures>>

\* StopServer, once per server.
StopServer(s) ==
    /\ ctrlPC = "servers" /\ ~stopFlag[s]
    /\ stopFlag' = [stopFlag EXCEPT ![s] = TRUE]
    /\ netService' = [netService EXCEPT ![s] = IF @ = "listening" THEN "closed" ELSE @]
    /\ UNCHANGED <<statusVars, runPC, ctrlPC, m_hStopEvent, mNetCore, logOpen, failures>>

UninitializeCore ==
    /\ ctrlPC = "servers" /\ \A s \in Servers : stopFlag[s]
    /\ mNetCore' = IF mNetCore = "up" THEN "down" ELSE mNetCore
    /\ ctrlPC' = "log"
    /\ UNCHANGED <<statusVars, runPC, m_hStopEvent, netService, stopFlag, logOpen, failures>>

UnInitLog ==
    /\ ctrlPC = "log"
    /\ logOpen' = FALSE
    /\ ctrlPC' = "done"
    /\ UNCHANGED <<statusVars, runPC, m_hStopEvent, mNetCore, netService, stopFlag, failures>>

\* StartServiceCtrlDispatcher returns to main when the service is STOPPED and the
\* handler, which runs on main's own thread, has returned.  -d has no dispatcher.
MainExits ==
    /\ ~mainExited /\ runPC = "returned" /\ ctrlPC \in {"idle", "done"}
    /\ mainExited' = TRUE
    /\ UNCHANGED <<mode, currentState, runPC, ctrlPC, m_hStopEvent, ownedVars, failures>>

RunThread ==
    \/ ServiceMain \/ MakeLog \/ CreateStopEvent \/ InitCore \/ EnterRetry
    \/ \E s \in Servers : StartServer(s)
    \/ ServersStarted \/ WaitStop
StopThread == SignalStop \/ (\E s \in Servers : StopServer(s)) \/ UninitializeCore \/ UnInitLog
Next == RunThread \/ ServiceCtrl \/ StopThread \/ MainExits

\* Both threads keep running; nobody has to ask for a stop.
Fairness == WF_svcVars(RunThread) /\ WF_svcVars(StopThread) /\ WF_svcVars(MainExits)
FairSpec == Init /\ [][Next]_svcVars /\ Fairness

-----------------------------------------------------------------------------
Released ==
    /\ mNetCore # "up" /\ ~logOpen
    /\ \A s \in Servers : netService[s] # "listening"

\* A stop that finds the event ends the process, even one that is asked for while
\* Init is still being tried again; and one that finds the servers running leaves
\* none of them, nor the core, nor the log behind.  A stop before CreateEvent is
\* lost, and one that overlaps Init may leave what is started after it
\* (MyService.cpp 33-69 and 79-105, main.cpp 154-196).
StopEndsService ==
    /\ (ctrlPC = "signal" /\ m_hStopEvent # "null") ~> mainExited
    /\ (ctrlPC = "signal" /\ runPC = "wait" /\ mNetCore = "up") ~> (mainExited /\ Released)
=============================================================================
