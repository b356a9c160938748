------------------------------- MODULE MCParts ------------------------------
(* The framing of one connection, the service process, the test client, the      *)
(* database wrapper, the blocking socket, the object pool and the message queue  *)
(* share no state, so one run takes them side by side: part says which of them    *)
(* this behaviour is about, the others stay in their initial state.               *)
EXTENDS SuperSocket, ObjectPool, AdoRecordset, MessageQueue, FramingInputs, FramingInv, TLC

CONSTANTS http, tcp, starter, checker

VARIABLES
    part,
    mode, currentState, mainExited, runPC, ctrlPC, m_hStopEvent, mNetCore, netService,
    stopFlag, failures, logOpen,
    mStop, mSocketID, pc, result, conn, message, stopPC, lateStore

MCObjects == <<"o1", "o2">>
MCTimeouts == {-1, 0, 3}

Service == INSTANCE ServiceProcess WITH Servers <- {http, tcp}, MaxFailures <- 2
Client == INSTANCE ClientApp WITH
    Ids <- 1 .. 3, Starter <- starter, Checker <- checker, Late <- TRUE

-----------------------------------------------------------------------------
serviceVars == <<mode, currentState, mainExited, runPC, ctrlPC, m_hStopEvent, mNetCore,
                 netService, stopFlag, failures, logOpen>>
clientVars == <<mStop, mSocketID, pc, result, conn, message, stopPC, lateStore>>
vars == <<part, framingVars, mqVars, serviceVars, clientVars, adoVars, sockVars, poolVars>>

Init ==
    /\ part \in {"framing", "messages", "service", "client", "ado", "socket", "objects"}
    /\ FramingInit /\ (part # "framing" => peer = FirstPeer)
    /\ MessageInit
    /\ Service!Init /\ (part # "service" => mode = "service")
    /\ Client!Init /\ AdoInit
    /\ SocketInit /\ (part # "socket" => tick = 0)
    /\ PoolInit

Next ==
    /\ UNCHANGED part
    /\ IF part = "framing" THEN FramingNext ELSE UNCHANGED framingVars
    /\ IF part = "messages" THEN MessageNext ELSE UNCHANGED mqVars
    /\ IF part = "service" THEN Service!Next ELSE UNCHANGED serviceVars
    /\ IF part = "client" THEN Client!Next ELSE UNCHANGED clientVars
    /\ IF part = "ado" THEN AdoNext ELSE UNCHANGED adoVars
    /\ IF part = "socket" THEN SocketNext ELSE UNCHANGED sockVars
    /\ IF part = "objects" THEN PoolNext ELSE UNCHANGED poolVars

\* The service process and the client are the parts with a promise about progress.
Spec ==
    /\ Init /\ [][Next]_vars
    /\ part = "service" => Service!Fairness
    /\ part = "client" => Client!Fairness

-----------------------------------------------------------------------------
(* The promises of the parts that are instances. *)

\* ServiceProcess: a stop that finds its event ends the process
\* (MyService.cpp 33-105, main.cpp 154-196).
StopEndsService == Service!StopEndsService

\* ClientApp: a client without a connection has one again (Client.cpp 181-208).
Reconnects == part = "client" => Client!Reconnects
=============================================================================
