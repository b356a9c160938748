----------------------------- MODULE ClientApp -----------------------------
(***************************************************************************)
(* The test client (TestClient/Client.cpp, Client_Net.cpp): it connects to *)
(* a server, sends a request, sends the next one when an answer comes, and *)
(* its check thread connects again when the connection is gone.            *)
(*                                                                         *)
(* mSocketID is all it knows of its connection, and three threads write it *)
(* without a lock: the one in StartClient and the check thread store what   *)
(* ConnectServer returned, an IOCP worker stores 0 in OnClosed.  The net    *)
(* service is what those calls see of it: one client (maxConnection is 1), *)
(* an attempt that succeeds, fails or times out, OnClosed once for a        *)
(* connection that was up (TcpConnector has the details).                  *)
(***************************************************************************)
EXTENDS Integers, FiniteSets

CONSTANTS
    Ids,         \* logic socket ids; one is used again once nothing refers to it
    Starter,     \* the thread in StartClient
    Checker,     \* mCheckThread
    Late         \* may Join(200) run out on the check thread?

VARIABLES
    mStop,
    mSocketID,
    pc,        \* per thread: "idle", "connecting", "store", "send", "done", "killed"
    result,    \* the id its ConnectServer works on or has returned
    conn,      \* per id: "free", "connecting", "up", "closing", "closed"
    message,   \* per id: "none", "request", "response"
    stopPC,    \* StopClient: "none", "net", "join", "done"
    lateStore  \* an id was stored after OnClosed had been called for it

clientVars == <<mStop, mSocketID, pc, result, conn, message, stopPC, lateStore>>

Threads == {Starter, Checker}

Init ==
    /\ mStop = FALSE /\ mSocketID = 0 /\ stopPC = "none" /\ lateStore = FALSE
    /\ pc = [t \in Threads |-> "idle"]
    /\ result = [t \in Threads |-> 0]
    /\ conn = [i \in Ids |-> "free"]
    /\ message = [i \in Ids |-> "none"]

\* An id nothing refers to can stand for the next one of GetNextLogicSocketID.
Fresh(i) == i # mSocketID /\ \A t \in Threads : result[t] # i
Taken == {i \in Ids : conn[i] \in {"connecting", "up", "closing"}}
Held == {i \in Ids : \E t \in Threads : pc[t] = "connecting" /\ result[t] = i}

-----------------------------------------------------------------------------
(* ConnectServer, from StartClient or from CheckThreadProc. *)

\* The check thread looks at mSocketID when its timer says so; StartClient connects
\* once.  Without a client in the pool ConnectServer returns 0.
Connect(t) ==
    /\ pc[t] = "idle" /\ ~mStop
    /\ t = Checker => mSocketID = 0
    /\ \/ /\ Taken \union Held = {}
          /\ \E i \in Ids :
                /\ Fresh(i)
                /\ conn' = [conn EXCEPT ![i] = "connecting"]
                /\ message' = [message EXCEPT ![i] = "none"]
                /\ result' = [result EXCEPT ![t] = i]
          /\ pc' = [pc EXCEPT ![t] = "connecting"]
       \/ /\ Taken \union Held # {}
          /\ result' = [result EXCEPT ![t] = 0]
          /\ pc' = [pc EXCEPT ![t] = "store"]
          /\ UNCHANGED <<conn, message>>
    /\ UNCHANGED <<mStop, mSocketID, stopPC, lateStore>>

Establish(i) ==
    /\ conn[i] = "connecting"
    /\ conn' = [conn EXCEPT ![i] = "up"]
    /\ UNCHANGED <<mStop, mSocketID, pc, result, message, stopPC, lateStore>>

\* The semaphore was posted: the state is read, and the id returned if it is up.
ConnectReturns(t) ==
    /\ pc[t] = "connecting" /\ conn[result[t]] # "connecting"
    /\ result' = [result EXCEPT ![t] = IF conn[@] = "up" THEN @ ELSE 0]
    /\ pc' = [pc EXCEPT ![t] = "store"]
    /\ UNCHANGED <<mStop, mSocketID, conn, message, stopPC, lateStore>>

\* Refused, or not answered in time: the client is closed without a callback.
ConnectFails(t) ==
    /\ pc[t] = "connecting" /\ conn[result[t]] = "connecting"
    /\ conn' = [conn EXCEPT ![result[t]] = "free"]
    /\ result' = [result EXCEPT ![t] = 0]
    /\ pc' = [pc EXCEPT ![t] = "store"]
    /\ UNCHANGED <<mStop, mSocketID, message, stopPC, lateStore>>

\* mSocketID = ConnectServer(...): whatever was stored meanwhile is overwritten.
Store(t) ==
    /\ pc[t] = "store"
    /\ mSocketID' = result[t]
    /\ lateStore' = (lateStore \/ (result[t] # 0 /\ conn[result[t]] = "closed"))
    /\ pc' = [pc EXCEPT ![t] = CASE t = Starter -> "done"
                                 [] result[t] = 0 -> "idle"
                                 [] OTHER -> "send"]
    /\ result' = [result EXCEPT ![t] = 0]
    /\ UNCHANGED <<mStop, conn, message, stopPC>>

-----------------------------------------------------------------------------
(* TestSend, from the check thread and from ProcessMsg. *)

\* Send to mSocketID, which is gone unless its connection is up.
SendOn(i) ==
    message' = [m \in Ids |-> IF m = i /\ conn[i] = "up" THEN "request" ELSE message[m]]

CheckerSends ==
    /\ pc[Checker] = "send"
    /\ SendOn(mSocketID)
    /\ pc' = [pc EXCEPT ![Checker] = "idle"]
    /\ UNCHANGED <<mStop, mSocketID, result, conn, stopPC, lateStore>>

ServerAnswers(i) ==
    /\ conn[i] = "up" /\ message[i] = "request"
    /\ message' = [message EXCEPT ![i] = "response"]
    /\ UNCHANGED <<mStop, mSocketID, pc, result, conn, stopPC, lateStore>>

\* ProcessMsg with the packet OnReceived queued: the next request goes to whatever
\* connection mSocketID names by then.
ProcessMsg(i) ==
    /\ message[i] = "response" /\ ~mStop
    /\ message' = [m \in Ids |-> CASE m = mSocketID /\ conn[m] = "up" -> "request"
                                   [] m = i -> "none"
                                   [] OTHER -> message[m]]
    /\ UNCHANGED <<mStop, mSocketID, pc, result, conn, stopPC, lateStore>>

-----------------------------------------------------------------------------
(* The end of a connection, and StopClient. *)

\* The peer, an error, the idle time-out or CloseSocket.
Drop(i) ==
    /\ conn[i] = "up"
    /\ conn' = [conn EXCEPT ![i] = "closing"]
    /\ UNCHANGED <<mStop, mSocketID, pc, result, message, stopPC, lateStore>>

OnClosedKeepsId(i) ==
    /\ conn[i] = "closing"
    /\ conn' = [conn EXCEPT ![i] = "closed"]
    /\ UNCHANGED <<mStop, mSocketID, pc, result, message, stopPC, lateStore>>
\* OnClosed, on a worker: 0 for whichever connection it was.
OnClosed(i) ==
    /\ conn[i] = "closing"
    /\ conn' = [conn EXCEPT ![i] = "closed"]
    /\ mSocketID' = 0
    /\ UNCHANGED <<mStop, pc, result, message, stopPC, lateStore>>

StopClient ==
    /\ stopPC = "none" /\ pc[Starter] = "done"
    /\ mStop' = TRUE
    /\ stopPC' = "net"
    /\ UNCHANGED <<mSocketID, pc, result, conn, message, lateStore>>

\* StopNetService has closed every connection that was up.
NetStopped ==
    /\ stopPC = "net" /\ \A i \in Ids : conn[i] \notin {"up", "closing"}
    /\ stopPC' = "join"
    /\ UNCHANGED <<mStop, mSocketID, pc, result, conn, message, lateStore>>

\* The check thread leaves its loop when it sees mStop.
CheckerExits ==
    /\ pc[Checker] = "idle" /\ mStop
    /\ pc' = [pc EXCEPT ![Checker] = "done"]
    /\ UNCHANGED <<mStop, mSocketID, result, conn, message, stopPC, lateStore>>

JoinChecker ==
    /\ stopPC = "join"
    /\ pc[Checker] = "done" \/ Late
    /\ pc' = [pc EXCEPT ![Checker] = IF @ = "done" THEN @ ELSE "killed"]
    /\ stopPC' = "done"
    /\ UNCHANGED <<mStop, mSocketID, result, conn, message, lateStore>>

Thread(t) == Connect(t) \/ ConnectReturns(t) \/ Store(t)
Next ==
    \/ \E t \in Threads : Thread(t) \/ ConnectFails(t)
    \/ CheckerSends \/ CheckerExits
    \/ \E i \in Ids : Establish(i) \/ ServerAnswers(i) \/ ProcessMsg(i) \/ Drop(i) \/ OnClosed(i)
    \/ StopClient \/ NetStopped \/ JoinChecker

\* The threads and the workers go on; a server that can be reached again and again
\* accepts in the end; nothing makes a connection end or StopClient be called.
Fairness ==
    /\ \A t \in Threads : WF_clientVars(Thread(t))
    /\ WF_clientVars(CheckerSends)
    /\ \A i \in Ids : SF_clientVars(Establish(i)) /\ WF_clientVars(OnClosed(i))
FairSpec == Init /\ [][Next]_clientVars /\ Fairness

-----------------------------------------------------------------------------
Up == \E i \in Ids : conn[i] = "up"

\* The client comes back: without a connection it has one again in the end, unless it
\* is stopped.  The exception is the race the code leaves open, an id stored by
\* mSocketID = ConnectServer(...) after OnClosed had already set it to 0: it is never
\* 0 again, and the check thread waits for ever (Client.cpp 87 and 186-195,
\* Client_Net.cpp 32-36).
Reconnects == ~Up ~> (Up \/ mStop \/ lateStore)
=============================================================================
