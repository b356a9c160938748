----------------------------- MODULE TcpConnector -----------------------------
(***************************************************************************)
(* A TcpService in connecting mode (listenPort 0): the connections of       *)
(* TcpClient.tla and TcpService::ConnectServer, in which the caller posts a *)
(* ConnectEx and waits on the client's semaphore mConnctRemoteSem for a     *)
(* worker to report the result, but not longer than waitMS.                 *)
(***************************************************************************)
EXTENDS TcpClient

VARIABLES
    sem,        \* posts of mConnctRemoteSem not yet waited for
    returned    \* what ConnectServer returned for an id: "none", "id" or "zero"

connectorVars == <<sem, returned>>
vars == <<poolVars, connVars, pendingIO, stale, io, ctxVars, pc, cur, told, connectorVars>>

PCs == {"idle", "fault", "split", "postRecv", "issueRecv", "disconnect", "release", "lastIO",
        "closing", "remove", "send", "close", "unref", "postConnect", "removeUnconnected",
        "waitConnect", "connectPostRecv", "connectIssueRecv", "connectPostSem", "connected"}

Init ==
    /\ mem = [c \in Clients |-> "unused"]
    /\ connState = [c \in Clients |-> "CLOSED"]
    /\ pendingIO = [c \in Clients |-> 0]
    /\ refCount = [c \in Clients |-> 0]
    /\ marked = [c \in Clients |-> FALSE]
    /\ socket = [c \in Clients |-> "invalid"]
    /\ recvOp = [c \in Clients |-> "idle"]
    /\ recvPacket = [c \in Clients |-> FALSE]
    /\ stale = [c \in Clients |-> FALSE]
    /\ io = [x \in Ctx |-> "none"]
    /\ ctxType = [x \in IOContexts |-> "free"]
    /\ ctxClient = [x \in IOContexts |-> NoClient]
    /\ pc = [t \in Threads |-> "idle"]
    /\ cur = [t \in Threads |-> NoClient]
    /\ told = [c \in Clients |-> {}]
    /\ sem = [c \in Clients |-> 0]
    /\ returned = [c \in Clients |-> "none"]

-----------------------------------------------------------------------------
(* TcpService::ConnectServer, on an application thread. *)

Returns(c, result) == returned' = [returned EXCEPT ![c] = result]

\* Mutant: the client is used without a reference.
BeginConnectNoRef(a) ==
    /\ pc[a] = "idle"
    /\ \E c \in Clients :
          /\ mem[c] = "unused"
          /\ mem' = [mem EXCEPT ![c] = "live"]
          /\ socket' = [socket EXCEPT ![c] = "open"]
          /\ cur' = [cur EXCEPT ![a] = c]
    /\ Goto(a, "postConnect")
    /\ UNCHANGED <<refCount, marked, connState, recvOp, recvPacket, pendingIO, stale, io,
                   ctxVars, told, connectorVars>>

\* AllocTcpClient, and a TcpClientRef on the new client.
BeginConnect(a) ==
    /\ pc[a] = "idle"
    /\ \E c \in Clients :
          /\ mem[c] = "unused"
          /\ mem' = [mem EXCEPT ![c] = "live"]
          /\ socket' = [socket EXCEPT ![c] = "open"]
          /\ refCount' = [refCount EXCEPT ![c] = 1]
          /\ cur' = [cur EXCEPT ![a] = c]
    /\ Goto(a, "postConnect")
    /\ UNCHANGED <<marked, connState, recvOp, recvPacket, pendingIO, stale, io, ctxVars,
                   told, connectorVars>>

\* Mutant: the ConnectEx is not counted.
PostConnectUncounted(a) ==
    /\ At(a, "postConnect")
    /\ recvOp' = [recvOp EXCEPT ![cur[a]] = "connect"]
    /\ io' = [io EXCEPT ![cur[a]] = "kernel"]
    /\ Goto(a, "waitConnect")
    /\ UNCHANGED <<poolVars, connState, socket, recvPacket, pendingIO, stale, ctxVars, cur,
                   told, connectorVars>>

\* PostConnect: the address, the semaphore, the port, ConnectEx.  If any of them
\* fails the socket is closed, unless it was the address, the reference dropped
\* and the client removed; a refused ConnectEx leaves mRecvContext set up for it.
PostConnect(a) ==
    /\ At(a, "postConnect")
    /\ \/ /\ recvOp' = [recvOp EXCEPT ![cur[a]] = "connect"]
          /\ pendingIO' = [pendingIO EXCEPT ![cur[a]] = @ + 1]
          /\ io' = [io EXCEPT ![cur[a]] = "kernel"]
          /\ Goto(a, "waitConnect")
          /\ UNCHANGED <<socket, refCount, cur, returned>>
       \/ /\ \E after \in {<<"open", "idle">>, <<"invalid", "idle">>, <<"invalid", "connect">>} :
                /\ socket' = [socket EXCEPT ![cur[a]] = after[1]]
                /\ recvOp' = [recvOp EXCEPT ![cur[a]] = after[2]]
          /\ refCount' = [refCount EXCEPT ![cur[a]] = @ - 1]
          /\ Goto(a, "removeUnconnected")
          /\ UNCHANGED <<pendingIO, io, cur, returned>>
    /\ UNCHANGED <<mem, marked, connState, recvPacket, stale, ctxVars, told, sem>>

RemoveUnconnected(a) ==
    /\ pc[a] = "removeUnconnected"
    /\ RemoveFromMap(cur[a])
    /\ Returns(cur[a], "zero")
    /\ Goto(a, "idle")
    /\ cur' = [cur EXCEPT ![a] = NoClient]
    /\ UNCHANGED <<refCount, connVars, pendingIO, stale, io, ctxVars, told, sem>>

\* Mutant: any answer is taken for a good one.
ConnectAnsweredUnchecked(a) ==
    /\ At(a, "waitConnect") /\ sem[cur[a]] > 0
    /\ sem' = [sem EXCEPT ![cur[a]] = @ - 1]
    /\ Returns(cur[a], "id")
    /\ Goto(a, "unref")
    /\ UNCHANGED <<poolVars, connVars, pendingIO, stale, io, ctxVars, cur, told>>

\* The wait is over: the id is good if the client is connected at that moment.
ConnectAnswered(a) ==
    /\ At(a, "waitConnect") /\ sem[cur[a]] > 0
    /\ sem' = [sem EXCEPT ![cur[a]] = @ - 1]
    /\ Returns(cur[a], IF connState[cur[a]] = "CONNECTED" THEN "id" ELSE "zero")
    /\ Goto(a, "unref")
    /\ UNCHANGED <<poolVars, connVars, pendingIO, stale, io, ctxVars, cur, told>>

\* waitMS went by first: a special operation tells the workers.
ConnectTimesOut(a) ==
    /\ At(a, "waitConnect") /\ sem[cur[a]] = 0
    /\ \/ PostSpecial(cur[a], "connectTimeout") /\ Goto(a, "unref")
       \/ PostSpecialFails(cur[a]) /\ Goto(a, "release") /\ UNCHANGED <<io, ctxVars, pendingIO>>
    /\ Returns(cur[a], "zero")
    /\ UNCHANGED <<poolVars, connVars, stale, cur, told, sem>>

-----------------------------------------------------------------------------
(* OnConnectExCompletion, on an IOCP worker. *)

\* The ConnectEx succeeded: CONNECTED, then PostRecv, and only then is the
\* caller of ConnectServer woken and the application called.
ConnectCompleted(w, c) ==
    /\ recvOp[c] = "connect" /\ io[c] = "done"
    /\ Dequeue(w, c)
    /\ connState' = [connState EXCEPT ![c] = "CONNECTED"]
    /\ Goto(w, "connectPostRecv")
    /\ UNCHANGED <<poolVars, socket, recvOp, recvPacket, pendingIO, ctxVars, told, connectorVars>>

\* The ConnectEx failed, or ConnectServer gave up: CLOSED whatever it was, and
\* the semaphore is posted.  SetDisconnect then finds nothing CONNECTED.
ConnectFailed(w, c) ==
    /\ connState' = [connState EXCEPT ![c] = "CLOSED"]
    /\ sem' = [sem EXCEPT ![c] = @ + 1]
    /\ Goto(w, "disconnect")
    /\ UNCHANGED <<poolVars, socket, recvOp, recvPacket, pendingIO, told, returned>>

ConnectRefused(w, c) ==
    /\ recvOp[c] = "connect" /\ io[c] = "failed"
    /\ Dequeue(w, c)
    /\ ConnectFailed(w, c)
    /\ UNCHANGED ctxVars

ConnectTimeoutCompleted(w, x) ==
    /\ ctxType[x] = "connectTimeout"
    /\ Dequeue(w, x)
    /\ ReleaseContext(x)
    /\ ConnectFailed(w, ctxClient[x])

PostSem(w) ==
    /\ At(w, "connectPostSem")
    /\ sem' = [sem EXCEPT ![cur[w]] = @ + 1]
    /\ Goto(w, "connected")
    /\ UNCHANGED <<poolVars, connVars, pendingIO, stale, io, ctxVars, cur, told, returned>>

ReportConnected(w) ==
    /\ At(w, "connected")
    /\ Tell(cur[w], "connected")
    /\ Goto(w, "release")
    /\ UNCHANGED <<poolVars, connVars, pendingIO, stale, io, ctxVars, cur, connectorVars>>

-----------------------------------------------------------------------------
ConnectServer(a) ==
    \/ BeginConnect(a) \/ PostConnect(a) \/ RemoveUnconnected(a)
    \/ ConnectAnswered(a) \/ ConnectTimesOut(a)

ConnectCompletion(w) ==
    \/ \E c \in Clients : ConnectCompleted(w, c) \/ ConnectRefused(w, c)
    \/ \E x \in IOContexts : ConnectTimeoutCompleted(w, x)
    \/ PostRecv(w, "connectPostRecv", "connectIssueRecv") /\ UNCHANGED connectorVars
    \/ IssueRecv(w, "connectIssueRecv", "connectPostSem", "disconnect") /\ UNCHANGED connectorVars
    \/ PostSem(w) \/ ReportConnected(w)

ConnectNext ==
    \/ \E a \in AppThreads : ConnectServer(a)
    \/ \E w \in Workers : ConnectCompletion(w)

Next == (ClientNext /\ UNCHANGED connectorVars) \/ ConnectNext

Spec == Init /\ [][Next]_vars

-----------------------------------------------------------------------------
ClientTypeOK ==
    /\ mem \in [Clients -> {"unused", "live", "freed"}]
    /\ connState \in [Clients -> {"CLOSED", "CONNECTED", "CLOSING"}]
    /\ pendingIO \in [Clients -> Int]
    /\ refCount \in [Clients -> Int]
    /\ marked \in [Clients -> BOOLEAN]
    /\ socket \in [Clients -> {"open", "invalid"}]
    /\ recvOp \in [Clients -> {"idle", "connect", "recv"}]
    /\ recvPacket \in [Clients -> BOOLEAN]
    /\ stale \in [Clients -> BOOLEAN]
    /\ told \in [Clients -> SUBSET {"connected", "received", "closed"}]

ContextTypeOK ==
    /\ io \in [Ctx -> {"none", "posting", "kernel", "done", "failed"}]
    /\ ctxType \in [IOContexts -> {"free", "send", "timeout", "closed", "connectTimeout"}]
    /\ ctxClient \in [IOContexts -> Clients \cup {NoClient}]

ThreadTypeOK ==
    /\ pc \in [Threads -> PCs]
    /\ cur \in [Threads -> Clients \cup {NoClient}]

ConnectorTypeOK ==
    /\ sem \in [Clients -> Nat]
    /\ returned \in [Clients -> {"none", "id", "zero"}]

TypeOK == ClientTypeOK /\ ContextTypeOK /\ ThreadTypeOK /\ ConnectorTypeOK

\* mPendingIO counts exactly what is outstanding, through the semaphore, the
\* connect time-out and the late answer.
CountExact == \A c \in Clients : mem[c] = "live" => pendingIO[c] = Cardinality(Holders(c))

\* The caller of ConnectServer keeps the client it waits on, and its semaphore.
RefProtects ==
    \A a \in AppThreads : pc[a] \in RefPCs => mem[cur[a]] = "live" /\ refCount[cur[a]] > 0

\* Unlike on the accepting side, the worker still holds its count while it calls
\* OnConnected, so OnClosed cannot overtake it.
ClosedAfterConnected ==
    \A w \in Workers : pc[w] \in {"connectPostRecv", "connectIssueRecv", "connectPostSem", "connected"} =>
        /\ mem[cur[w]] = "live"
        /\ "closed" \notin told[cur[w]]

\* An id ConnectServer returned is one OnConnected names, now or before the
\* worker that posted the semaphore is done.
ReturnedIsConnected ==
    \A c \in Clients : returned[c] = "id" =>
        \/ "connected" \in told[c]
        \/ \E w \in Workers : pc[w] = "connected" /\ cur[w] = c

=============================================================================
