----------------------------- MODULE NetShutdown -----------------------------
(***************************************************************************)
(* Starting and stopping a listening service and the core it runs on:      *)
(* NetCoreIOCP::Initialize and UnInitialize, IOCPWorkProc and              *)
(* AssistThreadProc (Netlib/NetCoreIOCP.cpp), StopNetService               *)
(* (Netlib/TcpService.cpp, NetService.cpp) and the release of the acceptor *)
(* (Netlib/TcpAcceptor.cpp).                                               *)
(*                                                                         *)
(* A connection is reduced to what stopping it takes: one overlapped       *)
(* operation, an accept or a receive, and its place in mTcpClientMap.      *)
(* TcpServer has its whole life; here the main thread takes everything     *)
(* down around it.  The port is the queue of completion packets, in order. *)
(*                                                                         *)
(* StopNetService waits 1000 ms for the acceptor and 600 ms for the        *)
(* clients.  With WaitsExpire FALSE such a wait ends early only when       *)
(* nothing that it waits for can move any more.                            *)
(***************************************************************************)
EXTENDS Integers, Sequences, SequencesExt, FiniteSets

CONSTANTS
    Clients,      \* the ids of the connections
    Backlog,      \* how many accepts StartNetService posts
    ThreadCount,  \* the workers Initialize starts
    Poison,       \* the packet without key and overlapped that ends a worker
    WaitsExpire,  \* may the two waits be too short?
    ThreadsFail   \* may CreateThread, CreateEvent or new fail?

Workers == 1..ThreadCount
Main == 0
Nobody == -1
Assist == -2

ASSUME ShutdownAssumption ==
    /\ ThreadCount \in Nat \ {0}
    /\ IsFiniteSet(Clients) /\ Backlog \in 1..Cardinality(Clients)
    /\ Poison \notin Clients \cup [client : Clients, ok : BOOLEAN]
    /\ {WaitsExpire, ThreadsFail} \subseteq BOOLEAN

VARIABLES
    mainPC,
    port,       \* packets queued to mIOCPHandle: [client, ok], or Poison
    wpc, wcur,  \* where a worker is, and the client of its packet
    exitEvent,  \* mThreadExitHandles: "null", "reset", "set" or "closed"
    mThreads,   \* the workers Initialize counts as started
    running,    \* those that really have a thread
    apc,        \* the assist thread
    mStopAssistThread,
    mapLock,    \* the owner of mServiceMapLock
    registered, \* the service is in mServiceMap
    poolLock,   \* the owner of mTcpClientPoolLock
    clientMap,  \* mTcpClientMap
    conn,       \* "unused", "accepting", "open" or "gone"
    sock,       \* the client's socket: "open" or "closed"
    op,         \* the client's operation is with the kernel
    acceptor,   \* mTcpAcceptor: "null", "live" or "freed"
    listenSock, \* the acceptor's socket
    pending,    \* mPendingAcceptCount
    event,      \* mReleaeseAcceptorEvent
    mMarkedStop,
    pools,      \* the five pools: "none", "live" or "freed"
    service     \* the TcpService object

coreVars == <<exitEvent, mThreads, running, apc, mStopAssistThread, mapLock>>
acceptorVars == <<acceptor, listenSock, pending, event>>
clientVars == <<clientMap, conn, sock, op>>
serviceVars == <<registered, poolLock, mMarkedStop, pools, service>>
vars == <<mainPC, port, wpc, wcur, coreVars, acceptorVars, clientVars, serviceVars>>

Go(w, to) == wpc' = [wpc EXCEPT ![w] = to]
Unused == {c \in Clients : conn[c] = "unused"}
Accepting(c) == conn[c] = "accepting"

-----------------------------------------------------------------------------
(* The kernel. *)

\* An operation ends: a peer connects, sends or closes, or the socket the
\* operation is on was closed.
Completes(c) ==
    /\ op[c]
    /\ op' = [op EXCEPT ![c] = FALSE]
    /\ \E ok \in BOOLEAN :
          /\ ok => IF Accepting(c) THEN listenSock = "open" ELSE sock[c] = "open"
          /\ ~ok => IF Accepting(c) THEN listenSock = "closed" ELSE TRUE
          /\ port' = Append(port, [client |-> c, ok |-> ok])
    /\ UNCHANGED <<mainPC, wpc, wcur, coreVars, acceptorVars, clientMap, conn, sock, serviceVars>>

-----------------------------------------------------------------------------
(* IOCPWorkProc and what OnCompleteOperation does of interest here. *)

Dequeue(w) ==
    /\ wpc[w] = "get" /\ port # <<>>
    /\ LET p == Head(port) IN
          IF p = Poison THEN Go(w, "leave") /\ wcur' = wcur
          ELSE /\ wcur' = [wcur EXCEPT ![w] = p.client]
               /\ Go(w, IF Accepting(p.client) THEN (IF p.ok THEN "accept" ELSE "drop")
                        ELSE IF p.ok THEN "received" ELSE "remove")
    /\ port' = Tail(port)
    /\ UNCHANGED <<mainPC, coreVars, acceptorVars, clientVars, serviceVars>>

\* A thread that was handed a poison packet sets its event and leaves.
Leave(w) ==
    /\ wpc[w] = "leave"
    /\ exitEvent' = [exitEvent EXCEPT ![w] = "set"]
    /\ Go(w, "exited")
    /\ UNCHANGED <<mainPC, port, wcur, mThreads, running, apc, mStopAssistThread, mapLock,
                   acceptorVars, clientVars, serviceVars>>

\* PostRecv on the client of w: WSARecv fails on a socket that was closed.
PostRecv(w, failTo) ==
    LET c == wcur[w] IN
    IF sock[c] = "open"
    THEN op' = [op EXCEPT ![c] = TRUE] /\ Go(w, IF conn[c] = "open" THEN "get" ELSE "repost")
    ELSE op' = op /\ Go(w, failTo)

\* AcceptConnection: a step of it may fail, or the receive is posted.
AcceptConnection(w) ==
    /\ wpc[w] = "accept"
    /\ \/ PostRecv(w, "drop") /\ conn' = [conn EXCEPT ![wcur[w]] = "open"]
       \/ Go(w, "drop") /\ UNCHANGED <<op, conn>>
    /\ UNCHANGED <<mainPC, port, wcur, coreVars, acceptorVars, clientMap, sock, serviceVars>>

\* OnReceived and the next receive.
Received(w) ==
    /\ wpc[w] = "received"
    /\ PostRecv(w, "remove")
    /\ UNCHANGED <<mainPC, port, wcur, coreVars, acceptorVars, clientMap, conn, sock, serviceVars>>

\* RemoveClient, after OnClosed for a connection, after Reset for an accept.
RemoveLockless(w) ==
    /\ wpc[w] \in {"drop", "remove"}
    /\ clientMap' = clientMap \ {wcur[w]}
    /\ sock' = [sock EXCEPT ![wcur[w]] = "closed"]
    /\ conn' = [conn EXCEPT ![wcur[w]] = "gone"]
    /\ Go(w, IF wpc[w] = "drop" THEN "repost" ELSE "get")
    /\ UNCHANGED <<mainPC, port, wcur, coreVars, acceptorVars, op, serviceVars>>
RemoveClient(w) == poolLock = Nobody /\ RemoveLockless(w)

\* PostAccept after a completed accept: AllocTcpClient refuses once the service
\* is stopping, and the closed listening socket does before.
RepostAccept(w) ==
    /\ wpc[w] = "repost"
    /\ \/ /\ listenSock = "closed" \/ mMarkedStop \/ Unused = {}
          /\ Go(w, "decrement")
          /\ UNCHANGED <<wcur, clientVars, pending>>
       \/ /\ listenSock = "open" /\ ~mMarkedStop /\ poolLock = Nobody
          /\ \E c \in Unused :
                /\ clientMap' = clientMap \union {c}
                /\ conn' = [conn EXCEPT ![c] = "accepting"]
                /\ sock' = [sock EXCEPT ![c] = "open"]
                /\ wcur' = [wcur EXCEPT ![w] = c]
          /\ pending' = pending + 1
          /\ Go(w, "acceptEx")
          /\ UNCHANGED op
    /\ UNCHANGED <<mainPC, port, coreVars, acceptor, listenSock, event, serviceVars>>

\* AcceptEx, which fails if the listening socket was closed meanwhile.
AcceptEx(w) ==
    /\ wpc[w] = "acceptEx"
    /\ IF listenSock = "open"
       THEN op' = [op EXCEPT ![wcur[w]] = TRUE] /\ Go(w, "decrement") /\ pending' = pending
       ELSE op' = op /\ Go(w, "unpost") /\ pending' = pending - 1
    /\ UNCHANGED <<mainPC, port, wcur, coreVars, acceptor, listenSock, event, clientMap, conn,
                   sock, serviceVars>>

Unpost(w) ==
    /\ wpc[w] = "unpost" /\ poolLock = Nobody
    /\ clientMap' = clientMap \ {wcur[w]}
    /\ conn' = [conn EXCEPT ![wcur[w]] = "gone"]
    /\ Go(w, "decrement")
    /\ UNCHANGED <<mainPC, port, wcur, coreVars, acceptorVars, sock, op, serviceVars>>

\* DecrementPending, and the release of the acceptor by whoever counts to zero.
\* SetEvent on a handle that was closed does nothing.
Decrement(w) ==
    /\ wpc[w] = "decrement"
    /\ pending' = pending - 1
    /\ IF pending = 1
       THEN listenSock' = "closed" /\ Go(w, "release")
       ELSE listenSock' = listenSock /\ Go(w, "get")
    /\ UNCHANGED <<mainPC, port, wcur, coreVars, acceptor, event, clientVars, serviceVars>>

ReleaseAcceptor(w) ==
    /\ wpc[w] = "release"
    /\ event' = IF event = "reset" THEN "set" ELSE event
    /\ acceptor' = "freed"
    /\ Go(w, "get")
    /\ UNCHANGED <<mainPC, port, wcur, coreVars, listenSock, pending, clientVars, serviceVars>>

WorkerStep(w) ==
    \/ Dequeue(w) \/ Leave(w) \/ AcceptConnection(w) \/ Received(w) \/ RemoveClient(w)
    \/ RepostAccept(w) \/ AcceptEx(w) \/ Unpost(w) \/ Decrement(w) \/ ReleaseAcceptor(w)

-----------------------------------------------------------------------------
(* AssistThreadProc. *)

\* Every second it takes mServiceMapLock and calls TickUpdate of each service,
\* which takes mTcpClientPoolLock in turn; it looks at its flag between two ticks.
AssistStep ==
    /\ \/ /\ apc = "loop" /\ mStopAssistThread
          /\ apc' = "exit" /\ mapLock' = mapLock
       \/ /\ apc = "loop" /\ ~mStopAssistThread /\ mapLock = Nobody
          /\ apc' = "tick" /\ mapLock' = Assist
       \/ /\ apc = "tick" /\ (registered => poolLock = Nobody)
          /\ apc' = "loop" /\ mapLock' = Nobody
    /\ UNCHANGED <<mainPC, port, wpc, wcur, exitEvent, mThreads, running, mStopAssistThread,
                   acceptorVars, clientVars, serviceVars>>

-----------------------------------------------------------------------------
(* Initialize, StartNetService, StopNetService and UnInitialize on main. *)

\* Initialize: the assist thread, then per worker an event and a thread.  An event that
\* cannot be made ends the loop, a thread object that cannot be is passed over.  Start
\* answers true also when CreateThread fails: such a worker counts, but never runs.
Initialize ==
    /\ mainPC = "init"
    /\ apc' \in {"loop"} \union (IF ThreadsFail THEN {"exit"} ELSE {})
    /\ \E n \in 0..ThreadCount : \E made \in SUBSET (1..n) :
          /\ ThreadsFail \/ made = Workers
          /\ mThreads' = made
          /\ running' \in IF ThreadsFail THEN SUBSET made ELSE {made}
          /\ exitEvent' = [w \in Workers |-> IF w <= n THEN "reset" ELSE "null"]
          /\ wpc' = [w \in Workers |-> IF w \in running' THEN "get" ELSE "exited"]
          /\ mainPC' = IF made = Workers THEN "serve" ELSE "uninit"
    /\ UNCHANGED <<port, wcur, mStopAssistThread, mapLock, acceptorVars, clientVars, serviceVars>>

\* StartNetService that succeeds: the pools, the acceptor and its accepts.
StartNetService ==
    /\ mainPC = "serve" /\ mapLock = Nobody
    /\ registered' = TRUE /\ pools' = "live" /\ service' = "live"
    /\ acceptor' = "live" /\ listenSock' = "open" /\ event' = "reset"
    /\ \E posted \in SUBSET Clients :
          /\ Cardinality(posted) = Backlog
          /\ clientMap' = posted
          /\ conn' = [c \in Clients |-> IF c \in posted THEN "accepting" ELSE "unused"]
          /\ sock' = [c \in Clients |-> IF c \in posted THEN "open" ELSE "closed"]
          /\ op' = [c \in Clients |-> c \in posted]
    /\ pending' = Backlog
    /\ mainPC' = "running"
    /\ UNCHANGED <<port, wpc, wcur, coreVars, poolLock, mMarkedStop>>

\* The application stops the service, whatever its connections are at.
CallStop ==
    /\ mainPC = "running"
    /\ mMarkedStop' = TRUE
    /\ mainPC' = "removeService"
    /\ UNCHANGED <<port, wpc, wcur, coreVars, acceptorVars, clientVars, registered, poolLock,
                   pools, service>>

RemoveService ==
    /\ mainPC = "removeService" /\ mapLock = Nobody
    /\ registered' = FALSE
    /\ mainPC' = "postCancel"
    /\ UNCHANGED <<port, wpc, wcur, coreVars, acceptorVars, clientVars, poolLock, mMarkedStop,
                   pools, service>>

\* PostCancel closes the listening socket, which aborts the accepts.
PostCancel ==
    /\ mainPC = "postCancel"
    /\ listenSock' = "closed"
    /\ mainPC' = "waitAcceptor"
    /\ UNCHANGED <<port, wpc, wcur, coreVars, acceptor, pending, event, clientVars, serviceVars>>

\* Nothing that main waits for can happen any more.
AllQuiet ==
    /\ port = <<>> \/ running = {}
    /\ \A w \in Workers : wpc[w] \in {"get", "exited"}
    /\ \A c \in Clients : op[c] => ~Accepting(c) /\ sock[c] = "open"

\* WaitForSingleObject(mReleaeseAcceptorEvent, 1000) and CloseHandle.
NoWaitForAcceptor ==
    /\ mainPC = "waitAcceptor"
    /\ event' = "closed"
    /\ mainPC' = "cancel"
    /\ UNCHANGED <<port, wpc, wcur, coreVars, acceptor, listenSock, pending, clientVars, serviceVars>>
WaitAcceptor == (event = "set" \/ WaitsExpire \/ AllQuiet) /\ NoWaitForAcceptor

\* CancelIO on every client that is not accepting, under mTcpClientPoolLock.
CancelClients ==
    /\ mainPC = "cancel" /\ poolLock = Nobody
    /\ sock' = [c \in Clients |-> IF c \in clientMap /\ ~Accepting(c) THEN "closed" ELSE sock[c]]
    /\ mainPC' = "poll"
    /\ UNCHANGED <<port, wpc, wcur, coreVars, acceptorVars, clientMap, conn, op, serviceVars>>

\* A turn of the loop that waits: with clients left it sleeps 100 ms, its lock held.
Poll ==
    /\ mainPC = "poll" /\ poolLock = Nobody
    /\ IF clientMap = {}
       THEN mainPC' = "release" /\ poolLock' = poolLock
       ELSE mainPC' = "nap" /\ poolLock' = Main
    /\ UNCHANGED <<port, wpc, wcur, coreVars, acceptorVars, clientVars, registered, mMarkedStop,
                   pools, service>>

NapKeepsLock ==
    /\ mainPC = "nap"
    /\ mainPC' = IF WaitsExpire \/ AllQuiet THEN "release" ELSE "nap"
    /\ UNCHANGED <<port, wpc, wcur, coreVars, acceptorVars, clientVars, serviceVars>>
Nap ==
    /\ mainPC = "nap"
    /\ poolLock' = Nobody
    /\ mainPC' \in {"poll"} \union (IF WaitsExpire \/ AllQuiet THEN {"release"} ELSE {})
    /\ UNCHANGED <<port, wpc, wcur, coreVars, acceptorVars, clientVars, registered, mMarkedStop,
                   pools, service>>

ReleaseAllPool ==
    /\ mainPC = "release" /\ poolLock = Nobody
    /\ pools' = "freed"
    /\ mainPC' = "delete"
    /\ UNCHANGED <<port, wpc, wcur, coreVars, acceptorVars, clientVars, registered, poolLock,
                   mMarkedStop, service>>

\* NetService::StopNetService deletes the TcpService, then the core is stopped.
DeleteService ==
    /\ mainPC = "delete"
    /\ service' = "freed"
    /\ mainPC' = "uninit"
    /\ UNCHANGED <<port, wpc, wcur, coreVars, acceptorVars, clientVars, registered, poolLock,
                   mMarkedStop, pools>>

UnInitialize ==
    /\ mainPC = "uninit"
    /\ mStopAssistThread' = TRUE
    /\ mainPC' = "joinAssist"
    /\ UNCHANGED <<port, wpc, wcur, exitEvent, mThreads, running, apc, mapLock, acceptorVars, clientVars,
                   serviceVars>>

\* Join(200), which kills an assist thread that takes longer; then one poison packet
\* for each worker in mThreads.
PoisonThese(packets) ==
    /\ mainPC = "joinAssist" /\ (apc = "exit" \/ WaitsExpire)
    /\ apc' = "exit"
    /\ port' = port \o packets
    /\ mainPC' = "waitExits"
    /\ UNCHANGED <<wpc, wcur, exitEvent, mThreads, running, mStopAssistThread, mapLock,
                   acceptorVars, clientVars, serviceVars>>
PoisonOne == PoisonThese(<<Poison>>)
PoisonWorkers == PoisonThese([i \in 1..Cardinality(mThreads) |-> Poison])

\* WaitForSingleObject(mThreadExitHandles[i], INFINITE) for every event there is.
WaitExits ==
    /\ mainPC = "waitExits"
    /\ \A w \in Workers : exitEvent[w] \in {"null", "set"}
    /\ exitEvent' = [w \in Workers |-> "closed"]
    /\ mainPC' = "done"
    /\ UNCHANGED <<port, wpc, wcur, mThreads, running, apc, mStopAssistThread, mapLock, acceptorVars,
                   clientVars, serviceVars>>

MainStep ==
    \/ Initialize \/ StartNetService \/ RemoveService \/ PostCancel \/ WaitAcceptor
    \/ CancelClients \/ Poll \/ Nap \/ ReleaseAllPool \/ DeleteService
    \/ UnInitialize \/ PoisonWorkers \/ WaitExits

-----------------------------------------------------------------------------
Init ==
    /\ mainPC = "init" /\ port = <<>>
    /\ wpc = [w \in Workers |-> "exited"] /\ wcur \in [Workers -> {Poison}]
    /\ exitEvent = [w \in Workers |-> "null"] /\ mThreads = {} /\ running = {}
    /\ apc = "exit" /\ mStopAssistThread = FALSE
    /\ mapLock = Nobody /\ registered = FALSE /\ poolLock = Nobody
    /\ clientMap = {}
    /\ conn = [c \in Clients |-> "unused"]
    /\ sock = [c \in Clients |-> "closed"]
    /\ op = [c \in Clients |-> FALSE]
    /\ acceptor = "null" /\ listenSock = "closed" /\ pending = 0 /\ event = "none"
    /\ mMarkedStop = FALSE /\ pools = "none" /\ service = "none"

Next ==
    \/ \E c \in Clients : Completes(c)
    \/ \E w \in Workers : WorkerStep(w)
    \/ AssistStep
    \/ MainStep
    \/ CallStop

Spec == Init /\ [][Next]_vars

(* Every thread is scheduled; the kernel completes what was aborted; the lock *)
(* main keeps taking is given to a waiting worker in the end, and the timer   *)
(* of the loop runs out.                                                      *)
Fairness ==
    /\ \A c \in Clients : WF_vars(Completes(c) /\ (sock[c] = "closed" \/ listenSock = "closed"))
    /\ \A w \in Workers : SF_vars(WorkerStep(w))
    /\ SF_vars(AssistStep)
    /\ SF_vars(MainStep)
    /\ SF_vars(Nap /\ mainPC' = "release")
FairSpec == Spec /\ Fairness

-----------------------------------------------------------------------------
(* Properties. *)

TypeOK ==
    /\ port \in Seq([client : Clients, ok : BOOLEAN] \union {Poison})
    /\ clientMap \subseteq Clients /\ pending \in Nat
    /\ conn \in [Clients -> {"unused", "accepting", "open", "gone"}]
    /\ sock \in [Clients -> {"open", "closed"}] /\ op \in [Clients -> BOOLEAN]
    /\ exitEvent \in [Workers -> {"null", "reset", "set", "closed"}]
    /\ poolLock \in {Main, Nobody} /\ mapLock \in {Assist, Nobody}

ServiceCode == {"accept", "drop", "received", "remove", "repost", "acceptEx", "unpost",
                "decrement", "release"}

(* NetService.cpp:105: "then we can release memory pool of tcp service       *)
(* safely".  When the pools are freed no client is left in the table, no      *)
(* operation of one is with the kernel or in the port, and no worker is in    *)
(* the service's code; provided any worker runs at all.                       *)
ReleasedSafely ==
    pools = "freed" /\ running # {} =>
        /\ clientMap = {}
        /\ \A c \in Clients : ~op[c]
        /\ \A w \in Workers : wpc[w] \notin ServiceCode
        /\ \A i \in DOMAIN port : port[i] = Poison

(* No connection slips through the two halves of StopNetService: once the     *)
(* clients were cancelled, every socket of a connection is closed, also of    *)
(* one that was accepted while the service began to stop.                     *)
NoLateConnection ==
    mainPC \in {"poll", "nap", "release"} =>
        \A c \in clientMap : conn[c] = "open" => sock[c] = "closed"

(* StopNetService returns, although it sleeps with the lock held that the     *)
(* workers need to remove the clients it waits for.                           *)
StopReturns == mMarkedStop ~> service = "freed"

(* UnInitialize returns with every worker gone, unless Initialize made an     *)
(* event for a worker that never runs: nobody ever sets that one, and         *)
(* UnInitialize waits for it without a limit.                                 *)
EventWithoutThread == \E w \in Workers \ running : exitEvent[w] # "null"
UninitEnds ==
    mainPC = "uninit" ~> \/ mainPC = "done" /\ \A w \in Workers : wpc[w] = "exited"
                         \/ EventWithoutThread
=============================================================================
