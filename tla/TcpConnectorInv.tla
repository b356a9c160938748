---------------------------- MODULE TcpConnectorInv ----------------------------
(***************************************************************************)
(* The inductive invariants behind TcpConnector's properties.  A client of  *)
(* ConnectServer belongs to its caller alone until the ConnectEx is posted  *)
(* (FirstInv); from then on one thread at a time, or the kernel, has its    *)
(* mRecvContext (OnePump, PumpIO, PumpOp).  References are counted and keep  *)
(* their client (RefInv); so are operations, as long as no post fails        *)
(* (IOCounted).  While the ConnectEx is outstanding or its worker at work    *)
(* one count is theirs, so that nobody finds the last count gone (EndInv);   *)
(* and a caller that still waits has not called the time-out, so that an     *)
(* answer it finds with a connected client came from that worker (AnswerInv).*)
(***************************************************************************)
EXTENDS TcpConnector

\* The caller before the ConnectEx is posted, or when it could not be posted; a
\* worker between two operations on mRecvContext; the worker of the ConnectEx.
FirstPCs == {"postConnect", "removeUnconnected"}
PumpPCs == {"connectPostRecv", "connectIssueRecv", "split", "postRecv", "issueRecv"}
AnswerPCs == {"connectPostRecv", "connectIssueRecv", "connectPostSem"}
ConnectPCs == AnswerPCs \cup {"connected"}
EndPCs == {"lastIO", "closing", "remove"}
WorkPCs == TouchingPCs \cup FirstPCs

\* Nothing has happened on c yet.
Fresh(c) ==
    /\ told[c] = {} /\ ~stale[c] /\ ~marked[c]
    /\ connState[c] = "CLOSED" /\ sem[c] = 0

\* Nothing refers to a client that was never allocated.
AllocInv ==
    /\ \A t \in Threads : pc[t] \in WorkPCs => cur[t] \in Clients /\ mem[cur[t]] # "unused"
    /\ \A x \in IOContexts :
          /\ io[x] # "none" => ctxType[x] # "free"
          /\ ctxType[x] # "free" => ctxClient[x] \in Clients /\ mem[ctxClient[x]] # "unused"
    /\ \A c \in Clients : io[c] # "none" => mem[c] # "unused" /\ recvOp[c] # "idle"
    /\ \A c \in Clients : mem[c] = "unused" => Fresh(c) /\ recvOp[c] = "idle"

\* Until its ConnectEx is posted the caller is alone with the client.
FirstInv ==
    \A a \in Threads : pc[a] \in FirstPCs =>
        /\ Fresh(cur[a]) /\ io[cur[a]] = "none" /\ recvOp[cur[a]] # "recv"
        /\ pc[a] = "postConnect" => recvOp[cur[a]] = "idle"
        /\ \A t \in Threads \ {a} : pc[t] \in WorkPCs => cur[t] # cur[a]
        /\ \A x \in IOContexts : ctxType[x] # "free" => ctxClient[x] # cur[a]

\* One worker at a time has a client between two operations on its mRecvContext,
\* or still has to answer the caller of ConnectServer.
OnePump ==
    /\ \A t, u \in Threads :
          pc[t] \in PumpPCs /\ pc[u] \in PumpPCs /\ cur[t] = cur[u] => t = u
    /\ \A t, u \in Threads :
          pc[t] \in AnswerPCs /\ pc[u] \in AnswerPCs /\ cur[t] = cur[u] => t = u

PumpIO ==
    \A t \in Threads : pc[t] \in PumpPCs =>
        io[cur[t]] = IF pc[t] \in {"issueRecv", "connectIssueRecv"} THEN "posting" ELSE "none"

PumpOp ==
    \A t \in Threads :
        /\ pc[t] \in {"split", "postRecv", "issueRecv", "connectIssueRecv", "connectPostSem"}
              => recvOp[cur[t]] = "recv"
        /\ pc[t] = "connectPostRecv" => recvOp[cur[t]] = "connect"

ConnInv == AllocInv /\ FirstInv /\ OnePump /\ PumpIO /\ PumpOp

\* mReferenceCount counts the application's references, and those keep the client.
RefCounted == \A c \in Clients : refCount[c] = Cardinality(RefHolders(c))
RefKept == \A a \in AppThreads : pc[a] \in RefPCs => mem[cur[a]] = "live"
RefInv == RefCounted /\ RefKept

\* Inductive whatever the constants, and enough for RefProtects.
RefIInv == TypeOK /\ ConnInv /\ RefInv

-----------------------------------------------------------------------------
(* The count, of clients that were never allocated too. *)

Counts(c) == mem[c] # "freed"
IOCounted == \A c \in Clients : Counts(c) => pendingIO[c] = Cardinality(Holders(c))
CountIInv == RefIInv /\ IOCounted

-----------------------------------------------------------------------------
(* The answer to ConnectServer. *)

ConnectPosted(c) == io[c] # "none" /\ recvOp[c] = "connect"
Connecting(c) == ConnectPosted(c) \/ \E w \in Workers : pc[w] \in ConnectPCs /\ cur[w] = c
Unanswered(c) == ConnectPosted(c) \/ \E w \in Workers : pc[w] \in AnswerPCs /\ cur[w] = c
Announced(c) == "connected" \in told[c] \/ \E w \in Workers : pc[w] = "connected" /\ cur[w] = c

\* A connection is not ended while it is being made.
EndInv ==
    \A c \in Clients : Connecting(c) =>
        /\ mem[c] = "live" /\ ~marked[c] /\ "closed" \notin told[c]
        /\ \A t \in Threads : pc[t] \in EndPCs => cur[t] # c

OneCaller ==
    \A a, b \in AppThreads :
        pc[a] = "waitConnect" /\ pc[b] = "waitConnect" /\ cur[a] = cur[b] => a = b

\* While a caller waits, a post of its semaphore on a connected client is the one
\* of the worker that goes on to OnConnected.
AnswerInv ==
    /\ \A a \in AppThreads : pc[a] = "waitConnect" =>
          /\ \A x \in IOContexts : ctxType[x] = "connectTimeout" => ctxClient[x] # cur[a]
          /\ Unanswered(cur[a]) => sem[cur[a]] = 0
          /\ sem[cur[a]] > 0 /\ connState[cur[a]] = "CONNECTED" => Announced(cur[a])
    /\ \A c \in Clients : returned[c] = "id" => Announced(c)

ConnectInv == EndInv /\ OneCaller /\ AnswerInv
ConnectIInv == CountIInv /\ ConnectInv

=============================================================================
