------------------------------ MODULE TcpServer ------------------------------
(***************************************************************************)
(* A TcpService in listening mode: the connections of TcpClient.tla, and    *)
(* the TcpAcceptor (Netlib/TcpAcceptor.cpp) that keeps Backlog AcceptEx     *)
(* operations outstanding, each with a TcpClient allocated in advance.  The *)
(* completion of an accept runs on an IOCP worker, which turns the client   *)
(* into a connection, posts the next accept, and deletes the acceptor when  *)
(* no accept is outstanding any more.                                       *)
(***************************************************************************)
EXTENDS TcpClient

CONSTANT Backlog    \* listenBacklog, the accepts Initialize posts

ASSUME BacklogPositive == Backlog \in Nat \ {0}

VARIABLES
    acceptor,       \* the TcpAcceptor object: "alive" or "deleted"
    listening,      \* its mSocket is valid
    pendingAccept,  \* its mPendingAcceptCount
    started         \* accepts TcpAcceptor::Initialize has posted so far

acceptorVars == <<acceptor, listening, pendingAccept, started>>
vars == <<poolVars, connVars, pendingIO, stale, io, ctxVars, pc, cur, told, acceptorVars>>

PCs == {"idle", "fault", "started", "startFailed", "gaveUp", "split", "postRecv", "issueRecv",
        "disconnect", "release", "lastIO", "closing", "remove", "send", "close", "unref",
        "acceptPostRecv", "acceptIssueRecv", "accepted", "acceptFailed", "acceptRemove",
        "postAccept", "issueAccept", "acceptEx", "endAccept"}

\* StartNetService has made the pools and the listening socket.
Init ==
    /\ mem = [c \in Clients |-> "unused"]
    /\ connState = [c \in Clients |-> "CLOSED"]
    /\ pendingIO = [c \in Clients |-> 0]
    /\ refCount = [c \in Clients |-> 0]
    /\ marked = [c \in Clients |-> FALSE]
    /\ socket = [c \in Clients |-> "invalid"]
    /\ recvOp = [c \in Clients |-> "idle"]
    /\ recvPacket = [c \in Clients |-> FALSE]
    /\ stale = [c \in Clients |-> FALSE]
    /\ io = [x \in Ctx |-> "none"]
    /\ ctxType = [x \in IOContexts |-> "free"]
    /\ ctxClient = [x \in IOContexts |-> NoClient]
    /\ pc = [t \in Threads |-> IF t = Starter THEN "postAccept" ELSE "idle"]
    /\ cur = [t \in Threads |-> NoClient]
    /\ told = [c \in Clients |-> {}]
    /\ acceptor = "alive" /\ listening = TRUE
    /\ pendingAccept = 0 /\ started = 0

-----------------------------------------------------------------------------
(* TcpAcceptor::PostAccept, called by Initialize and after every accept. *)

\* AllocTcpClient resets the object and enters it in the table under the lock.
AllocTcpClient(t) ==
    /\ pc[t] = "postAccept" /\ acceptor = "alive" /\ listening
    /\ \E c \in Clients :
          /\ mem[c] = "unused"
          /\ mem' = [mem EXCEPT ![c] = "live"]
          /\ socket' = [socket EXCEPT ![c] = "open"]
          /\ cur' = [cur EXCEPT ![t] = c]
    /\ Goto(t, "issueAccept")
    /\ UNCHANGED <<connState, pendingIO, refCount, marked, recvOp, recvPacket, stale,
                   io, ctxVars, told, acceptorVars>>

\* Mutant: Initialize's loop runs once too often.
AfterAcceptOnceMore(t, posted) ==
    /\ Goto(t, IF t # Starter THEN "endAccept"
               ELSE IF ~posted THEN "startFailed"
               ELSE IF started + 1 <= Backlog THEN "postAccept"
               ELSE "started")
    /\ cur' = [cur EXCEPT ![t] = NoClient]

\* Where PostAccept returns to: the accept handler, or Initialize's loop.
AfterAccept(t, posted) ==
    /\ Goto(t, IF t # Starter THEN "endAccept"
               ELSE IF ~posted THEN "startFailed"
               ELSE IF started + 1 < Backlog THEN "postAccept"
               ELSE "started")
    /\ cur' = [cur EXCEPT ![t] = NoClient]

\* The listening socket is closed, or no client or socket can be had.
CannotPostAccept(t) ==
    /\ pc[t] = "postAccept" /\ acceptor = "alive"
    /\ AfterAccept(t, FALSE)
    /\ UNCHANGED <<poolVars, connVars, pendingIO, stale, io, ctxVars, told, acceptorVars>>

\* Mutant: an accept of Initialize's is not counted.
IncrementPendingForgets(t) ==
    /\ At(t, "issueAccept") /\ acceptor = "alive"
    /\ recvOp' = [recvOp EXCEPT ![cur[t]] = "accept"]
    /\ pendingAccept' = IF t = Starter THEN pendingAccept ELSE pendingAccept + 1
    /\ Goto(t, "acceptEx")
    /\ UNCHANGED <<poolVars, connState, socket, recvPacket, pendingIO, stale, io, ctxVars,
                   cur, told, acceptor, listening, started>>

\* SetRecvContextToAccept and IncrementPending.
IncrementPending(t) ==
    /\ At(t, "issueAccept") /\ acceptor = "alive"
    /\ recvOp' = [recvOp EXCEPT ![cur[t]] = "accept"]
    /\ pendingAccept' = pendingAccept + 1
    /\ Goto(t, "acceptEx")
    /\ UNCHANGED <<poolVars, connState, socket, recvPacket, pendingIO, stale, io, ctxVars,
                   cur, told, acceptor, listening, started>>

AcceptExSucceeds(t) ==
    /\ At(t, "acceptEx") /\ acceptor = "alive" /\ listening
    /\ io' = [io EXCEPT ![cur[t]] = "kernel"]
    /\ started' = IF t = Starter THEN started + 1 ELSE started
    /\ AfterAccept(t, TRUE)
    /\ UNCHANGED <<poolVars, connVars, pendingIO, stale, ctxVars, told, acceptor, listening,
                   pendingAccept>>

\* Mutant: the accept that was not posted stays counted.
AcceptExFailsKeepsCount(t) ==
    /\ At(t, "acceptEx") /\ acceptor = "alive"
    /\ RemoveFromMap(cur[t])
    /\ AfterAccept(t, FALSE)
    /\ UNCHANGED <<refCount, connVars, pendingIO, stale, io, ctxVars, told, acceptor,
                   listening, pendingAccept, started>>

\* The count is taken back and the client goes, its socket still open.
AcceptExFails(t) ==
    /\ At(t, "acceptEx") /\ acceptor = "alive"
    /\ pendingAccept' = pendingAccept - 1
    /\ RemoveFromMap(cur[t])
    /\ AfterAccept(t, FALSE)
    /\ UNCHANGED <<refCount, connVars, pendingIO, stale, io, ctxVars, told, acceptor,
                   listening, started>>

\* Initialize gives up: StartNetService closes the socket and deletes the acceptor.
StartFails ==
    /\ pc[Starter] = "startFailed" /\ acceptor = "alive"
    /\ acceptor' = "deleted" /\ listening' = FALSE
    /\ Goto(Starter, "gaveUp")
    /\ UNCHANGED <<poolVars, connVars, pendingIO, stale, io, ctxVars, cur, told,
                   pendingAccept, started>>

-----------------------------------------------------------------------------
(* TcpAcceptor::OnCompleteOperation on an IOCP worker. *)

\* AcceptConnection until mConnState is set, or any of its earlier calls fails.
\* The acceptor does not touch mLastTickTime.
AcceptCompleted(w, c) ==
    /\ pc[w] = "idle" /\ acceptor = "alive"
    /\ recvOp[c] = "accept" /\ io[c] \in {"done", "failed"} /\ mem[c] = "live"
    /\ io' = [io EXCEPT ![c] = "none"]
    /\ cur' = [cur EXCEPT ![w] = c]
    /\ \/ /\ io[c] = "done"
          /\ connState' = [connState EXCEPT ![c] = "CONNECTED"]
          /\ Goto(w, "acceptPostRecv")
       \/ Goto(w, "acceptFailed") /\ UNCHANGED connState
    /\ UNCHANGED <<poolVars, socket, recvOp, recvPacket, pendingIO, stale, ctxVars, told,
                   acceptorVars>>

\* The first receive is posted before the application hears of the connection.
\* An exception of OnConnected goes up to IOCPWorkProc, past the next accept.
ReportConnected(w) ==
    /\ At(w, "accepted")
    /\ Tell(cur[w], "connected")
    /\ \/ Goto(w, "postAccept")
       \/ CallbackThrows /\ Goto(w, "idle")
    /\ cur' = [cur EXCEPT ![w] = NoClient]
    /\ UNCHANGED <<poolVars, connVars, pendingIO, stale, io, ctxVars, acceptorVars>>

\* An accept that came to nothing: CloseSocket and Reset, then RemoveClient.
DropClient(w) ==
    /\ At(w, "acceptFailed")
    /\ pendingIO' = [pendingIO EXCEPT ![cur[w]] = 0]
    /\ refCount' = [refCount EXCEPT ![cur[w]] = 0]
    /\ marked' = [marked EXCEPT ![cur[w]] = FALSE]
    /\ connState' = [connState EXCEPT ![cur[w]] = "CLOSED"]
    /\ socket' = [socket EXCEPT ![cur[w]] = "invalid"]
    /\ recvOp' = [recvOp EXCEPT ![cur[w]] = "idle"]
    /\ recvPacket' = [recvPacket EXCEPT ![cur[w]] = FALSE]
    /\ stale' = [stale EXCEPT ![cur[w]] = FALSE]
    /\ Goto(w, "acceptRemove")
    /\ UNCHANGED <<mem, io, ctxVars, cur, told, acceptorVars>>

RemoveDropped(w) ==
    /\ pc[w] = "acceptRemove"
    /\ RemoveFromMap(cur[w])
    /\ Goto(w, "postAccept")
    /\ cur' = [cur EXCEPT ![w] = NoClient]
    /\ UNCHANGED <<refCount, connVars, pendingIO, stale, io, ctxVars, told, acceptorVars>>

\* The last accept outstanding takes the acceptor with it.
DecrementPending(w) ==
    /\ pc[w] = "endAccept" /\ acceptor = "alive"
    /\ pendingAccept' = pendingAccept - 1
    /\ IF pendingAccept = 1
         THEN acceptor' = "deleted" /\ listening' = FALSE
         ELSE UNCHANGED <<acceptor, listening>>
    /\ Goto(w, "idle")
    /\ UNCHANGED <<poolVars, connVars, pendingIO, stale, io, ctxVars, cur, told, started>>

\* A thread reaches for an acceptor that is gone.
AcceptorFaults(t) ==
    /\ acceptor = "deleted"
    /\ \/ /\ pc[t] \in {"postAccept", "issueAccept", "acceptEx", "endAccept", "startFailed"}
          /\ UNCHANGED <<io, cur>>
       \/ /\ t \in Workers /\ pc[t] = "idle"
          /\ \E c \in Clients :
                /\ recvOp[c] = "accept" /\ io[c] \in {"done", "failed"}
                /\ io' = [io EXCEPT ![c] = "none"]
                /\ cur' = [cur EXCEPT ![t] = c]
    /\ Goto(t, "fault")
    /\ UNCHANGED <<poolVars, connVars, pendingIO, stale, ctxVars, told, acceptorVars>>

-----------------------------------------------------------------------------
AcceptConnection(w) ==
    \/ \E c \in Clients : AcceptCompleted(w, c)
    \/ PostRecv(w, "acceptPostRecv", "acceptIssueRecv") /\ UNCHANGED acceptorVars
    \/ IssueRecv(w, "acceptIssueRecv", "accepted", "acceptFailed") /\ UNCHANGED acceptorVars
    \/ ReportConnected(w) \/ DropClient(w) \/ RemoveDropped(w) \/ DecrementPending(w)

PostAccept(t) ==
    \/ AllocTcpClient(t) \/ CannotPostAccept(t)
    \/ IncrementPending(t) \/ AcceptExSucceeds(t) \/ AcceptExFails(t)

AcceptorNext ==
    \/ \E w \in Workers : AcceptConnection(w)
    \/ \E t \in Workers \cup {Starter} : PostAccept(t) \/ AcceptorFaults(t)
    \/ StartFails

Next == (ClientNext /\ UNCHANGED acceptorVars) \/ AcceptorNext

Spec == Init /\ [][Next]_vars

-----------------------------------------------------------------------------
ClientTypeOK ==
    /\ mem \in [Clients -> {"unused", "live", "freed"}]
    /\ connState \in [Clients -> {"CLOSED", "CONNECTED", "CLOSING"}]
    /\ pendingIO \in [Clients -> Int]
    /\ refCount \in [Clients -> Int]
    /\ marked \in [Clients -> BOOLEAN]
    /\ socket \in [Clients -> {"open", "invalid"}]
    /\ recvOp \in [Clients -> {"idle", "accept", "recv"}]
    /\ recvPacket \in [Clients -> BOOLEAN]
    /\ stale \in [Clients -> BOOLEAN]
    /\ told \in [Clients -> SUBSET {"connected", "received", "closed"}]

ContextTypeOK ==
    /\ io \in [Ctx -> {"none", "posting", "kernel", "done", "failed"}]
    /\ ctxType \in [IOContexts -> {"free", "send", "timeout", "closed"}]
    /\ ctxClient \in [IOContexts -> Clients \cup {NoClient}]

ThreadTypeOK ==
    /\ pc \in [Threads -> PCs]
    /\ cur \in [Threads -> Clients \cup {NoClient}]

AcceptorTypeOK ==
    /\ acceptor \in {"alive", "deleted"}
    /\ listening \in BOOLEAN
    /\ pendingAccept \in Int
    /\ started \in 0..Backlog

\* Every variable has its type; Initialize never posts more than Backlog accepts.
TypeOK == ClientTypeOK /\ ContextTypeOK /\ ThreadTypeOK /\ AcceptorTypeOK

\* mPendingIO is exact: one count for every operation posted and not yet
\* dequeued and one for every thread that still has to run CheckRelease, for
\* every client an acceptor has not just reset.
Dropped(c) == \E w \in Workers : pc[w] = "acceptRemove" /\ cur[w] = c
CountExact ==
    \A c \in Clients :
        mem[c] = "live" /\ ~Dropped(c) => pendingIO[c] = Cardinality(Holders(c))

\* The kernel never reads or writes a freed client: no accept, receive or send
\* is outstanding or queued for one.
KernelBuffersLive ==
    \A x \in Ctx :
        io[x] # "none" /\ TypeOf(x) \in {"accept", "recv", "send"} => mem[ClientOf(x)] = "live"

\* A TcpClientRef keeps its client: no thread of the application ever works
\* on a freed one, whatever the workers and checkStatus do meanwhile.
RefProtects ==
    \A a \in AppThreads : pc[a] \in RefPCs => mem[cur[a]] = "live" /\ refCount[cur[a]] > 0

\* OnClosed is called by one thread, once, and after it no OnReceived can come.
ClosedLast ==
    \A t \in Threads : pc[t] = "closing" =>
        /\ "closed" \notin told[cur[t]]
        /\ io[cur[t]] = "none"
        /\ \A u \in Threads \ {t} :
              cur[u] = cur[t] => pc[u] \notin {"closing", "split", "postRecv", "issueRecv"}

\* mPendingIO drains to zero only for a connection whose socket is closed:
\* whoever finds the last count gone, nothing new can be started.
ZeroMeansClosed ==
    \A t \in Threads : pc[t] \in {"lastIO", "closing", "remove"} =>
        /\ connState[cur[t]] # "CONNECTED"
        /\ socket[cur[t]] = "invalid"

\* When the memory of a connection goes, its packet buffer is back in the pool,
\* unless the thread that reports OnClosed lost the client under its feet.
LostReport(c) == \E t \in Threads : pc[t] \in {"closing", "fault"} /\ cur[t] = c
PacketReturned ==
    \A c \in Clients : mem[c] = "freed" => ~recvPacket[c] \/ LostReport(c)

\* Once StartNetService has succeeded the acceptor goes only when no accept is
\* outstanding and no worker is still in its completion routine.
AcceptPCs == {"acceptPostRecv", "acceptIssueRecv", "accepted", "acceptFailed",
              "acceptRemove", "postAccept", "issueAccept", "acceptEx", "endAccept"}
AcceptsOutstanding == {c \in Clients : io[c] # "none" /\ recvOp[c] = "accept"}
AcceptorIdle == AcceptsOutstanding = {} /\ \A w \in Workers : pc[w] \notin AcceptPCs

AcceptorOutlivesAccepts == acceptor = "deleted" => AcceptorIdle
StartedAcceptorOutlives == pc[Starter] # "gaveUp" => AcceptorOutlivesAccepts

\* mPendingAcceptCount is the number of accepts being posted or outstanding plus
\* the workers still in the completion routine of one.
AcceptCountExact ==
    (\A t \in Threads : pc[t] # "fault") =>
        pendingAccept = Cardinality(AcceptsOutstanding)
                            + Cardinality({w \in Workers : pc[w] \in AcceptPCs})
                            + Cardinality({t \in Threads : pc[t] = "acceptEx"})

\* The timeout and close operations are there "to release the ref count in iocp
\* worker": the client must still be there when the worker gets to them.
SpecialDrained ==
    \A x \in IOContexts : ctxType[x] \in {"timeout", "closed"} => mem[ctxClient[x]] = "live"

\* clientTimeoutSec counts from when the client is there: no connection starts to
\* receive with an idle clock (mLastTickTime) that has run out already.
FreshIdleClock ==
    [][\A c \in Clients : recvOp[c] = "accept" /\ recvOp'[c] = "recv" => ~stale[c]]_vars

\* Every connection of the server lives the life ConnectionLife promises.
Phase(c) ==
    IF mem[c] = "unused" THEN "unused"
    ELSE IF mem[c] = "freed" \/ Dropped(c) THEN "released"
    ELSE IF connState[c] = "CONNECTED" THEN "open"
    ELSE IF connState[c] = "CLOSING" THEN "closing"
    ELSE IF recvOp[c] = "recv" THEN "closed" ELSE "opening"

Life == INSTANCE ConnectionLife
            WITH phase <- [c \in Clients |-> Phase(c)],
                 reported <- {c \in Clients : told[c] \cap {"connected", "received"} # {}}
LifeSpec == Life!Spec

-----------------------------------------------------------------------------
(* Every thread keeps running; the port hands out packets in FIFO order, so  *)
(* none waits for ever behind later ones; a closed socket's operations end;   *)
(* checkStatus comes round every five seconds.  The peer, the clock and the   *)
(* application's calls owe nothing.                                           *)
Fairness ==
    /\ \A w \in Workers :
          /\ WF_vars(ConnectionStep(w) /\ UNCHANGED acceptorVars)
          /\ WF_vars(AcceptConnection(w) \/ PostAccept(w))
    /\ \A x \in Ctx :
          /\ SF_vars((\E w \in Workers : TakeCompletion(w, x)) /\ UNCHANGED acceptorVars)
          /\ WF_vars(KernelAborts(x) /\ UNCHANGED acceptorVars)
    /\ \A a \in AppThreads :
          WF_vars((PostSend(a) \/ CloseSocket(a) \/ CheckReleaseStep(a) \/ UnRef(a))
                  /\ UNCHANGED acceptorVars)
    /\ \A c \in Clients : WF_vars(CheckStatus(c) /\ UNCHANGED acceptorVars)
    /\ \A t \in Threads : WF_vars((Faults(t) /\ UNCHANGED acceptorVars) \/ AcceptorFaults(t))

FairSpec == Spec /\ Fairness

\* A connection that started closing has its memory back in the pool in the end,
\* and is reported closed if it was ever reported at all, provided the application
\* stops taking references to it, the workers keep up with mClientTimeoutSec (a
\* handler slower than that draws one timeout operation after the other), and no
\* thread was lost to a freed client.
Lost == \E t \in Threads : pc[t] = "fault"
LeftAlone(c) == <>[](refCount[c] = 0) /\ <>[][~GoesStale(c)]_vars
ClosingReleased ==
    \A c \in Clients :
        LeftAlone(c) =>
            (connState[c] = "CLOSING" ~>
                \/ mem[c] = "freed" /\ (told[c] = {} \/ "closed" \in told[c])
                \/ Lost)

\* What an application asks to close, or checkStatus finds silent, does start closing.
CloseTakesEffect ==
    \A x \in IOContexts, c \in Clients :
        (ctxType[x] \in {"timeout", "closed"} /\ ctxClient[x] = c)
            ~> connState[c] # "CONNECTED" \/ Lost
=============================================================================
