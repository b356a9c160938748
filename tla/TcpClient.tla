------------------------------ MODULE TcpClient ------------------------------
(***************************************************************************)
(* The life of a TcpClient object (Netlib/TcpClient.cpp) inside the client *)
(* table of its TcpService (Netlib/TcpService.cpp).                        *)
(*                                                                         *)
(* A connection is driven by four kinds of actor at once: the kernel, which *)
(* completes overlapped operations; the IOCP workers, which run             *)
(* TcpClient::OnCompleteOperation for every completion; the application's   *)
(* threads, which call Send and CloseSocket with a socket id; and the       *)
(* assist thread, which runs TcpService::checkStatus.  Nothing but the      *)
(* atomic counters mPendingIO and mReferenceCount, the atomic mConnState    *)
(* and mTcpClientPoolLock keeps them apart.                                 *)
(*                                                                         *)
(* Every step below is what one thread does between two accesses another    *)
(* thread can observe; what runs under mTcpClientPoolLock is one step.      *)
(* TcpServer adds the operations of the listening mode, TcpConnector those  *)
(* of ConnectServer.                                                        *)
(*                                                                         *)
(* A client is named by its logic socket id and a freed one is never named  *)
(* again, although the pool may hand its memory to a later connection.  A   *)
(* thread that reaches for a freed client stops in "fault": the model       *)
(* follows a behaviour up to the first use of freed memory of each thread.  *)
(***************************************************************************)
EXTENDS Integers, FiniteSets

CONSTANTS
    Clients,            \* the logic socket ids GetNextLogicSocketID hands out
    IOContexts,         \* heap IOContext objects of sends and special operations
    Workers,            \* NetCoreIOCP's threads in IOCPWorkProc
    AppThreads,         \* application threads calling Send and CloseSocket
    Starter,            \* the thread that calls StartNetService
    Assistant,          \* NetCoreIOCP's thread in AssistThreadProc
    NoClient,
    SpecialPostFails,   \* may PostQueuedCompletionStatus fail in PostSpecial?
    CallbackThrows      \* may a callback of the application throw?

Threads == Workers \cup AppThreads \cup {Starter, Assistant}
Ctx == Clients \cup IOContexts  \* a client stands for its own mRecvContext

ASSUME ThreadsDisjoint == /\ Workers \cap AppThreads = {}
                          /\ Starter \notin Workers \cup AppThreads
                          /\ Assistant \notin Workers \cup AppThreads \cup {Starter}
ASSUME CtxDisjoint == Clients \cap IOContexts = {} /\ Ctx \cap Threads = {}
ASSUME NoClientFresh == NoClient \notin Clients
ASSUME FiniteSystem == IsFiniteSet(Ctx) /\ IsFiniteSet(Threads)
ASSUME FaultsBoolean == SpecialPostFails \in BOOLEAN /\ CallbackThrows \in BOOLEAN

VARIABLES
    mem,          \* where the object is: "unused", "live" (in mTcpClientMap), "freed"
    connState,    \* mConnState
    pendingIO,    \* mPendingIO
    refCount,     \* mReferenceCount
    marked,       \* mMarkedDestroy
    socket,       \* mSocket: "open" or "invalid"
    recvOp,       \* mRecvContext.mOperationType
    recvPacket,   \* mRecvPacketBuffer # NULL
    stale,        \* mLastTickTime is more than mClientTimeoutSec old
    io,           \* overlapped operation of a context, from posting to dequeue
    ctxType,      \* mOperationType of a heap context, "free" while in its pool
    ctxClient,    \* mTcpClient of a heap context
    pc,           \* where each thread is
    cur,          \* the client it works on
    told          \* the IIOCallback calls made for an id: "connected", "received", "closed"

poolVars == <<mem, refCount, marked>>
connVars == <<connState, socket, recvOp, recvPacket>>
ctxVars == <<ctxType, ctxClient>>

ClientOf(x) == IF x \in Clients THEN x ELSE ctxClient[x]
TypeOf(x) == IF x \in Clients THEN recvOp[x] ELSE ctxType[x]
FreeContexts == {x \in IOContexts : ctxType[x] = "free"}

\* Thread t stands at `from` and the client it works on has not been freed.
At(t, from) == pc[t] = from /\ mem[cur[t]] = "live"
Goto(t, to) == pc' = [pc EXCEPT ![t] = to]
\* Reset, which the acceptor calls on a client it drops, clears mLogicSocketID
\* together with mRecvContext: the client is in the table under an id of the past.
HasID(c) == recvOp[c] # "idle"
Tell(c, callback) == told' = [told EXCEPT ![c] = @ \cup {callback}]

-----------------------------------------------------------------------------
(* The kernel's side of an overlapped operation. *)

\* An operation ends, well or not, and its packet is queued to the port.
KernelCompletes(x) ==
    /\ io[x] = "kernel"
    /\ \E result \in {"done", "failed"} : io' = [io EXCEPT ![x] = result]
    /\ UNCHANGED <<poolVars, connVars, pendingIO, stale, ctxVars, pc, cur, told>>

\* Closing a socket aborts what is outstanding on it.
KernelAborts(x) ==
    /\ io[x] = "kernel"
    /\ socket[ClientOf(x)] = "invalid"
    /\ io' = [io EXCEPT ![x] = "failed"]
    /\ UNCHANGED <<poolVars, connVars, pendingIO, stale, ctxVars, pc, cur, told>>

\* mClientTimeoutSec goes by with nothing completing on c.  A thread is not
\* taken to stall that long between allocating a client and posting its first
\* operation, or while it drops one again.
UnstalledPCs == {"issueAccept", "acceptRemove", "postConnect", "removeUnconnected"}
GoesStale(c) ==
    /\ mem[c] = "live" /\ ~stale[c]
    /\ ~\E t \in Threads : pc[t] \in UnstalledPCs /\ cur[t] = c
    /\ stale' = [stale EXCEPT ![c] = TRUE]
    /\ UNCHANGED <<poolVars, connVars, pendingIO, io, ctxVars, pc, cur, told>>

-----------------------------------------------------------------------------
(* TcpClient::OnCompleteOperation, as run by an IOCP worker. *)

\* GetQueuedCompletionStatus returns x to w, and OnCompleteOperation begins
\* with UpdateLastTickTime.
Dequeue(w, x) ==
    /\ pc[w] = "idle"
    /\ io[x] \in {"done", "failed"}
    /\ mem[ClientOf(x)] = "live"
    /\ io' = [io EXCEPT ![x] = "none"]
    /\ cur' = [cur EXCEPT ![w] = ClientOf(x)]
    /\ stale' = [stale EXCEPT ![ClientOf(x)] = FALSE]

ReleaseContext(x) ==
    /\ ctxType' = [ctxType EXCEPT ![x] = "free"]
    /\ ctxClient' = [ctxClient EXCEPT ![x] = NoClient]

\* Mutant: a failed receive does not disconnect.
RecvCompletedStaysOpen(w, c) ==
    /\ recvOp[c] = "recv"
    /\ Dequeue(w, c)
    /\ Goto(w, IF io[c] = "done" THEN "split" ELSE "release")
    /\ UNCHANGED <<poolVars, connVars, pendingIO, ctxVars, told>>

RecvCompleted(w, c) ==
    /\ recvOp[c] = "recv"
    /\ Dequeue(w, c)
    /\ Goto(w, IF io[c] = "done" THEN "split" ELSE "disconnect")
    /\ UNCHANGED <<poolVars, connVars, pendingIO, ctxVars, told>>

\* A successful send still disconnects when it was short or mCloseAfterSend.
SendCompleted(w, x) ==
    /\ ctxType[x] = "send"
    /\ Dequeue(w, x)
    /\ ReleaseContext(x)
    /\ \/ Goto(w, "disconnect")
       \/ io[x] = "done" /\ Goto(w, "release")
    /\ UNCHANGED <<poolVars, connVars, pendingIO, told>>

\* Mutant: the special operation only releases its count.
SpecialCompletedIgnored(w, x) ==
    /\ ctxType[x] \in {"timeout", "closed"}
    /\ Dequeue(w, x)
    /\ ReleaseContext(x)
    /\ Goto(w, "release")
    /\ UNCHANGED <<poolVars, connVars, pendingIO, told>>

SpecialCompleted(w, x) ==
    /\ ctxType[x] \in {"timeout", "closed"}
    /\ Dequeue(w, x)
    /\ ReleaseContext(x)
    /\ Goto(w, "disconnect")
    /\ UNCHANGED <<poolVars, connVars, pendingIO, told>>

\* OnRecvCompletion up to PostRecv.  The peer closed (no bytes, or the packet
\* pool failed), or SplitPacket / SplitHttpPacket filled mRecvPacketBuffer and
\* called OnReceived for what was complete, and accepted the data or not.  An
\* exception of OnReceived is caught in OnCompleteOperation, which then neither
\* disconnects nor posts a receive.
OnRecvCompletion(w) ==
    /\ At(w, "split")
    /\ \/ Goto(w, "disconnect") /\ UNCHANGED <<recvPacket, told>>
       \/ /\ recvPacket' = [recvPacket EXCEPT ![cur[w]] = TRUE]
          /\ \/ UNCHANGED told
             \/ Tell(cur[w], "received")
          /\ \E next \in {"disconnect", "postRecv"} : Goto(w, next)
       \/ /\ CallbackThrows
          /\ recvPacket' = [recvPacket EXCEPT ![cur[w]] = TRUE]
          /\ Tell(cur[w], "received")
          /\ Goto(w, "release")
    /\ UNCHANGED <<poolVars, connState, socket, recvOp, pendingIO, stale, io,
                   ctxVars, cur>>

\* Mutant: the receive is issued without a count of its own.
PostRecvUncounted(t, from, to) ==
    /\ At(t, from)
    /\ recvOp' = [recvOp EXCEPT ![cur[t]] = "recv"]
    /\ io' = [io EXCEPT ![cur[t]] = "posting"]
    /\ Goto(t, to)
    /\ UNCHANGED <<poolVars, pendingIO, connState, socket, recvPacket, stale, ctxVars, cur, told>>

\* PostRecv counts the operation before it issues it.
PostRecv(t, from, to) ==
    /\ At(t, from)
    /\ pendingIO' = [pendingIO EXCEPT ![cur[t]] = @ + 1]
    /\ recvOp' = [recvOp EXCEPT ![cur[t]] = "recv"]
    /\ io' = [io EXCEPT ![cur[t]] = "posting"]
    /\ Goto(t, to)
    /\ UNCHANGED <<poolVars, connState, socket, recvPacket, stale, ctxVars, cur, told>>

\* WSARecv, which fails on a closed socket and may fail on an open one.
IssueRecv(t, from, posted, failed) ==
    /\ At(t, from)
    /\ \/ /\ socket[cur[t]] = "open"
          /\ io' = [io EXCEPT ![cur[t]] = "kernel"]
          /\ Goto(t, posted)
          /\ UNCHANGED pendingIO
       \/ /\ io' = [io EXCEPT ![cur[t]] = "none"]
          /\ pendingIO' = [pendingIO EXCEPT ![cur[t]] = @ - 1]
          /\ Goto(t, failed)
    /\ UNCHANGED <<poolVars, connVars, stale, ctxVars, cur, told>>

\* SetDisconnect: whoever moves CONNECTED to CLOSING closes the socket.
SetDisconnect(w) ==
    /\ At(w, "disconnect")
    /\ IF connState[cur[w]] = "CONNECTED"
         THEN /\ connState' = [connState EXCEPT ![cur[w]] = "CLOSING"]
              /\ socket' = [socket EXCEPT ![cur[w]] = "invalid"]
         ELSE UNCHANGED <<connState, socket>>
    /\ Goto(w, "release")
    /\ UNCHANGED <<poolVars, recvOp, recvPacket, pendingIO, stale, io, ctxVars, cur, told>>

-----------------------------------------------------------------------------
(* CheckRelease, run by a worker after a completion and by an application   *)
(* thread after a send it could not issue.                                  *)

\* A worker goes back to the port; an application thread drops its TcpClientRef.
Return(t) ==
    IF t \in Workers
      THEN Goto(t, "idle") /\ cur' = [cur EXCEPT ![t] = NoClient]
      ELSE Goto(t, "unref") /\ UNCHANGED cur

DecreaseIOCount(t) ==
    /\ At(t, "release")
    /\ pendingIO' = [pendingIO EXCEPT ![cur[t]] = @ - 1]
    /\ IF pendingIO[cur[t]] = 1
         THEN Goto(t, "lastIO") /\ UNCHANGED cur
         ELSE Return(t)
    /\ UNCHANGED <<poolVars, connVars, stale, io, ctxVars, told>>

\* Mutant: every thread that finds the connection closing or closed reports it.
MarkClosedUnchecked(t) ==
    /\ At(t, "lastIO")
    /\ connState' = [connState EXCEPT ![cur[t]] = "CLOSED"]
    /\ Goto(t, "closing")
    /\ UNCHANGED <<poolVars, socket, recvOp, recvPacket, pendingIO, stale, io,
                   ctxVars, cur, told>>

\* The compare-exchange of CLOSING to CLOSED picks the thread that reports.
MarkClosed(t) ==
    /\ At(t, "lastIO")
    /\ IF connState[cur[t]] = "CLOSING"
         THEN /\ connState' = [connState EXCEPT ![cur[t]] = "CLOSED"]
              /\ Goto(t, "closing")
         ELSE Goto(t, "remove") /\ UNCHANGED connState
    /\ UNCHANGED <<poolVars, socket, recvOp, recvPacket, pendingIO, stale, io,
                   ctxVars, cur, told>>

\* Mutant: the half-received packet stays with the client.
ReportClosedKeepsPacket(t) ==
    /\ At(t, "closing")
    /\ Tell(cur[t], "closed")
    /\ Goto(t, "remove")
    /\ UNCHANGED <<poolVars, connVars, pendingIO, stale, io, ctxVars, cur>>

\* OnClosed; nothing on the way out of it, should it throw, removes the client.
ReportClosed(t) ==
    /\ At(t, "closing")
    /\ recvPacket' = [recvPacket EXCEPT ![cur[t]] = FALSE]
    /\ IF HasID(cur[t]) THEN Tell(cur[t], "closed") ELSE UNCHANGED told
    /\ \/ Goto(t, "remove") /\ UNCHANGED cur
       \/ CallbackThrows /\ Return(t)
    /\ UNCHANGED <<poolVars, connState, socket, recvOp, pendingIO, stale, io, ctxVars>>

\* Mutants: the references are not looked at; a referenced client is forgotten.
RemoveFromMapUnchecked(c) == mem' = [mem EXCEPT ![c] = "freed"] /\ UNCHANGED marked
RemoveFromMapForgets(c) ==
    /\ mem' = [mem EXCEPT ![c] = IF refCount[c] > 0 THEN @ ELSE "freed"]
    /\ UNCHANGED marked

\* TcpService::RemoveClient: a referenced client is only marked.
RemoveFromMap(c) ==
    IF mem[c] = "live" /\ refCount[c] > 0
      THEN marked' = [marked EXCEPT ![c] = TRUE] /\ UNCHANGED mem
      ELSE mem' = [mem EXCEPT ![c] = "freed"] /\ UNCHANGED marked

RemoveClient(t) ==
    /\ At(t, "remove")
    /\ IF HasID(cur[t]) THEN RemoveFromMap(cur[t]) ELSE UNCHANGED <<mem, marked>>
    /\ Return(t)
    /\ UNCHANGED <<refCount, connVars, pendingIO, stale, io, ctxVars, told>>

-----------------------------------------------------------------------------
(* The application: NetService::Send and NetService::CloseSocket. *)

\* Mutant: FindClient returns the bare pointer, without a reference.
FindClientUncounted(a, c) ==
    /\ pc[a] = "idle"
    /\ told[c] \cap {"connected", "received"} # {} /\ mem[c] = "live"
    /\ cur' = [cur EXCEPT ![a] = c]
    /\ \E call \in {"send", "close"} : Goto(a, call)
    /\ UNCHANGED <<poolVars, connVars, pendingIO, stale, io, ctxVars, told>>

\* FindClient takes the reference under the pool lock.  An application only
\* uses ids it was given by OnConnected or OnReceived.
FindClient(a, c) ==
    /\ pc[a] = "idle"
    /\ told[c] \cap {"connected", "received"} # {} /\ mem[c] = "live"
    /\ refCount' = [refCount EXCEPT ![c] = @ + 1]
    /\ cur' = [cur EXCEPT ![a] = c]
    /\ \E call \in {"send", "close"} : Goto(a, call)
    /\ UNCHANGED <<mem, marked, connVars, pendingIO, stale, io, ctxVars, told>>

UseContext(x, c, type, state) ==
    /\ ctxType' = [ctxType EXCEPT ![x] = type]
    /\ ctxClient' = [ctxClient EXCEPT ![x] = c]
    /\ io' = [io EXCEPT ![x] = state]

\* Mutant: a send that failed does not give its count back.
PostSendForgetsRelease(a) ==
    /\ At(a, "send")
    /\ \/ /\ socket[cur[a]] = "open"
          /\ \E x \in FreeContexts : UseContext(x, cur[a], "send", "kernel")
       \/ UNCHANGED <<io, ctxVars>>
    /\ pendingIO' = [pendingIO EXCEPT ![cur[a]] = @ + 1]
    /\ Goto(a, "unref")
    /\ UNCHANGED <<poolVars, connVars, stale, cur, told>>

\* PostSend and PostSendHttp: WSASend fails on a closed socket and may fail
\* on an open one; the failing caller runs CheckRelease itself.
PostSend(a) ==
    /\ At(a, "send")
    /\ \/ /\ socket[cur[a]] = "open"
          /\ \E x \in FreeContexts : UseContext(x, cur[a], "send", "kernel")
          /\ pendingIO' = [pendingIO EXCEPT ![cur[a]] = @ + 1]
          /\ Goto(a, "unref")
       \/ /\ pendingIO' = [pendingIO EXCEPT ![cur[a]] = @ + 1]
          /\ Goto(a, "release")
          /\ UNCHANGED <<io, ctxVars>>
       \/ Goto(a, "unref") /\ UNCHANGED <<io, ctxVars, pendingIO>>   \* no memory
    /\ UNCHANGED <<poolVars, connVars, stale, cur, told>>

\* PostSpecial(type) that succeeds, and its error path, which has already
\* taken its own count back when it goes on to CheckRelease.
PostSpecial(c, type) ==
    /\ \E x \in FreeContexts : UseContext(x, c, type, "done")
    /\ pendingIO' = [pendingIO EXCEPT ![c] = @ + 1]

\* Every failed post takes one count too many from mPendingIO, without end if
\* posting never works again: the model stops counting below LeastPendingIO.
LeastPendingIO == 0
PostSpecialFails(c) == SpecialPostFails /\ pendingIO[c] >= LeastPendingIO

CloseSocket(a) ==
    /\ At(a, "close")
    /\ \/ PostSpecial(cur[a], "closed") /\ Goto(a, "unref")
       \/ PostSpecialFails(cur[a]) /\ Goto(a, "release") /\ UNCHANGED <<io, ctxVars, pendingIO>>
    /\ UNCHANGED <<poolVars, connVars, stale, cur, told>>

\* ~TcpClientRef
UnRef(a) ==
    /\ At(a, "unref")
    /\ refCount' = [refCount EXCEPT ![cur[a]] = @ - 1]
    /\ Goto(a, "idle")
    /\ cur' = [cur EXCEPT ![a] = NoClient]
    /\ UNCHANGED <<mem, marked, connVars, pendingIO, stale, io, ctxVars, told>>

-----------------------------------------------------------------------------
(* The assist thread: one turn of checkStatus's loop, under the pool lock. *)

\* Mutant: a silent client without references is freed although nobody marked it.
CheckStatusFreesUnmarked(c) ==
    /\ pc[Assistant] = "idle" /\ mem[c] = "live" /\ recvOp[c] # "accept"
    /\ stale[c] /\ refCount[c] = 0
    /\ mem' = [mem EXCEPT ![c] = "freed"]
    /\ UNCHANGED <<refCount, marked, connVars, pendingIO, stale, io, ctxVars, pc, cur, told>>

Unused(c) == marked[c] /\ refCount[c] = 0

CheckStatus(c) ==
    /\ pc[Assistant] = "idle" /\ mem[c] = "live" /\ recvOp[c] # "accept"
    /\ stale[c] \/ Unused(c)
    /\ IF stale[c] THEN PostSpecial(c, "timeout") ELSE UNCHANGED <<io, ctxVars, pendingIO>>
    /\ mem' = [mem EXCEPT ![c] = IF Unused(c) THEN "freed" ELSE @]
    /\ UNCHANGED <<refCount, marked, connVars, stale, pc, cur, told>>

\* SetTimeout whose PostSpecial fails: CheckRelease runs inside the loop, and when
\* it frees the client the loop goes on with an iterator that is no longer valid.
CheckStatusFails(c) ==
    LET last == pendingIO[c] = 1
        reports == last /\ connState[c] = "CLOSING"
    IN  /\ PostSpecialFails(c)
        /\ pc[Assistant] = "idle" /\ mem[c] = "live" /\ recvOp[c] # "accept" /\ stale[c]
        /\ pendingIO' = [pendingIO EXCEPT ![c] = @ - 1]
        /\ connState' = [connState EXCEPT ![c] = IF reports THEN "CLOSED" ELSE @]
        /\ recvPacket' = [recvPacket EXCEPT ![c] = @ /\ ~reports]
        /\ IF reports THEN Tell(c, "closed") ELSE UNCHANGED told
        /\ IF last
             THEN /\ RemoveFromMap(c)
                  /\ IF refCount[c] = 0 THEN Goto(Assistant, "fault") ELSE UNCHANGED pc
             ELSE /\ mem' = [mem EXCEPT ![c] = IF Unused(c) THEN "freed" ELSE @]
                  /\ UNCHANGED <<marked, pc>>
        /\ UNCHANGED <<refCount, socket, recvOp, stale, io, ctxVars, cur>>

-----------------------------------------------------------------------------
(* Use of a freed client. *)

TouchingPCs == {"split", "postRecv", "issueRecv", "disconnect", "release", "lastIO",
                "closing", "remove", "send", "close", "unref", "acceptPostRecv",
                "acceptIssueRecv", "accepted", "acceptFailed", "issueAccept", "acceptEx",
                "postConnect", "waitConnect", "connectPostRecv", "connectIssueRecv",
                "connectPostSem", "connected"}

Faults(t) ==
    /\ pc[t] \in TouchingPCs
    /\ mem[cur[t]] = "freed"
    /\ Goto(t, "fault")
    /\ UNCHANGED <<poolVars, connVars, pendingIO, stale, io, ctxVars, cur, told>>

\* OnCompleteOperation is called on a client that is gone.
DequeueFaults(w, x) ==
    /\ pc[w] = "idle"
    /\ io[x] \in {"done", "failed"}
    /\ mem[ClientOf(x)] = "freed"
    /\ io' = [io EXCEPT ![x] = "none"]
    /\ cur' = [cur EXCEPT ![w] = ClientOf(x)]
    /\ Goto(w, "fault")
    /\ UNCHANGED <<poolVars, connVars, pendingIO, stale, ctxVars, told>>

-----------------------------------------------------------------------------
Kernel == \E x \in Ctx : KernelCompletes(x) \/ KernelAborts(x)

TakeCompletion(w, x) ==
    \/ x \in Clients /\ RecvCompleted(w, x)
    \/ x \in IOContexts /\ (SendCompleted(w, x) \/ SpecialCompleted(w, x))
    \/ TypeOf(x) # "accept" /\ DequeueFaults(w, x)

CheckReleaseStep(t) ==
    DecreaseIOCount(t) \/ MarkClosed(t) \/ ReportClosed(t) \/ RemoveClient(t)

ConnectionStep(w) ==
    \/ OnRecvCompletion(w)
    \/ PostRecv(w, "postRecv", "issueRecv")
    \/ IssueRecv(w, "issueRecv", "release", "disconnect")
    \/ SetDisconnect(w)
    \/ CheckReleaseStep(w)

AppStep(a) ==
    \/ \E c \in Clients : FindClient(a, c)
    \/ PostSend(a) \/ CloseSocket(a) \/ CheckReleaseStep(a) \/ UnRef(a)

Assist == \E c \in Clients : CheckStatus(c) \/ CheckStatusFails(c)

\* What goes on around any connection, accepted or connected.
ClientNext ==
    \/ Kernel
    \/ \E c \in Clients : GoesStale(c)
    \/ \E w \in Workers : ConnectionStep(w) \/ \E x \in Ctx : TakeCompletion(w, x)
    \/ \E a \in AppThreads : AppStep(a)
    \/ \E t \in Threads : Faults(t)
    \/ Assist

-----------------------------------------------------------------------------
(* What counts. *)

HoldingPCs == {"split", "postRecv", "issueRecv", "disconnect", "release",
               "connectPostRecv", "connectIssueRecv", "connectPostSem", "connected"}

\* Who holds one count of c's mPendingIO: an operation from its posting until
\* it is dequeued, then the thread that runs CheckRelease for it.
OpHolds(x, c) == io[x] # "none" /\ ClientOf(x) = c /\ TypeOf(x) # "accept"
ThreadHolds(t, c) == pc[t] \in HoldingPCs /\ cur[t] = c
Holders(c) == {x \in Ctx : OpHolds(x, c)} \cup {t \in Threads : ThreadHolds(t, c)}

\* The application threads that hold a TcpClientRef to c.
RefPCs == {"send", "close", "release", "lastIO", "closing", "remove", "unref",
           "postConnect", "waitConnect"}
RefHolders(c) == {a \in AppThreads : pc[a] \in RefPCs /\ cur[a] = c}

=============================================================================
