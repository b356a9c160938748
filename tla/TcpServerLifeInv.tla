--------------------------- MODULE TcpServerLifeInv ---------------------------
(***************************************************************************)
(* The inductive invariants behind the end of a connection: who may be at   *)
(* work on it, what its state and socket say, and what is over once a       *)
(* thread has found mPendingIO drained.  They hold as long as posting to    *)
(* the port does not fail and no callback throws, and rest on the count     *)
(* being exact.                                                             *)
(***************************************************************************)
EXTENDS TcpServerInv

\* A thread that has let go of mRecvContext, or came to c by another operation or
\* a reference, and one that works towards the next operation on mRecvContext.
PastPCs == {"split", "postRecv", "issueRecv", "disconnect", "release", "lastIO", "closing",
            "remove", "send", "close", "unref", "accepted"}
BusyPCs == {"split", "postRecv", "issueRecv", "issueAccept", "acceptEx", "acceptPostRecv",
            "acceptIssueRecv"}
EndPCs == {"lastIO", "closing", "remove"}

SendOn(c) == \E x \in IOContexts : io[x] # "none" /\ ctxType[x] = "send" /\ ctxClient[x] = c

-----------------------------------------------------------------------------
(* Before the first receive. *)

\* c is past its accept: nobody waits for one on it or is about to post one.
Opened(c) ==
    /\ recvOp[c] # "accept"
    /\ mem[c] # "unused"
    /\ \A t \in Threads : pc[t] = "issueAccept" => cur[t] # c

\* Nothing but the acceptor touches a client before its first receive.
OpenedInv ==
    /\ \A t \in Threads : pc[t] \in PastPCs => Opened(cur[t])
    /\ \A x \in IOContexts : ctxType[x] # "free" => Opened(ctxClient[x])
    /\ \A c \in Clients : "closed" \in told[c] => Opened(c)

\* A client is new, or being dropped: closed, its clock running, not marked.
FreshInv ==
    /\ \A c \in Clients :
          mem[c] = "unused" => ~stale[c] /\ ~marked[c] /\ connState[c] = "CLOSED"
    /\ \A t \in Threads : pc[t] \in {"issueAccept", "acceptRemove"} =>
          ~stale[cur[t]] /\ connState[cur[t]] = "CLOSED"
    /\ \A t \in Threads : pc[t] = "acceptEx" => connState[cur[t]] = "CLOSED"
    /\ \A c \in Clients : io[c] # "none" /\ recvOp[c] = "accept" => connState[c] = "CLOSED"
    /\ \A t \in Threads : pc[t] = "acceptPostRecv" => connState[cur[t]] = "CONNECTED"
    /\ \A c \in Clients : marked[c] => recvOp[c] = "recv"

\* Only what the application was named is sent on.
SendNamed == \A c \in Clients : SendOn(c) => Named(c)

\* What Reset cleared is not counted up again.
DroppedDrained == \A c \in Clients : Dropped(c) => pendingIO[c] <= 0

-----------------------------------------------------------------------------
(* An open connection. *)

\* Whoever moves a connection on from CONNECTED closes its socket.
SocketInv ==
    \A c \in Clients :
        /\ recvOp[c] = "recv" /\ connState[c] # "CONNECTED" => socket[c] = "invalid"
        /\ recvOp[c] = "idle" => connState[c] = "CLOSED"
        /\ connState[c] = "CLOSING" => recvOp[c] = "recv"

\* A first receive that failed drops the client; whoever else is done with it by
\* then came from checkStatus, and has disconnected it.
EarlyRelease ==
    \A t, u \in Threads :
        pc[t] = "release" /\ pc[u] \in {"acceptIssueRecv", "acceptFailed"} /\ cur[t] = cur[u]
            => connState[cur[t]] # "CONNECTED"

\* A connected client has a receive outstanding, or a thread that will post the
\* next one, disconnect it or drop it.
KeeperPCs == {"split", "postRecv", "issueRecv", "disconnect", "acceptPostRecv",
              "acceptIssueRecv", "acceptFailed"}
Kept(c) ==
    \/ io[c] # "none" /\ recvOp[c] = "recv"
    \/ \E t \in Threads : pc[t] \in KeeperPCs /\ cur[t] = c
KeptInv == \A c \in Clients : mem[c] = "live" /\ connState[c] = "CONNECTED" => Kept(c)

\* While a receive is outstanding or its data being handled, nobody says CLOSED.
Receiving(c) ==
    \/ io[c] # "none" /\ recvOp[c] = "recv"
    \/ \E t \in Threads :
          pc[t] \in {"split", "postRecv", "issueRecv", "acceptIssueRecv"} /\ cur[t] = c
ReceivingInv == \A c \in Clients : Receiving(c) => connState[c] # "CLOSED"

-----------------------------------------------------------------------------
(* The end of a connection. *)

\* A thread has found the count drained, or what comes after.
Over(c) ==
    \/ \E t \in Threads : pc[t] \in EndPCs /\ cur[t] = c
    \/ marked[c] \/ mem[c] = "freed"

\* Nothing is outstanding on c, nobody works towards it, and nothing new can start.
Quiet(c) ==
    /\ connState[c] # "CONNECTED"
    /\ io[c] = "none"
    /\ ~SendOn(c)
    /\ \A t \in Threads : pc[t] \in BusyPCs => cur[t] # c

QuietInv == \A c \in Clients : Over(c) => Quiet(c)

\* CLOSING to CLOSED happens once, and whoever did it reports it.
ClosingInv ==
    /\ \A c \in Clients : connState[c] # "CLOSED" => "closed" \notin told[c]
    /\ \A t \in Threads : pc[t] = "closing" =>
          connState[cur[t]] = "CLOSED" /\ "closed" \notin told[cur[t]]
    /\ \A t, u \in Threads : pc[t] = "closing" /\ pc[u] = "closing" /\ cur[t] = cur[u] => t = u

EndInv ==
    /\ \A t \in Threads : pc[t] = "remove" => connState[cur[t]] = "CLOSED"
    /\ \A c \in Clients : marked[c] \/ mem[c] = "freed" => connState[c] = "CLOSED"

\* A half-received packet is given back when OnClosed is reported.
PacketInv == \A c \in Clients : recvPacket[c] /\ connState[c] = "CLOSED" => LostReport(c)

LifeInv ==
    /\ OpenedInv /\ FreshInv /\ SendNamed /\ DroppedDrained
    /\ SocketInv /\ EarlyRelease /\ KeptInv /\ ReceivingInv
    /\ QuietInv /\ ClosingInv /\ EndInv /\ PacketInv

-----------------------------------------------------------------------------
(* The start of the service. *)

\* StartNetService gave up, or met an acceptor that was deleted under it.
StartLost == pc[Starter] \in {"gaveUp", "fault"}

\* Unless it was, an allocated client is on its way to an accept or out again.
IdleInv ==
    ~StartLost => \A c \in Clients :
        mem[c] = "live" /\ recvOp[c] = "idle" =>
            Dropped(c) \/ \E t \in Threads : pc[t] = "issueAccept" /\ cur[t] = c
DrainedClosed == ~StartLost => ZeroMeansClosed
=============================================================================
