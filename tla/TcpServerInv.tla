----------------------------- MODULE TcpServerInv -----------------------------
(***************************************************************************)
(* The inductive invariant behind RefProtects.  A reference protects its    *)
(* client as long as mReferenceCount counts the references, and the one     *)
(* step that sets it to 0 without counting is the acceptor's Reset of a     *)
(* client it drops (DropClient).  That step is harmless because nobody can  *)
(* have a reference yet: the application was never told the client's id.    *)
(* To keep that, the invariant follows each client from its allocation to   *)
(* its first receive: one thread at a time has it in hand ("pumps" it), and *)
(* while one has, the kernel has none of its mRecvContext.                  *)
(* Below it, the invariant behind the end of the acceptor: the count of     *)
(* pending accepts is never too low.                                        *)
(***************************************************************************)
EXTENDS TcpServer

\* A worker between the completion of a receive and the next receive, a thread
\* between AllocTcpClient and the first receive, and the latter or the worker
\* that is about to call OnConnected.
EarlyPCs == {"issueAccept", "acceptEx", "acceptPostRecv", "acceptIssueRecv",
             "acceptFailed", "acceptRemove"}
PumpPCs == EarlyPCs \cup {"split", "postRecv", "issueRecv"}
OpenerPCs == EarlyPCs \cup {"accepted"}
WorkPCs == TouchingPCs \cup {"acceptRemove"}

\* Initialize posts one accept more only while some are left to post.
StartInv == pc[Starter] \in {"postAccept", "issueAccept", "acceptEx"} => started < Backlog

\* Nothing refers to a client that was never allocated.
AllocInv ==
    /\ \A t \in Threads : pc[t] \in WorkPCs => cur[t] \in Clients /\ mem[cur[t]] # "unused"
    /\ \A x \in IOContexts :
          /\ io[x] # "none" => ctxType[x] # "free"
          /\ ctxType[x] # "free" => ctxClient[x] \in Clients /\ mem[ctxClient[x]] # "unused"
    /\ \A c \in Clients : io[c] # "none" => mem[c] # "unused"
    /\ \A c \in Clients : mem[c] = "unused" => recvOp[c] = "idle"

\* One thread at a time has a client between two operations on its mRecvContext.
OnePump ==
    /\ \A t, u \in Threads :
          pc[t] \in PumpPCs /\ pc[u] \in PumpPCs /\ cur[t] = cur[u] => t = u
    /\ \A t, u \in Threads :
          pc[t] \in OpenerPCs /\ pc[u] \in OpenerPCs /\ cur[t] = cur[u] => t = u

PumpIO ==
    \A t \in Threads : pc[t] \in PumpPCs =>
        io[cur[t]] = IF pc[t] \in {"issueRecv", "acceptIssueRecv"} THEN "posting" ELSE "none"

PumpOp ==
    \A t \in Threads :
        /\ pc[t] \in {"split", "postRecv", "issueRecv", "acceptIssueRecv", "accepted"}
              => recvOp[cur[t]] = "recv"
        /\ pc[t] \in {"acceptEx", "acceptPostRecv"} => recvOp[cur[t]] = "accept"
        /\ pc[t] \in {"issueAccept", "acceptRemove"} => recvOp[cur[t]] = "idle"

\* The application knows an id only once a receive was posted for it.
Named(c) == told[c] \cap {"connected", "received"} # {}
NamedInv ==
    /\ \A c \in Clients : recvOp[c] # "recv" => ~Named(c)
    /\ \A t \in Threads : pc[t] \in {"acceptIssueRecv", "acceptFailed"} => ~Named(cur[t])

\* mReferenceCount counts the application's references, and those keep the client.
RefCounted == \A c \in Clients : refCount[c] = Cardinality(RefHolders(c))
RefNamed == \A a \in AppThreads : pc[a] \in RefPCs => Named(cur[a]) /\ mem[cur[a]] = "live"

ConnInv == AllocInv /\ OnePump /\ PumpIO /\ PumpOp /\ NamedInv
RefInv == RefCounted /\ RefNamed

\* The whole of it: inductive whatever the constants, and enough for RefProtects.
RefIInv == TypeOK /\ StartInv /\ ConnInv /\ RefInv

-----------------------------------------------------------------------------
(* The acceptor. *)

AcceptWorkers == {w \in Workers : pc[w] \in AcceptPCs}
AcceptExs == {t \in Threads : pc[t] = "acceptEx"}
Accepts == Cardinality(AcceptsOutstanding) + Cardinality(AcceptWorkers) + Cardinality(AcceptExs)

\* mPendingAcceptCount never says less than what is there; an exception or a use
\* of freed memory on the way leaves it too high for ever.
AcceptCounted == pendingAccept >= Accepts

\* The acceptor is deleted with nothing left of it, or by a StartNetService that fails.
AcceptorInv ==
    /\ AcceptCounted
    /\ pc[Starter] # "gaveUp" /\ acceptor = "deleted" => AcceptorIdle
=============================================================================
